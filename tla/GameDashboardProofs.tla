------------------------ MODULE GameDashboardProofs ------------------------
(***************************************************************************)
(* Theorems about GameDashboard for any card, any seed and any household:  *)
(* what a child can start, what a parent's decision survives, and that the *)
(* dashboard shows what is stored.  Scanning, seeding and the dashboard    *)
(* share the library's tables; the invariant says at each point of a start *)
(* which of them already belong to the card that is in the slot.           *)
(***************************************************************************)
EXTENDS GameDashboard, SequenceTheorems, TLAPS

HouseholdStates == [recommended : BOOLEAN, for_kids : BOOLEAN, hidden : BOOLEAN]

Entries == [game : Games, path : RomPaths \cup PackagePaths,
            native : BOOLEAN, child_visible : BOOLEAN]

\* The tables hold identities of games that were scanned once; of a game that
\* is hidden none is recommended (the CHECK of household_game_state).
LibraryTypeOK ==
  /\ card \in Cards /\ entries \subseteq Entries
  /\ inventory \subseteq Games /\ available \subseteq inventory /\ eligible \subseteq inventory
  /\ household \in [Games -> HouseholdStates]
  /\ \A g \in Games : ~(household[g].hidden /\ household[g].recommended)
  /\ favorite \subseteq Profiles \X Games /\ allowed \subseteq Children \X Games
  /\ verdict \in [Profiles \X Games -> {"none", "positive", "negative"}]
  /\ completed \subseteq Profiles \X Games
  /\ recent \in [Profiles -> Seq(Games)]
  /\ seeded \subseteq DOMAIN Seed /\ seed_done \in BOOLEAN
  /\ next_seed \in Nat \ {0} /\ pending \subseteq Games /\ unresolved \in BOOLEAN
  /\ decided \subseteq (Children \cup {"household"}) \X Games

Stages == {"dashboard", "filters", "search", "details"}

\* A dashboard is open only in a launcher that has started; its other stages
\* belong to it, and the pages that write only to a parent.
ScreenInv ==
  /\ who \in Profiles \cup {"none"} /\ marker \in Profiles \cup {"none"}
  /\ phase \in {"down", "seeding", "up"}
  /\ who # "none" => phase = "up"
  /\ stage \in Stages
  /\ stage # "dashboard" => who # "none"
  /\ page # "overview" => stage = "details" /\ ~IsChild(who)

\* While the launcher runs, the rows that are available are those of its scan,
\* and one for children is never that of a package for parents.
ScanInv ==
  /\ phase = "down" => entries = {}
  /\ phase # "down" => available = Listed
  /\ \A entry \in entries :
       entry.native /\ entry.game \in eligible => entry.child_visible

\* What is open on the dashboard is on the dashboard.
ShownInv ==
  /\ NothingShownIsStale
  /\ stage = "details" => detail \in DOMAIN View(who)

\* The import has passed the items before next_seed: each is flagged, or its
\* game is not on this card and the import will be repeated.
ImportInv ==
  /\ seed_done => DOMAIN Seed \subseteq seeded
  /\ phase = "seeding" =>
       \A i \in DOMAIN Seed :
         i < next_seed => i \in seeded \/ (Seed[i].game \notin Listed /\ unresolved)

\* A parent decides about games of this card, whose items are all flagged by
\* then: no import owes them anything any more.
DecisionInv ==
  /\ phase = "up" =>
       pending = {} /\ \A i \in DOMAIN Seed : i \in seeded \/ Seed[i].game \notin available
  /\ \A d \in decided :
       d[2] \notin pending /\ \A i \in DOMAIN Seed : Seed[i].game = d[2] => i \in seeded

DashboardInv ==
  LibraryTypeOK /\ ScreenInv /\ ScanInv /\ ShownInv /\ ImportInv /\ DecisionInv

-----------------------------------------------------------------------------
\* The steps by what they do to the library.

\* Steps of the screen alone.
Looks ==
  \/ Resume \/ (\E p \in Profiles : Open(p)) \/ Close
  \/ OpenFilters \/ LeavePicker \/ PressFilter \/ PressPlatform
  \/ OpenSearch \/ TypeQuery \/ OpenDetails \/ LeaveDetails \/ TurnPage
  \/ PressBigMode \/ LaunchRefused

\* Steps that end the launcher.
Ends == Die \/ HandOverCutShort \/ \E entry \in entries : HandOver(entry)

Plays == \E entry \in entries : PlayNative(entry)

LEMMA StepCases ==
  Next => Starting \/ Looks \/ Ends \/ Review \/ PressFamily \/ Plays \/ CardChanges
BY DEF Next, Looks, Ends, Plays

LEMMA LooksChangeNothing == Looks => UNCHANGED <<libraryVars, decided>>
<1> SUFFICES ASSUME Looks PROVE UNCHANGED <<libraryVars, decided>>
  OBVIOUS
<1> USE DEF Idle
<1>1. CASE Resume \/ (\E p \in Profiles : Open(p)) \/ Close
  BY <1>1 DEF Resume, Open, Close
<1>2. CASE OpenFilters \/ LeavePicker \/ PressFilter \/ PressPlatform
  BY <1>2 DEF OpenFilters, LeavePicker, PressFilter, PressPlatform
<1>3. CASE OpenSearch \/ TypeQuery \/ OpenDetails \/ LeaveDetails \/ TurnPage
  BY <1>3 DEF OpenSearch, TypeQuery, OpenDetails, LeaveDetails, TurnPage
<1>4. CASE PressBigMode \/ LaunchRefused
  BY <1>4 DEF PressBigMode, LaunchRefused
<1> QED
  BY <1>1, <1>2, <1>3, <1>4 DEF Looks

LEMMA EndsKeepTheTables ==
  Ends => /\ UNCHANGED <<card, tables, next_seed, pending, unresolved, decided>>
          /\ phase' = "down" /\ entries' = {}
          /\ ClosedScreen
          /\ marker' \in {marker, who} /\ (marker' # marker => who # "none")
BY DEF Ends, Die, HandOver, HandOverCutShort, Asked, LeaveMarked

-----------------------------------------------------------------------------
LEMMA ScreenStep == ScreenInv /\ [Next]_vars => ScreenInv'
<1> SUFFICES ASSUME ScreenInv, [Next]_vars PROVE ScreenInv'
  OBVIOUS
<1> USE DEF ScreenInv, Stages, startup
<1>1. CASE UNCHANGED vars
  BY <1>1 DEF vars, libraryVars, dashboardVars, screen, IsChild
<1>2. CASE Starting
  BY <1>2 DEF Starting, StartupStep, Scan, PassSeedItem, ImportSeedItem, ImportCutShort,
     WriteSeededState, FinishSeed, dashboardVars, screen, IsChild, Importing
<1>3. CASE Resume \/ (\E p \in Profiles : Open(p)) \/ Close
  BY <1>3 DEF Resume, Open, Close, Show, ClosedScreen, libraryVars
<1>4. CASE OpenFilters \/ LeavePicker \/ PressFilter \/ PressPlatform
  BY <1>4 DEF OpenFilters, LeavePicker, PressFilter, PressPlatform, Idle, libraryVars, IsChild
<1>5. CASE OpenSearch \/ TypeQuery \/ OpenDetails \/ LeaveDetails \/ TurnPage
  BY <1>5 DEF OpenSearch, TypeQuery, OpenDetails, LeaveDetails, TurnPage, Idle, libraryVars,
     IsChild
<1>6. CASE PressBigMode \/ LaunchRefused
  BY <1>6 DEF PressBigMode, LaunchRefused, Refresh, libraryVars, IsChild
<1>7. CASE Ends
  BY <1>7, EndsKeepTheTables DEF ClosedScreen
<1>8. CASE Review \/ PressFamily \/ Plays
  BY <1>8 DEF Review, PressFamily, Plays, PlayNative, Refresh, IsChild
<1>9. CASE CardChanges
  BY <1>9 DEF CardChanges, dashboardVars, screen, IsChild
<1> QED
  BY <1>1, <1>2, <1>3, <1>4, <1>5, <1>6, <1>7, <1>8, <1>9, StepCases DEF Looks

LEMMA ScanStep == ScreenInv /\ ScanInv /\ [Next]_vars => ScanInv'
<1> SUFFICES ASSUME ScreenInv, ScanInv, [Next]_vars PROVE ScanInv'
  OBVIOUS
<1> USE DEF ScanInv, tables, startup, Listed
<1>1. CASE UNCHANGED vars \/ Looks \/ CardChanges
  BY <1>1, LooksChangeNothing DEF vars, libraryVars, CardChanges
<1>2. CASE Scan
  <2> DEFINE found == Discovered(card)
  <2>1. entries' = found /\ ReconcileInventory(found)
    BY <1>2 DEF Scan
  <2> HIDE DEF found
  <2> QED
    BY <1>2, <2>1 DEF Scan, ReconcileInventory
<1>3. CASE PassSeedItem \/ ImportSeedItem \/ WriteSeededState \/ FinishSeed
  BY <1>3 DEF PassSeedItem, ImportSeedItem, WriteSeededState, FinishSeed, Importing
<1>4. CASE ImportCutShort
  BY <1>4 DEF ImportCutShort
<1>5. CASE Ends
  BY <1>5, EndsKeepTheTables
<1>6. CASE Review \/ PressFamily \/ Plays
  BY <1>6 DEF Review, PressFamily, Plays, PlayNative
<1> QED
  BY <1>1, <1>2, <1>3, <1>4, <1>5, <1>6, StepCases DEF Starting, StartupStep

LEMMA SeedItems ==
  /\ Len(Seed) \in Nat /\ DOMAIN Seed = 1..Len(Seed)
  /\ \A i \in DOMAIN Seed : Seed[i].profile \in Profiles /\ Seed[i].game \in Games
<1> DEFINE Items == [profile : Parents \cup Children,
                     kind : {"favorite", "curated"}, game : Games]
<1>1. Seed \in Seq(Items)
  BY LibraryAssumption
<1>2. Len(Seed) \in Nat /\ DOMAIN Seed = 1..Len(Seed)
  BY <1>1
<1>3. \A item \in Items : item.profile \in Profiles /\ item.game \in Games
  BY DEF Profiles
<1> HIDE DEF Items
<1>4. \A i \in DOMAIN Seed : Seed[i] \in Items
  BY <1>1, <1>2
<1> QED
  BY <1>2, <1>3, <1>4

LEMMA ImportStep == LibraryTypeOK /\ ScanInv /\ ImportInv /\ [Next]_vars => ImportInv'
<1> SUFFICES ASSUME LibraryTypeOK, ScanInv, ImportInv, [Next]_vars PROVE ImportInv'
  OBVIOUS
<1> USE DEF ImportInv, tables, startup, Listed
<1>a. next_seed \in Nat \ {0}
  BY DEF LibraryTypeOK
<1>1. CASE UNCHANGED vars \/ Looks \/ CardChanges
  BY <1>1, LooksChangeNothing DEF vars, libraryVars, CardChanges
<1>2. CASE Scan
  BY <1>2, SeedItems DEF Scan
<1>3. CASE PassSeedItem
  <2>1. /\ phase = "seeding" /\ next_seed \in DOMAIN Seed /\ next_seed' = next_seed + 1
        /\ next_seed \in seeded \/ Seed[next_seed].game \notin Listed
        /\ unresolved \/ next_seed \notin seeded => unresolved'
        /\ UNCHANGED <<entries, seeded, seed_done, phase>>
    BY <1>3, Zenon DEF PassSeedItem, Importing
  <2>2. ASSUME NEW i \in DOMAIN Seed, i < next_seed + 1
        PROVE  i \in seeded \/ (Seed[i].game \notin Listed /\ unresolved')
    <3>1. CASE i < next_seed
      BY <2>1, <3>1
    <3>2. CASE i = next_seed
      BY <2>1, <3>2
    <3> QED
      BY <1>a, <2>2, <3>1, <3>2, SeedItems
  <2> QED
    BY <2>1, <2>2
<1>4. CASE ImportSeedItem
  BY <1>4, <1>a, SeedItems DEF ImportSeedItem, Importing
<1>5. CASE ImportCutShort
  BY <1>5 DEF ImportCutShort
<1>6. CASE WriteSeededState
  BY <1>6 DEF WriteSeededState
<1>7. CASE FinishSeed
  <2>1. \A i \in DOMAIN Seed : i < next_seed
    BY <1>7, <1>a, SeedItems DEF FinishSeed
  <2> QED
    BY <1>7, <2>1 DEF FinishSeed
<1>8. CASE Ends
  BY <1>8, EndsKeepTheTables
<1>9. CASE Review \/ PressFamily \/ Plays
  BY <1>9 DEF Review, PressFamily, Plays, PlayNative
<1> QED
  BY <1>1, <1>2, <1>3, <1>4, <1>5, <1>6, <1>7, <1>8, <1>9, StepCases DEF Starting, StartupStep

-----------------------------------------------------------------------------
\* What the profile sees: for a child, the games meant for children that are
\* not hidden and were assigned to it.
Seen == {g \in available : IsChild(who) => /\ g \in eligible
                                          /\ ~household[g].hidden
                                          /\ <<who, g>> \in allowed}

Row(g) ==
  [child_eligible |-> g \in eligible,
   household |-> household[g],
   child_allowed |-> <<who, g>> \in allowed,
   verdict |-> verdict[<<who, g>>],
   completed |-> <<who, g>> \in completed,
   last_played |-> LastPlayed(who, g),
   kids |-> {c \in Children : <<c, g>> \in allowed}]

LEMMA ViewShows == DOMAIN View(who) = Seen /\ \A g \in Seen : View(who)[g] = Row(g)
<1> DEFINE all == ListForProfile(who)
<1>1. DOMAIN all = available /\ \A g \in available : all[g] = Row(g)
  BY DEF ListForProfile, Row
<1>2. \A g \in available : /\ all[g].child_eligible = (g \in eligible)
                           /\ all[g].household = household[g]
                           /\ all[g].child_allowed = (<<who, g>> \in allowed)
  BY DEF ListForProfile
<1> HIDE DEF all
<1> DEFINE kept == {g \in DOMAIN all :
                      IsChild(who) => /\ all[g].child_eligible
                                      /\ ~all[g].household.hidden
                                      /\ all[g].child_allowed}
<1>3. View(who) = [g \in kept |-> all[g]]
  BY DEF View, all
<1>4. kept = Seen
  BY <1>1, <1>2 DEF Seen
<1> QED
  BY <1>1, <1>3, <1>4 DEF Seen

LEMMA ViewStands ==
  ASSUME NEW p, who' = p,
         UNCHANGED <<available, eligible, household, allowed, verdict,
                     completed, recent>>
  PROVE  View(who)' = View(p)
<1>1. ASSUME NEW g PROVE LastPlayed(who, g)' = LastPlayed(p, g)
  BY DEF LastPlayed
<1>2. ListForProfile(who)' = ListForProfile(p)
  BY <1>1 DEF ListForProfile
<1> QED
  BY <1>2 DEF View, IsChild

\* What can be launched is what can be seen.
LEMMA LaunchableIsShown == who # "none" /\ ShownInv => Launchable \subseteq DOMAIN View(who)
<1> SUFFICES ASSUME who # "none", ShownInv PROVE Launchable \subseteq DOMAIN View(who)
  OBVIOUS
<1>1. records = View(who)
  BY DEF ShownInv, NothingShownIsStale
<1>2. Filtered(records, filter) \subseteq DOMAIN View(who)
  BY <1>1 DEF Filtered
<1>3. stage = "search" => results \subseteq DOMAIN View(who)
  BY <1>1, <1>2 DEF ShownInv, NothingShownIsStale
<1> QED
  BY <1>2, <1>3 DEF Launchable, Offered, ShownInv

-----------------------------------------------------------------------------
\* The rank of a game that was played is positive.
LEMMA PlayedRank ==
  ASSUME NEW p, recent[p] \in Seq(Games), NEW g
  PROVE  LastPlayed(p, g) > 0 <=> Places(recent[p], g) # {}
<1> DEFINE s == recent[p]
           first == CHOOSE i \in Places(s, g) : TRUE
<1>1. Len(s) \in Nat /\ DOMAIN s = 1..Len(s)
  BY LenProperties
<1>2. Places(s, g) # {} => first \in 1..Len(s)
  BY <1>1 DEF Places
<1>3. LastPlayed(p, g) = IF Places(s, g) = {} THEN 0 ELSE Len(s) + 1 - first
  BY DEF LastPlayed
<1> HIDE DEF first, s
<1> QED
  BY <1>1, <1>2, <1>3 DEF s

LEMMA PlayedRanks ==
  recent[who] \in Seq(Games) =>
    \A h : LastPlayed(who, h) > 0 <=> Places(recent[who], h) # {}
BY PlayedRank

\* What is left of a sequence without one of its elements.
LEMMA RemovedAt ==
  ASSUME NEW S, NEW s \in Seq(S), NEW k \in 1..Len(s)
  PROVE  /\ RemoveAt(s, k) \in Seq(S) /\ Len(RemoveAt(s, k)) = Len(s) - 1
         /\ \A i \in 1..(k - 1) : RemoveAt(s, k)[i] = s[i]
         /\ \A i \in k..(Len(s) - 1) : RemoveAt(s, k)[i] = s[i + 1]
<1> DEFINE before == SubSeq(s, 1, k - 1)
           after == SubSeq(s, k + 1, Len(s))
<1>1. Len(s) \in Nat /\ k \in Int /\ \A i \in 1..Len(s) : s[i] \in S
  BY LenProperties, ElementOfSeq
<1>2. /\ before \in Seq(S) /\ Len(before) = k - 1
      /\ \A i \in 1..(k - 1) : before[i] = s[i]
  BY <1>1, SubSeqProperties
<1>3. /\ after \in Seq(S) /\ Len(after) = Len(s) - k
      /\ \A i \in k..(Len(s) - 1) : after[i - (k - 1)] = s[i + 1]
  <2>1. \A i \in (k + 1)..Len(s) : s[i] \in S
    BY <1>1
  <2>2. /\ after \in Seq(S)
        /\ Len(after) = IF k + 1 <= Len(s) THEN Len(s) - (k + 1) + 1 ELSE 0
        /\ \A i \in 1..(Len(s) - (k + 1) + 1) : after[i] = s[(k + 1) + i - 1]
    BY <1>1, <2>1, SubSeqProperties
  <2> HIDE DEF after
  <2>3. Len(after) = Len(s) - k
    BY <1>1, <2>2
  <2>4. ASSUME NEW i \in k..(Len(s) - 1) PROVE after[i - (k - 1)] = s[i + 1]
    <3>1. /\ i - (k - 1) \in 1..(Len(s) - (k + 1) + 1)
          /\ (k + 1) + (i - (k - 1)) - 1 = i + 1
      BY <1>1
    <3> QED
      BY <2>2, <3>1
  <2> QED
    BY <2>2, <2>3, <2>4
<1> HIDE DEF before, after
<1>4. /\ before \o after \in Seq(S) /\ Len(before \o after) = Len(before) + Len(after)
      /\ \A i \in 1..(Len(before) + Len(after)) :
           (before \o after)[i] = IF i <= Len(before) THEN before[i]
                                  ELSE after[i - Len(before)]
  BY <1>2, <1>3, ConcatProperties
<1>5. RemoveAt(s, k) = before \o after
  BY DEF RemoveAt, before, after
<1>6. Len(RemoveAt(s, k)) = Len(s) - 1
  <2>1. Len(before) + Len(after) = Len(s) - 1
    BY <1>1, <1>2, <1>3
  <2> QED
    BY <1>4, <1>5, <2>1
<1>7. ASSUME NEW i \in 1..(k - 1) PROVE RemoveAt(s, k)[i] = s[i]
  <2>1. i <= Len(before) /\ i \in 1..(Len(before) + Len(after))
    BY <1>1, <1>2, <1>3
  <2> QED
    BY <1>2, <1>4, <1>5, <2>1
<1>8. ASSUME NEW i \in k..(Len(s) - 1) PROVE RemoveAt(s, k)[i] = s[i + 1]
  <2>1. ~(i <= Len(before)) /\ i \in 1..(Len(before) + Len(after))
    BY <1>1, <1>2, <1>3
  <2>2. RemoveAt(s, k)[i] = after[i - (k - 1)]
    BY <1>2, <1>4, <1>5, <2>1
  <2> QED
    BY <1>3, <2>2
<1> QED
  BY <1>4, <1>5, <1>6, <1>7, <1>8

\* What a sequence holds behind a first element.
LEMMA PutInFront ==
  ASSUME NEW S, NEW s \in Seq(S), NEW g \in S
  PROVE  /\ <<g>> \o s \in Seq(S)
         /\ \A h : Places(<<g>> \o s, h) # {} <=> h = g \/ Places(s, h) # {}
<1> DEFINE t == <<g>> \o s
<1>1. Len(s) \in Nat /\ DOMAIN s = 1..Len(s)
  BY LenProperties
<1>2. <<g>> \in Seq(S) /\ Len(<<g>>) = 1 /\ <<g>>[1] = g
  OBVIOUS
<1>3. /\ t \in Seq(S) /\ Len(t) = Len(<<g>>) + Len(s)
      /\ \A i \in 1..(Len(<<g>>) + Len(s)) :
           t[i] = IF i <= Len(<<g>>) THEN <<g>>[i] ELSE s[i - Len(<<g>>)]
  BY <1>2, ConcatProperties
<1> HIDE DEF t
<1>4. DOMAIN t = 1..(1 + Len(s)) /\ t[1] = g
  BY <1>1, <1>2, <1>3, LenProperties
<1>5. ASSUME NEW i \in 1..Len(s) PROVE t[i + 1] = s[i]
  <2>1. ~(i + 1 <= 1) /\ i + 1 \in 1..(1 + Len(s)) /\ (i + 1) - 1 = i
    BY <1>1
  <2> QED
    BY <1>2, <1>3, <2>1
<1>6. ASSUME NEW h, Places(t, h) # {} PROVE h = g \/ Places(s, h) # {}
  <2>1. PICK j \in 1..(1 + Len(s)) : t[j] = h
    BY <1>4, <1>6 DEF Places
  <2>2. CASE j = 1
    BY <1>4, <2>1, <2>2
  <2>3. CASE j # 1
    <3>1. j - 1 \in 1..Len(s) /\ (j - 1) + 1 = j
      BY <1>1, <2>3
    <3>2. s[j - 1] = h
      BY <1>5, <2>1, <3>1
    <3> QED
      BY <1>1, <3>1, <3>2 DEF Places
  <2> QED
    BY <2>2, <2>3
<1>7. Places(t, g) # {}
  <2>1. 1 \in 1..(1 + Len(s))
    BY <1>1
  <2> QED
    BY <1>4, <2>1 DEF Places
<1>8. ASSUME NEW h, Places(s, h) # {} PROVE Places(t, h) # {}
  <2>1. PICK i \in 1..Len(s) : s[i] = h
    BY <1>1, <1>8 DEF Places
  <2>2. i + 1 \in DOMAIN t /\ t[i + 1] = h
    BY <1>1, <1>4, <1>5, <2>1
  <2> QED
    BY <2>2 DEF Places
<1> QED
  BY <1>3, <1>6, <1>7, <1>8 DEF t

\* Moving a game to the front of a sequence leaves every other one in it.
LEMMA MovedToFrontKeeps ==
  ASSUME NEW s \in Seq(Games), NEW g \in Games
  PROVE  /\ MovedToFront(s, g) \in Seq(Games)
         /\ \A h : Places(MovedToFront(s, g), h) # {} <=> h = g \/ Places(s, h) # {}
<1>1. Len(s) \in Nat /\ DOMAIN s = 1..Len(s)
  BY LenProperties
<1>2. CASE Places(s, g) = {}
  BY <1>2, PutInFront DEF MovedToFront
<1>3. CASE Places(s, g) # {}
  <2> DEFINE k == CHOOSE i \in Places(s, g) : TRUE
             others == RemoveAt(s, k)
  <2>1. k \in 1..Len(s) /\ s[k] = g
    BY <1>1, <1>3 DEF Places
  <2>2. MovedToFront(s, g) = <<g>> \o others
    BY <1>3 DEF MovedToFront
  <2> HIDE DEF k
  <2>3. /\ others \in Seq(Games) /\ Len(others) = Len(s) - 1
        /\ \A i \in 1..(k - 1) : others[i] = s[i]
        /\ \A i \in k..(Len(s) - 1) : others[i] = s[i + 1]
    BY <2>1, RemovedAt
  <2> HIDE DEF others
  <2>4. DOMAIN others = 1..(Len(s) - 1)
    BY <2>3, LenProperties
  <2>5. ASSUME NEW h, Places(others, h) # {} PROVE Places(s, h) # {}
    <3>1. PICK i \in 1..(Len(s) - 1) : others[i] = h
      BY <2>4, <2>5 DEF Places
    <3>2. i \in 1..Len(s) /\ i + 1 \in 1..Len(s) /\ (s[i] = h \/ s[i + 1] = h)
      BY <1>1, <2>1, <2>3, <3>1
    <3> QED
      BY <1>1, <3>2 DEF Places
  <2>6. ASSUME NEW h, h # g, Places(s, h) # {} PROVE Places(others, h) # {}
    <3>1. PICK i \in 1..Len(s) : s[i] = h
      BY <1>1, <2>6 DEF Places
    <3>2. i # k
      BY <2>1, <2>6, <3>1
    <3>3. CASE i < k
      <4>1. i \in DOMAIN others /\ others[i] = h
        BY <1>1, <2>1, <2>3, <2>4, <3>1, <3>3
      <4> QED
        BY <4>1 DEF Places
    <3>4. CASE i > k
      <4>1. i - 1 \in k..(Len(s) - 1) /\ (i - 1) + 1 = i /\ i - 1 \in 1..(Len(s) - 1)
        BY <1>1, <2>1, <3>4
      <4>2. i - 1 \in DOMAIN others /\ others[i - 1] = h
        BY <2>3, <2>4, <3>1, <4>1
      <4> QED
        BY <4>2 DEF Places
    <3> QED
      BY <1>1, <2>1, <3>2, <3>3, <3>4
  <2>7. /\ <<g>> \o others \in Seq(Games)
        /\ \A h : Places(<<g>> \o others, h) # {} <=> h = g \/ Places(others, h) # {}
    BY <2>3, PutInFront
  <2> QED
    BY <2>2, <2>5, <2>6, <2>7
<1> QED
  BY <1>2, <1>3

-----------------------------------------------------------------------------
\* A scan finds identities only, and at most what the card can hold.
LEMMA DiscoveredTypes == card \in Cards => Discovered(card) \subseteq Entries
<1> SUFFICES ASSUME card \in Cards PROVE Discovered(card) \subseteq Entries
  OBVIOUS
<1> USE CatalogueAssumption DEF Entries
<1>1. ASSUME NEW path \in card.roms PROVE path \in RomPaths /\ Identity(path) \in Games
  BY <1>1 DEF Identity
<1>2. FoundRoms(card) \subseteq Entries
  <2>1. ASSUME NEW path \in card.roms
        PROVE  [game |-> Identity(path), path |-> path, native |-> FALSE,
                child_visible |-> FALSE] \in Entries
    BY <1>1
  <2> QED
    BY <2>1 DEF FoundRoms
<1>3. ASSUME NEW path \in Loaded(card)
      PROVE  /\ path \in PackagePaths
             /\ card.packages[path].id \in Games /\ card.packages[path].family \in BOOLEAN
  BY <1>3 DEF Loaded, Packages
<1>4. FoundPackages(card) \subseteq Entries
  <2>1. ASSUME NEW path \in Loaded(card)
        PROVE  [game |-> card.packages[path].id, path |-> path, native |-> TRUE,
                child_visible |-> card.packages[path].family] \in Entries
    BY <1>3
  <2> QED
    BY <2>1 DEF FoundPackages
<1> QED
  BY <1>2, <1>4 DEF Discovered

\* What a play leaves in the history of its profile.
LEMMA PlayTypes ==
  ASSUME recent \in [Profiles -> Seq(Games)], NEW p \in Profiles, NEW g \in Games,
         RecordPlay(p, g)
  PROVE  /\ recent' \in [Profiles -> Seq(Games)]
         /\ recent'[p] = MovedToFront(recent[p], g)
<1>1. MovedToFront(recent[p], g) \in Seq(Games)
  BY MovedToFrontKeeps
<1> QED
  BY <1>1 DEF RecordPlay

LEMMA LaunchedIsAGame ==
  ASSUME LibraryTypeOK, ScreenInv, NEW entry \in entries, PlayNative(entry)
  PROVE  who \in Profiles /\ who # "none" /\ entry.game \in Games /\ entry.game \in Launchable
BY DEF PlayNative, Asked, LibraryTypeOK, ScreenInv, Entries

LEMMA TypeStep == LibraryTypeOK /\ ScreenInv /\ ShownInv /\ [Next]_vars => LibraryTypeOK'
<1> SUFFICES ASSUME LibraryTypeOK, ScreenInv, ShownInv, [Next]_vars PROVE LibraryTypeOK'
  OBVIOUS
<1> USE DEF LibraryTypeOK, tables, startup
<1>1. CASE UNCHANGED vars \/ Looks
  BY <1>1, LooksChangeNothing DEF vars, libraryVars, dashboardVars
<1>2. CASE Scan /\ UNCHANGED dashboardVars
  <2> DEFINE found == Discovered(card)
  <2>1. entries' = found /\ ReconcileInventory(found) /\ found \subseteq Entries
    BY <1>2, DiscoveredTypes DEF Scan
  <2>2. {entry.game : entry \in found} \subseteq Games
    BY <2>1 DEF Entries
  <2> HIDE DEF found
  <2>3. /\ inventory' \subseteq Games /\ available' \subseteq inventory'
        /\ eligible' \subseteq inventory'
    BY <2>1, <2>2 DEF ReconcileInventory
  <2>4. /\ UNCHANGED <<card, household, favorite, allowed, verdict, completed, recent,
                        seeded, seed_done, decided>>
        /\ next_seed' = 1 /\ pending' = {} /\ unresolved' = FALSE
    BY <1>2 DEF Scan, dashboardVars
  <2>5. seed_done' \in BOOLEAN /\ unresolved' \in BOOLEAN
    BY <2>4, Zenon
  <2>6. /\ household' \in [Games -> HouseholdStates]
        /\ \A g \in Games : ~(household[g].hidden /\ household[g].recommended)'
        /\ verdict' \in [Profiles \X Games -> {"none", "positive", "negative"}]
        /\ recent' \in [Profiles -> Seq(Games)]
    BY <2>4
  <2> QED
    BY <2>1, <2>3, <2>4, <2>5, <2>6
<1>3. CASE PassSeedItem /\ UNCHANGED dashboardVars
  BY <1>3, SeedItems DEF PassSeedItem, Importing, dashboardVars
<1>4. CASE (ImportSeedItem \/ ImportCutShort) /\ UNCHANGED dashboardVars
  <2>1. PICK item \in {Seed[i] : i \in DOMAIN Seed} :
          /\ Importing(item) /\ favorite' = Favored(item)
          /\ allowed' \in {allowed, Assigned(item)}
    BY <1>4 DEF ImportSeedItem, ImportCutShort
  <2>2. item.profile \in Profiles /\ item.game \in Games
    BY SeedItems
  <2>3. favorite' \subseteq Profiles \X Games /\ allowed' \subseteq Children \X Games
    BY <2>1, <2>2 DEF Favored, Assigned
  <2>4. next_seed \in DOMAIN Seed
    BY <2>1 DEF Importing
  <2>5. pending' \subseteq Games
    BY <1>4, SeedItems DEF ImportSeedItem, ImportCutShort
  <2> QED
    BY <1>4, <2>3, <2>4, <2>5 DEF ImportSeedItem, ImportCutShort, dashboardVars
<1>5. CASE WriteSeededState /\ UNCHANGED dashboardVars
  <2>1. SeededState \in HouseholdStates /\ ~SeededState.hidden
    BY DEF SeededState, HouseholdStates
  <2> QED
    BY <1>5, <2>1 DEF WriteSeededState, SetHouseholdState, dashboardVars
<1>6. CASE FinishSeed /\ UNCHANGED dashboardVars
  BY <1>6 DEF FinishSeed, dashboardVars
<1>7. CASE Ends
  BY <1>7, EndsKeepTheTables
<1>8. CASE Review
  <2>1. who \in Profiles /\ detail \in Games
    BY <1>8, ViewShows DEF Review, ScreenInv, ShownInv, Seen
  <2>2. /\ verdict' \in [Profiles \X Games -> {"none", "positive", "negative"}]
        /\ completed' \subseteq Profiles \X Games
    BY <1>8, <2>1 DEF Review, ToggleReview, SetReview, SetCompleted
  <2> QED
    BY <1>8, <2>2 DEF Review
<1>9. CASE PressFamily
  <2>1. PICK option \in {"recommended", "for_kids", "hidden"} \cup Children :
          /\ \/ option \in Children /\ SetChildAllowed(option, detail, <<option, detail>> \notin allowed)
             \/ UNCHANGED allowed
          /\ SetHouseholdState(detail, FlagsAfter(option, household[detail]))
          /\ decided' \subseteq decided \cup {<<"household", detail>>}
                                 \cup {<<c, detail>> : c \in Children}
    BY <1>9 DEF PressFamily
  <2>2. detail \in Games
    BY <1>9, ViewShows DEF PressFamily, ShownInv, Seen
  <2>3. FlagsAfter(option, household[detail]) \in HouseholdStates
    BY <2>2 DEF FlagsAfter, HouseholdStates
  <2>4. allowed' \subseteq Children \X Games
    BY <2>1, <2>2 DEF SetChildAllowed
  <2> QED
    BY <1>9, <2>1, <2>2, <2>3, <2>4 DEF PressFamily, SetHouseholdState
<1>10. CASE Plays
  <2>1. PICK entry \in entries : PlayNative(entry)
    BY <1>10 DEF Plays
  <2>2. recent' \in [Profiles -> Seq(Games)]
    BY <2>1, LaunchedIsAGame, PlayTypes DEF PlayNative
  <2> QED
    BY <2>1, <2>2 DEF PlayNative
<1>11. CASE CardChanges
  BY <1>11 DEF CardChanges, dashboardVars
<1> QED
  BY <1>1, <1>2, <1>3, <1>4, <1>5, <1>6, <1>7, <1>8, <1>9, <1>10, <1>11, StepCases
  DEF Starting, StartupStep

-----------------------------------------------------------------------------
\* A game that a search has found stays found when it is played: the filter for
\* started games had let it through only because it had been played before.
LEMMA SearchOutlivesAPlay ==
  ASSUME LibraryTypeOK, ScreenInv, ShownInv, NEW entry \in entries, PlayNative(entry),
         entry.game \in Filtered(View(who), filter)
  PROVE  Filtered(View(who), filter)' = Filtered(View(who), filter)
<1> DEFINE game == entry.game
<1>1. /\ who \in Profiles /\ game \in Games /\ RecordPlay(who, game)
      /\ UNCHANGED <<who, filter, available, eligible, household, allowed, verdict,
                      completed>>
  BY LaunchedIsAGame DEF PlayNative, Refresh
<1>2. /\ DOMAIN View(who) = Seen /\ \A g \in Seen : View(who)[g] = Row(g)
      /\ DOMAIN View(who)' = Seen' /\ \A g \in Seen' : View(who)'[g] = Row(g)'
  <2>1. (DOMAIN View(who) = Seen /\ \A g \in Seen : View(who)[g] = Row(g))'
    BY ViewShows, PTL
  <2> QED
    BY <2>1, ViewShows
<1>3. Seen' = Seen
  BY <1>1 DEF Seen, IsChild
<1>4. ASSUME NEW g PROVE LastPlayed(who, g)' > 0 <=> g = game \/ LastPlayed(who, g) > 0
  <2>1. /\ recent[who] \in Seq(Games) /\ recent'[who'] \in Seq(Games)
        /\ recent'[who'] = MovedToFront(recent[who], game)
    BY <1>1, PlayTypes, MovedToFrontKeeps DEF LibraryTypeOK
  <2>2. LastPlayed(who, g) > 0 <=> Places(recent[who], g) # {}
    BY <2>1, PlayedRank
  <2>3. LastPlayed(who, g)' > 0 <=> Places(recent'[who'], g) # {}
    <3>1. (recent[who] \in Seq(Games) =>
             \A h : LastPlayed(who, h) > 0 <=> Places(recent[who], h) # {})'
      BY PlayedRanks, PTL
    <3> QED
      BY <2>1, <3>1
  <2> QED
    BY <1>1, <2>1, <2>2, <2>3, MovedToFrontKeeps
<1>5. ASSUME NEW g \in Seen
      PROVE  Matches(View(who)', filter, g) <=> Matches(View(who), filter, g)
  <2> DEFINE old == View(who)[g]
             new == View(who)'[g]
  <2>1. old = Row(g) /\ new = Row(g)'
    BY <1>2, <1>3
  <2>2. /\ new.household = old.household /\ new.verdict = old.verdict
        /\ new.completed = old.completed /\ new.kids = old.kids
        /\ new.last_played = LastPlayed(who, g)' /\ old.last_played = LastPlayed(who, g)
    BY <1>1, <2>1 DEF Row
  <2>3. g = game => (filter.progress = "started" => old.last_played > 0)
    BY DEF Filtered, Matches
  <2>4. filter.progress = "started" => (new.last_played > 0 <=> old.last_played > 0)
    BY <1>4, <2>2, <2>3
  <2>5. FamilyHas(filter.family, new) = FamilyHas(filter.family, old)
    BY <2>2 DEF FamilyHas
  <2> HIDE DEF old, new
  <2> QED
    BY <2>2, <2>4, <2>5 DEF Matches, old, new
<1> QED
  BY <1>1, <1>2, <1>3, <1>5 DEF Filtered

\* Every step leaves on the screen what the tables hold.
LEMMA ShownStep == LibraryTypeOK /\ ScreenInv /\ ShownInv /\ [Next]_vars => ShownInv'
<1> SUFFICES ASSUME LibraryTypeOK, ScreenInv, ShownInv, [Next]_vars PROVE ShownInv'
  OBVIOUS
<1> USE DEF ShownInv, NothingShownIsStale
<1>a. DOMAIN View(who) = Seen /\ DOMAIN View(who)' = Seen'
  <2>1. (DOMAIN View(who) = Seen)'
    BY ViewShows, PTL
  <2> QED
    BY <2>1, ViewShows
<1>b. (Looks \/ CardChanges \/ UNCHANGED vars)
        => UNCHANGED <<available, eligible, household, allowed, verdict, completed, recent>>
  BY LooksChangeNothing DEF libraryVars, tables, CardChanges, vars
<1>c. (Looks \/ CardChanges \/ UNCHANGED vars) /\ who' = who => View(who)' = View(who)
  BY <1>b, ViewStands
<1>1. CASE UNCHANGED vars \/ CardChanges
  <2>1. UNCHANGED screen /\ UNCHANGED big_mode
    BY <1>1 DEF vars, CardChanges, dashboardVars
  <2>2. who' = who
    BY <2>1 DEF screen
  <2>3. View(who)' = View(who)
    BY <1>1, <1>c, <2>2
  <2> QED
    BY <2>1, <2>3 DEF screen
<1>2. CASE Starting
  BY <1>2 DEF Starting, StartupStep, Scan, PassSeedItem, ImportSeedItem, ImportCutShort,
     WriteSeededState, FinishSeed, Importing, dashboardVars, screen, ScreenInv
<1>3. CASE Resume \/ \E p \in Profiles : Open(p)
  <2>1. PICK p : Show(p) /\ UNCHANGED libraryVars /\ UNCHANGED big_mode
    BY <1>3 DEF Resume, Open
  <2>2. View(who)' = View(p)
    BY <2>1, ViewStands DEF Show, libraryVars, tables
  <2> QED
    BY <2>1, <2>2 DEF Show
<1>4. CASE Close \/ Ends
  BY <1>4, EndsKeepTheTables DEF Close, ClosedScreen
<1>5. CASE OpenFilters \/ LeavePicker \/ PressFilter \/ PressPlatform
  <2>1. who' = who /\ records' = records /\ big_shown' = big_shown /\ big_mode' = big_mode
    BY <1>5 DEF OpenFilters, LeavePicker, PressFilter, PressPlatform, Idle
  <2>2. View(who)' = View(who)
    BY <1>5, <1>c, <2>1 DEF Looks
  <2>3. stage' # "search" /\ stage' # "details"
    BY <1>5 DEF OpenFilters, LeavePicker, PressFilter, PressPlatform
  <2> QED
    BY <2>1, <2>2, <2>3
<1>6. CASE OpenSearch \/ TypeQuery
  <2>1. /\ who' = who /\ records' = records /\ filter' = filter
        /\ big_shown' = big_shown /\ big_mode' = big_mode
        /\ stage' = "search" /\ results' = Filtered(records, filter) \cap query'
        /\ who # "none"
    BY <1>6 DEF OpenSearch, TypeQuery, Idle, ScreenInv
  <2>2. View(who)' = View(who)
    BY <1>6, <1>c, <2>1 DEF Looks
  <2> QED
    BY <2>1, <2>2
<1>7. CASE OpenDetails \/ LeaveDetails \/ TurnPage
  <2>1. /\ who' = who /\ records' = records
        /\ big_shown' = big_shown /\ big_mode' = big_mode /\ stage' # "search"
        /\ stage' = "details" => detail' \in Launchable \/ (detail' = detail /\ stage = "details")
    BY <1>7 DEF OpenDetails, LeaveDetails, TurnPage, Idle
  <2>2. View(who)' = View(who)
    BY <1>7, <1>c, <2>1 DEF Looks
  <2>3. who # "none"
    BY <1>7 DEF OpenDetails, LeaveDetails, TurnPage, ScreenInv
  <2>4. Launchable \subseteq DOMAIN View(who)
    BY <2>3, LaunchableIsShown
  <2> QED
    BY <2>1, <2>2, <2>4
<1>8. CASE PressBigMode
  <2>1. /\ who' = who /\ records' = records /\ stage' = stage /\ stage = "dashboard"
        /\ big_shown' = big_mode'
    BY <1>8 DEF PressBigMode
  <2>2. View(who)' = View(who)
    BY <1>8, <1>c, <2>1 DEF Looks
  <2> QED
    BY <2>1, <2>2
<1>9. CASE LaunchRefused
  <2>1. /\ UNCHANGED <<who, filter, stage, detail, query, results, big_shown, big_mode>>
        /\ records' = View(who)'
    BY <1>9 DEF LaunchRefused, Refresh
  <2>2. View(who)' = View(who)
    BY <1>9, <1>c, <2>1 DEF Looks
  <2> QED
    BY <2>1, <2>2
<1>10. CASE Review
  <2>1. /\ UNCHANGED <<who, stage, detail, big_shown, big_mode, available, eligible,
                        household, allowed>>
        /\ records' = View(who)' /\ stage = "details"
    BY <1>10 DEF Review, Refresh
  <2>2. Seen' = Seen
    BY <2>1 DEF Seen, IsChild
  <2> QED
    BY <1>a, <2>1, <2>2
<1>11. CASE PressFamily
  <2>1. /\ UNCHANGED <<who, stage, detail, big_shown, big_mode, available>>
        /\ records' = View(who)' /\ stage = "details" /\ ~IsChild(who)
    BY <1>11 DEF PressFamily, Refresh, ScreenInv
  <2>2. Seen' = Seen
    BY <2>1 DEF Seen, IsChild
  <2> QED
    BY <1>a, <2>1, <2>2
<1>12. CASE Plays
  <2>1. PICK entry \in entries : PlayNative(entry)
    BY <1>12 DEF Plays
  <2>2. /\ UNCHANGED <<who, filter, stage, detail, query, results, big_shown, big_mode,
                        available, eligible, household, allowed>>
        /\ records' = View(who)'
    BY <2>1 DEF PlayNative, Refresh
  <2>3. Seen' = Seen
    BY <2>2 DEF Seen, IsChild
  <2>4. ASSUME stage = "search"
        PROVE  Filtered(View(who), filter)' = Filtered(View(who), filter)
    <3>1. entry.game \in results /\ who # "none"
      BY <2>1, <2>4, LaunchedIsAGame DEF Launchable
    <3> QED
      BY <2>1, <2>4, <3>1, SearchOutlivesAPlay
  <2> QED
    BY <1>a, <2>2, <2>3, <2>4
<1> QED
  BY <1>1, <1>2, <1>3, <1>4, <1>5, <1>6, <1>7, <1>8, <1>9, <1>10, <1>11, <1>12, StepCases
  DEF Looks

\* A parent's decision is about a game on the dashboard, so after its items.
LEMMA DecisionStep ==
  LibraryTypeOK /\ ScreenInv /\ ScanInv /\ ShownInv /\ ImportInv /\ DecisionInv /\ [Next]_vars
    => DecisionInv'
<1> SUFFICES ASSUME LibraryTypeOK, ScreenInv, ScanInv, ShownInv, ImportInv, DecisionInv,
                    [Next]_vars
             PROVE  DecisionInv'
  OBVIOUS
<1> USE DEF DecisionInv, tables, startup
<1>1. CASE UNCHANGED vars \/ Looks \/ CardChanges
  BY <1>1, LooksChangeNothing DEF vars, libraryVars, dashboardVars, CardChanges
<1>2. CASE Scan /\ UNCHANGED dashboardVars
  BY <1>2 DEF Scan, dashboardVars, ImportInv
<1>3. CASE PassSeedItem /\ UNCHANGED dashboardVars
  BY <1>3 DEF PassSeedItem, Importing, dashboardVars
<1>4. CASE ImportSeedItem /\ UNCHANGED dashboardVars
  <2>1. /\ phase = "seeding" /\ phase' = phase /\ decided' = decided
        /\ next_seed \in DOMAIN Seed /\ next_seed \notin seeded
        /\ seeded' = seeded \cup {next_seed}
        /\ pending' \subseteq pending \cup {Seed[next_seed].game}
    BY <1>4 DEF ImportSeedItem, Importing, dashboardVars
  <2> QED
    BY <2>1
<1>5. CASE ImportCutShort /\ UNCHANGED dashboardVars
  BY <1>5 DEF ImportCutShort, dashboardVars
<1>6. CASE WriteSeededState /\ UNCHANGED dashboardVars
  BY <1>6 DEF WriteSeededState, dashboardVars
<1>7. CASE FinishSeed /\ UNCHANGED dashboardVars
  <2>1. \A i \in DOMAIN Seed : i < next_seed
    BY <1>7, SeedItems DEF FinishSeed, LibraryTypeOK
  <2>2. \A i \in DOMAIN Seed : i \in seeded \/ Seed[i].game \notin available
    BY <1>7, <2>1 DEF FinishSeed, ImportInv, ScanInv
  <2> QED
    BY <1>7, <2>2 DEF FinishSeed, dashboardVars
<1>8. CASE Ends
  BY <1>8, EndsKeepTheTables
<1>9. CASE Review \/ Plays
  BY <1>9 DEF Review, Plays, PlayNative
<1>10. CASE PressFamily
  <2>1. /\ UNCHANGED <<pending, phase, seeded, available>>
        /\ \A d \in decided' : d \in decided \/ d[2] = detail
    BY <1>10 DEF PressFamily
  <2>2. detail \in available /\ phase = "up"
    BY <1>10, ViewShows DEF PressFamily, ShownInv, ScreenInv, Seen
  <2> QED
    BY <2>1, <2>2
<1> QED
  BY <1>1, <1>2, <1>3, <1>4, <1>5, <1>6, <1>7, <1>8, <1>9, <1>10, StepCases
  DEF Starting, StartupStep

-----------------------------------------------------------------------------
LEMMA InitiallyEmpty == Init => DashboardInv
<1> SUFFICES ASSUME Init PROVE DashboardInv
  OBVIOUS
<1> USE DEF Init, LibraryInit, DashboardInit
<1>1. Uncurated \in HouseholdStates /\ ~Uncurated.hidden
  BY DEF Uncurated, HouseholdStates
<1>2. LibraryTypeOK
  <2>1. /\ household \in [Games -> HouseholdStates]
        /\ \A g \in Games : household[g] = Uncurated
    BY <1>1
  <2>2. \A g \in Games : ~(household[g].hidden /\ household[g].recommended)
    BY <1>1, <2>1
  <2>3. verdict \in [Profiles \X Games -> {"none", "positive", "negative"}]
    OBVIOUS
  <2>4. recent \in [Profiles -> Seq(Games)]
    OBVIOUS
  <2>5. seed_done \in BOOLEAN /\ unresolved \in BOOLEAN
    BY Zenon
  <2> QED
    BY <2>1, <2>2, <2>3, <2>4, <2>5 DEF LibraryTypeOK
<1>3. ScreenInv
  BY DEF ScreenInv, Stages
<1>4. ScanInv /\ ImportInv /\ DecisionInv
  BY DEF ScanInv, ImportInv, DecisionInv
<1>5. ShownInv
  BY DEF ShownInv, NothingShownIsStale
<1> QED
  BY <1>2, <1>3, <1>4, <1>5 DEF DashboardInv

LEMMA DashboardInvariant == Spec => []DashboardInv
<1>1. DashboardInv /\ [Next]_vars => DashboardInv'
  BY TypeStep, ScreenStep, ScanStep, ShownStep, ImportStep, DecisionStep DEF DashboardInv
<1> QED
  BY <1>1, InitiallyEmpty, PTL DEF Spec

\* Whatever cards are scanned, seeds imported and buttons pressed, the library's
\* tables keep their columns' types and checks (Impl::migrate, lines 252-322).
THEOREM LibraryIsWellFormed == Spec => []LibraryTypeOK
<1>1. DashboardInv => LibraryTypeOK
  BY DEF DashboardInv
<1> QED
  BY <1>1, DashboardInvariant, PTL

\* What a dashboard shows is what the tables hold, and its search lists what its
\* filter and its query select, also after a game it found was played.
THEOREM ShownIsCurrent == Spec => []NothingShownIsStale
<1>1. DashboardInv => NothingShownIsStale
  BY DEF DashboardInv, ShownInv
<1> QED
  BY <1>1, DashboardInvariant, PTL

-----------------------------------------------------------------------------
\* The flag of an item that is a child's is never there without its assignment,
\* wherever the import was cut short, unless a parent took the game away.
THEOREM SeedLands == Spec => []SeedAssignmentsLand
<1>1. Init => SeedAssignmentsLand
  BY DEF Init, LibraryInit, SeedAssignmentsLand
<1>2. ASSUME DashboardInv, SeedAssignmentsLand, [Next]_vars
      PROVE  SeedAssignmentsLand'
  <2> USE <1>2 DEF SeedAssignmentsLand, tables
  <2>1. CASE UNCHANGED vars \/ Looks \/ CardChanges
    BY <2>1, LooksChangeNothing DEF vars, libraryVars, dashboardVars, CardChanges
  <2>2. CASE (Scan \/ PassSeedItem \/ WriteSeededState \/ FinishSeed) /\ UNCHANGED dashboardVars
    BY <2>2 DEF Scan, PassSeedItem, WriteSeededState, FinishSeed, dashboardVars
  <2>3. CASE ImportSeedItem /\ UNCHANGED dashboardVars
    <3>1. /\ allowed' = Assigned(Seed[next_seed])
          /\ seeded' = seeded \cup {next_seed} /\ decided' = decided
      BY <2>3 DEF ImportSeedItem, Importing, dashboardVars
    <3> QED
      BY <3>1 DEF Assigned
  <2>4. CASE ImportCutShort /\ UNCHANGED dashboardVars
    BY <2>4 DEF ImportCutShort, Assigned, dashboardVars
  <2>5. CASE Ends
    BY <2>5, EndsKeepTheTables
  <2>6. CASE Review \/ Plays
    BY <2>6 DEF Review, Plays, PlayNative
  <2>7. CASE PressFamily
    <3>1. PICK option : 
            LET assigns == option \in Children /\ records[detail].child_eligible IN
            /\ IF assigns
               THEN SetChildAllowed(option, detail, <<option, detail>> \notin allowed)
               ELSE UNCHANGED allowed
            /\ decided' = decided \cup {<<"household", detail>>}
                            \cup (IF assigns THEN {<<option, detail>>} ELSE {})
      BY <2>7 DEF PressFamily
    <3>2. decided \subseteq decided' /\ allowed \ allowed' \subseteq decided'
      BY <3>1 DEF SetChildAllowed
    <3>3. seeded' = seeded
      BY <2>7 DEF PressFamily
    <3> QED
      BY <3>2, <3>3
  <2> QED
    BY <1>2, <2>1, <2>2, <2>3, <2>4, <2>5, <2>6, <2>7, StepCases DEF Starting, StartupStep
<1> QED
  BY <1>1, <1>2, DashboardInvariant, PTL DEF Spec

\* What a parent decided stands until a parent decides again: the import owes
\* nothing to a game of a decision, and nothing else writes where it wrote.
THEOREM DecisionsStand == Spec => ParentDecisionsStand
<1> DEFINE Stands ==
             who \notin Parents =>
               /\ \A g \in Games : <<"household", g>> \in decided => household'[g] = household[g]
               /\ \A c \in Children, g \in Games :
                    <<c, g>> \in decided => (<<c, g>> \in allowed') = (<<c, g>> \in allowed)
<1>1. ASSUME DashboardInv, [Next]_vars, who \notin Parents PROVE Stands
  <2> USE <1>1 DEF tables
  <2>1. CASE UNCHANGED <<household, allowed>>
    BY <2>1
  <2>2. CASE ImportSeedItem \/ ImportCutShort
    <3>1. /\ household' = household /\ next_seed \in DOMAIN Seed \ seeded
          /\ allowed' \in {allowed, Assigned(Seed[next_seed])}
      BY <2>2 DEF ImportSeedItem, ImportCutShort, Importing
    <3>2. \A d \in decided : d[2] # Seed[next_seed].game
      BY <3>1 DEF DashboardInv, DecisionInv
    <3>3. \A c \in Children, g \in Games :
            <<c, g>> \in decided => (<<c, g>> \in allowed' <=> <<c, g>> \in allowed)
      BY <3>1, <3>2 DEF Assigned
    <3> QED
      BY <3>1, <3>3
  <2>3. CASE WriteSeededState
    <3>1. PICK g \in pending : /\ allowed' = allowed
                               /\ household' = [household EXCEPT ![g] = SeededState]
      BY <2>3 DEF WriteSeededState, SetHouseholdState
    <3>2. \A d \in decided : d[2] # g
      BY DEF DashboardInv, DecisionInv
    <3>3. household \in [Games -> HouseholdStates]
      BY DEF DashboardInv, LibraryTypeOK
    <3> QED
      BY <3>1, <3>2, <3>3
  <2>4. CASE PressFamily
    BY <2>4 DEF PressFamily, DashboardInv, ScreenInv, IsChild, Profiles
  <2>5. CASE UNCHANGED vars \/ Looks \/ CardChanges
    BY <2>1, <2>5, LooksChangeNothing DEF vars, libraryVars, CardChanges
  <2>6. CASE Scan \/ PassSeedItem \/ FinishSeed
    BY <2>1, <2>6 DEF Scan, PassSeedItem, FinishSeed
  <2>7. CASE Ends \/ Review \/ Plays
    BY <2>1, <2>7, EndsKeepTheTables DEF Review, Plays, PlayNative
  <2> QED
    BY <2>2, <2>3, <2>4, <2>5, <2>6, <2>7, StepCases DEF Starting, StartupStep
<1>2. DashboardInv /\ [Next]_vars => [Stands]_vars
  BY <1>1
<1> QED
  BY <1>2, DashboardInvariant, PTL DEF Spec, ParentDecisionsStand

\* However a child comes to press A, on a card, a search result or the overview
\* page, what starts is a game of this card that a parent meant for it.
THEOREM ChildrenStartTheirs == Spec => ChildrenStartOnlyTheirs
<1> DEFINE Theirs ==
             \A entry \in entries :
               who \in Children /\ (PlayNative(entry) \/ HandOver(entry))
                 => (/\ <<who, entry.game>> \in allowed
                     /\ ~household[entry.game].hidden
                     /\ entry.native => entry.child_visible
                     /\ IsWhatItSays(entry))
<1>1. ASSUME DashboardInv, NEW entry \in entries, who \in Children,
             PlayNative(entry) \/ HandOver(entry)
      PROVE  /\ <<who, entry.game>> \in allowed
             /\ ~household[entry.game].hidden
             /\ entry.native => entry.child_visible
             /\ IsWhatItSays(entry)
  <2>1. Asked(entry)
    BY <1>1 DEF PlayNative, HandOver
  <2>2. entry.game \in Seen
    BY <1>1, <2>1, LaunchableIsShown, ViewShows DEF Asked, DashboardInv
  <2>3. IsWhatItSays(entry)
    BY <1>1 DEF PlayNative, HandOver, IsWhatItSays, PackageIsPlayable, RomIsPlayable
  <2> QED
    BY <1>1, <2>2, <2>3 DEF Seen, IsChild, DashboardInv, ScanInv
<1>2. DashboardInv /\ [Next]_vars => [Theirs]_vars
  BY <1>1
<1> QED
  BY <1>2, DashboardInvariant, PTL DEF Spec, ChildrenStartOnlyTheirs

=============================================================================
