---------------------------- MODULE GameSurface ----------------------------
(***************************************************************************)
(* What a native game draws: the calls of runtime/src/session.cpp that a   *)
(* script makes while it updates and renders, the command buffer they fill *)
(* and the batches in which draw_frame of runtime/src/main.cpp submits it. *)
(* A script makes any calls with any arguments, and catches a call's error *)
(* or dies of it.  Colours, flips and transparency are left out.           *)
(***************************************************************************)
EXTENDS GamePackage, SequencesExt

CONSTANTS
  Packages,                \* the packages a run may be given
  MaximumDrawCommands,     \* 4096
  MinText,                 \* 8 pixels
  MaxInt,                  \* 2^31 - 1
  Places, Shapes, Radii, Scales, Phases, Origins,  \* arguments of a script
  TileRows, Columns, Skips,  \* of a map: strings of tile indices, from 0
  MaxColumns,              \* 256
  MaxTick                  \* bound of the runs

\* Packages hold what a manifest can, and scripts pass numbers; load_package
\* and the calls decide which of them to accept.
ASSUME SurfaceAssumption ==
  /\ MaximumDrawCommands \in Nat /\ MinText \in Nat /\ MaxInt \in Nat \ {0}
  /\ \A p \in Packages : p.has_assets => AssetsAreRead(p.assets)
  /\ Places \subseteq [Axes -> Int] /\ Shapes \subseteq [Axes -> Int]
  /\ Origins \subseteq [Axes -> Int] /\ Radii \subseteq Int
  /\ Scales \subseteq Nat \ {0} /\ Phases \subseteq Nat
  /\ TileRows \subseteq Seq(Nat) /\ Columns \subseteq Int /\ MaxColumns \in Nat

VARIABLES
  package,
  mode,      \* off, update, render, shown, dead
  tick,
  drawing,   \* the session's command buffer
  shown      \* the batches of the frame just drawn

vars == <<package, mode, tick, drawing, shown>>

Init ==
  /\ package \in Packages /\ mode = "off" /\ tick = 0
  /\ drawing = <<>> /\ shown = <<>>

surface == package.resolution
assets == package.assets

\* The process starts, or load_package refuses its package.
Load ==
  /\ mode = "off"
  /\ mode' = IF LoadPackage(package) THEN "render" ELSE "dead"
  /\ UNCHANGED <<package, tick, drawing, shown>>

-----------------------------------------------------------------------------
\* Calls that submit commands.

Room == MaximumDrawCommands - Len(drawing)

\* Commands of a call that are appended before its first error.
Submit(commands, succeeds) ==
  /\ mode \in {"update", "render"}
  /\ drawing' = drawing \o commands
  /\ mode' \in IF succeeds THEN {mode} ELSE {mode, "dead"}
  /\ UNCHANGED <<package, tick, shown>>

\* Sums of ints wrap, as the build's do.
Wrapped(n) == ((n + MaxInt + 1) % (2 * MaxInt + 2)) - MaxInt - 1

OnSurface(at, size) ==
  \A a \in Axes : at[a] >= 0 /\ size[a] > 0 /\ Wrapped(at[a] + size[a]) <= surface[a]

Boxes(Ok(_, _)) ==
  \E at \in Places, size \in Shapes :
    LET accepted == Ok(at, size) /\ Room > 0
        command == [type |-> "box", at |-> at, size |-> size]
    IN Submit(IF accepted THEN <<command>> ELSE <<>>, accepted)

Rect == Boxes(OnSurface)

\* With a corner radius of one: twice the radius fits the panel.
RoundedRect ==
  Boxes(LAMBDA at, size : OnSurface(at, size) /\ \A a \in Axes : 2 <= size[a])

\* A label is at least MinText high.
Label ==
  Boxes(LAMBDA at, size : OnSurface(at, size) /\ size.y >= MinText)

Circle ==
  \E at \in Places, radius \in Radii :
    LET accepted ==
          /\ Room > 0 /\ radius > 0
          /\ \A a \in Axes : /\ radius <= surface[a] /\ Wrapped(at[a] - radius) >= 0
                             /\ Wrapped(at[a] + radius) < surface[a]
        command == [type |-> "box", at |-> [a \in Axes |-> at[a] - radius],
                    size |-> [a \in Axes |-> 2 * radius + 1]]
    IN Submit(IF accepted THEN <<command>> ELSE <<>>, accepted)

AtLeastOne(n) == IF n < 1 THEN 1 ELSE n

Sprite(s, at, size) ==
  [type |-> "sprite", atlas |-> s.atlas, source |-> [at |-> s.at, size |-> s.size],
   at |-> at, size |-> size]

\* append_sprite: a sprite may hang over the edges.
Placed(i, point, scale) ==
  LET s == assets.sprites[i] IN
  Sprite(s, [a \in Axes |-> point[a] - Round(s.pivot[a] * scale, Unit)],
            [a \in Axes |-> AtLeastOne(Round(s.size[a] * scale, Unit))])

Touches(command) ==
  \A a \in Axes : command.at[a] >= -command.size[a] /\ command.at[a] < surface[a]

\* animate: the frame of an animation at a time.
FrameAt(animation, time) ==
  LET total == TotalTicks(animation)
      position == IF animation.loop THEN time % total
                  ELSE IF time < total THEN time ELSE total - 1
      before == TicksBefore(animation.frames)
      i == CHOOSE n \in DOMAIN animation.frames :
             before[n - 1] <= position /\ position < before[n]
  IN animation.frames[i].sprite

\* sprite, animate and one item of a batch: what they select.
Items ==
  {[sprite |-> i] : i \in DOMAIN assets.sprites} \cup
  {[animation |-> i, phase |-> p] : i \in DOMAIN assets.animations, p \in Phases}

Selected(item) ==
  IF "sprite" \in DOMAIN item THEN item.sprite
  ELSE FrameAt(assets.animations[item.animation], tick + item.phase)

DrawSprite ==
  /\ package.has_assets
  /\ \E item \in Items, at \in Places, scale \in Scales :
       LET command == Placed(Selected(item), at, scale)
           accepted == Touches(command) /\ Room > 0
       IN Submit(IF accepted THEN <<command>> ELSE <<>>, accepted)

\* sprite_batch: its size is checked first, then each item is appended.
SpriteBatch ==
  /\ package.has_assets
  /\ \E item \in Items, i \in DOMAIN assets.sprites, at \in Places, there \in Places :
       LET first == Placed(Selected(item), at, Unit)
           second == Placed(i, there, Unit)
           fits == 2 <= Room
       IN Submit(CASE fits /\ Touches(first) /\ Touches(second) -> <<first, second>>
                   [] fits /\ Touches(first) /\ ~Touches(second) -> <<first>>
                   [] OTHER -> <<>>,
                 fits /\ Touches(first) /\ Touches(second))

\* Mutant: every tile is rounded by itself.
TileRoundedAlone(origin, cell, tile, scale) ==
  LET at == Round(origin + cell * tile * scale, Unit)
  IN <<at, at + Round(tile * scale, Unit)>>

\* The edges of the cell-th tile along an axis, from the map's origin.
TileEdges(origin, cell, tile, scale) ==
  << Round(origin + cell * tile * scale, Unit),
     Round(origin + (cell + 1) * tile * scale, Unit) >>

\* The command for a tile of a tile set, by its index, in a cell of the map.
TileIn(tile_set, index, cell, origin, scale) ==
  LET edges == [a \in Axes |-> TileEdges(origin[a], cell[a], tile_set.tile[a], scale)]
  IN Sprite(assets.sprites[tile_set.sprites[index + 1]],
            [a \in Axes |-> edges[a][1]], [a \in Axes |-> edges[a][2] - edges[a][1]])

\* tilemap: the commands up to the first tile that fails; skip is left out.
Tiles(tile_set, row, columns, origin, scale, skip) ==
  LET step(done, n) ==
        LET known == row[n] < Len(tile_set.sprites)
            cell == XY((n - 1) % columns, (n - 1) \div columns)
            tile == TileIn(tile_set, row[n], cell, origin, scale)
        IN IF ~done.ok \/ (known /\ row[n] = skip) THEN done
           ELSE IF known /\ OnSurface(tile.at, tile.size) /\ Len(done.commands) < Room
                THEN [done EXCEPT !.commands = Append(@, tile)]
                ELSE [done EXCEPT !.ok = FALSE]
  IN FoldLeft(step, [commands |-> <<>>, ok |-> TRUE], [n \in DOMAIN row |-> n])

IsMap(row, columns) ==
  /\ Len(row) \in 1 .. MaximumDrawCommands
  /\ columns \in 1 .. MaxColumns /\ Len(row) % columns = 0

Tilemap ==
  /\ package.has_assets
  /\ \E i \in DOMAIN assets.tile_sets, row \in TileRows, columns \in Columns,
        origin \in Origins, scale \in Scales, skip \in Skips :
       LET drawn == Tiles(assets.tile_sets[i], row, columns, origin, scale, skip)
       IN IF IsMap(row, columns)
          THEN Submit(drawn.commands, drawn.ok)
          ELSE Submit(<<>>, FALSE)

Call ==
  \/ Rect \/ RoundedRect \/ Label \/ Circle
  \/ DrawSprite \/ SpriteBatch \/ Tilemap

-----------------------------------------------------------------------------
\* Frames.

\* step: update returns and the tick is over; what it drew is still queued.
UpdateEnds ==
  /\ mode = "update" /\ mode' = "shown" /\ tick' = tick + 1
  /\ UNCHANGED <<package, drawing, shown>>

Update ==
  /\ mode = "shown" /\ tick < MaxTick /\ mode' = "update" /\ shown' = <<>>
  /\ UNCHANGED <<package, tick, drawing>>

\* render begins with an empty buffer.
Render ==
  /\ mode = "shown" /\ mode' = "render" /\ drawing' = <<>> /\ shown' = <<>>
  /\ UNCHANGED <<package, tick>>

\* The densities of an atlas: its own, then those of its mips.
Scale(atlas, level) == IF level = 0 THEN Unit ELSE atlas.mips[level].scale

\* The density that a command needs, on its more demanding axis, is at most n
\* units: TextureStore::level_for compares, draw_frame takes the larger axis.
Needs(c, n) == \A a \in Axes : c.size[a] * Unit <= n * c.source.size[a]

\* level_for: the mips are in the order of their scales.
LevelFor(c) ==
  LET mips == assets.atlases[c.atlas].mips
      enough == {i \in DOMAIN mips : Needs(c, mips[i].scale)}
  IN IF enough = {} THEN 0 ELSE CHOOSE i \in enough : \A j \in enough : i <= j

Batch(c) ==
  IF c.type = "sprite" THEN [atlas |-> c.atlas, level |-> LevelFor(c), commands |-> <<c>>]
  ELSE [atlas |-> 0, level |-> 0, commands |-> <<c>>]

\* Mutant: a batch ends where the atlas changes, not where the level does.
JoinsOnAtlas(batch, c) == c.type = "sprite" /\ batch.atlas = c.atlas

Joins(batch, c) ==
  c.type = "sprite" /\ batch.atlas = c.atlas /\ batch.level = LevelFor(c)

DrawFrame(commands) ==
  LET add(batches, c) ==
        IF batches # <<>> /\ Joins(Last(batches), c)
        THEN [batches EXCEPT ![Len(batches)].commands = Append(@, c)]
        ELSE Append(batches, Batch(c))
  IN FoldLeft(add, <<>>, commands)

RenderEnds ==
  /\ mode = "render" /\ mode' = "shown"
  /\ shown' = DrawFrame(drawing)
  /\ UNCHANGED <<package, tick, drawing>>

Next == Load \/ Call \/ UpdateEnds \/ Update \/ Render \/ RenderEnds

Spec == Init /\ [][Next]_vars

-----------------------------------------------------------------------------
Running == mode \notin {"off", "dead"}

\* The closest density that does not undersample a command, or the densest.
IsClosest(c, level) ==
  LET atlas == assets.atlases[c.atlas]
      levels == 0 .. Len(atlas.mips)
      scale == Scale(atlas, level)
  IN IF \E l \in levels : Needs(c, Scale(atlas, l))
     THEN Needs(c, scale) /\ \A l \in levels : Needs(c, Scale(atlas, l)) => scale <= Scale(atlas, l)
     ELSE scale = Unit

\* What a frame draws is what the script submitted, once each and in its order
\* (docs/specs/runtime-assets-v1.md:83 "preserving painter order"), and every
\* sprite is drawn from "the closest declared source density that does not
\* undersample the requested draw size" (:91), or from the densest.
FramesAreFaithful ==
  [][RenderEnds =>
       /\ FlattenSeq([i \in DOMAIN shown' |-> shown'[i].commands]) = drawing
       /\ \A i \in DOMAIN shown' : \A j \in DOMAIN shown'[i].commands :
            LET c == shown'[i].commands[j] IN
            c.type = "sprite" =>
              c.atlas = shown'[i].atlas /\ IsClosest(c, shown'[i].level)]_vars

Covers(c, pixel) ==
  \A a \in Axes : c.at[a] <= pixel[a] /\ pixel[a] < c.at[a] + c.size[a]

\* The tiles of a map that one call submits share no pixel, also when some are
\* skipped or one of them fails; and a map that is drawn whole covers, without
\* a gap, the pixels from its rounded origin to its rounded end and no others
\* (docs/specs/runtime-assets-v1.md:59-62 "contiguous without seams or overlap").
TilesFillTheirMap ==
  Running /\ package.has_assets =>
    \A i \in DOMAIN assets.tile_sets, row \in TileRows, columns \in Columns,
       origin \in Origins, scale \in Scales, skip \in Skips :
      IsMap(row, columns) =>
        LET tile == assets.tile_sets[i].tile
            drawn == Tiles(assets.tile_sets[i], row, columns, origin, scale, skip)
            cells == XY(columns, Len(row) \div columns)
            map == [at |-> [a \in Axes |-> Round(origin[a], Unit)],
                    end |-> [a \in Axes |-> Round(origin[a] + cells[a] * tile[a] * scale, Unit)]]
        IN \A x \in 0 .. surface.x - 1, y \in 0 .. surface.y - 1 :
             LET pixel == XY(x, y)
                 here == {n \in DOMAIN drawn.commands : Covers(drawn.commands[n], pixel)}
             IN /\ \A m, n \in here : m = n
                /\ drawn.ok /\ (\A n \in DOMAIN row : row[n] # skip) =>
                     (here # {} <=> \A a \in Axes : map.at[a] <= pixel[a] /\ pixel[a] < map.end[a])

\* An animation shows, at every time and phase, the frame that its film has
\* there: each sprite for as many ticks as it was given, over again if it loops
\* and its last one for ever if it does not.
Film(animation) ==
  FlattenSeq([i \in DOMAIN animation.frames |->
    [t \in 1 .. animation.frames[i].ticks |-> animation.frames[i].sprite]])

AnimationFollowsTime ==
  Running /\ package.has_assets =>
    \A i \in DOMAIN assets.animations, phase \in Phases :
      LET animation == assets.animations[i]
          film == Film(animation)
          time == tick + phase
      IN FrameAt(animation, time) =
           IF animation.loop THEN film[(time % Len(film)) + 1]
           ELSE IF time < Len(film) THEN film[time + 1] ELSE film[Len(film)]

\* The edges of a box are ints.
IsHeld(c) ==
  \A a \in Axes : c.at[a] >= -MaxInt - 1 /\ c.at[a] + c.size[a] <= MaxInt

\* A frame never outgrows its limit, also not by a call that fails half way or
\* by an update that draws; a sprite is cut from inside its atlas; and a box
\* whose edges an int can hold lies on the surface.
NothingOutside ==
  /\ Len(drawing) <= MaximumDrawCommands
  /\ \A i \in DOMAIN drawing : LET c == drawing[i] IN
       IF c.type = "sprite"
       THEN Inside(c.source, assets.atlases[c.atlas].size) /\ Visible(c)
       ELSE IsHeld(c) => Inside(c, surface)

\* docs/specs/runtime-package-v1.md:81: rect "Submits an in-bounds rectangle on
\* the logical surface".  The right edge is a sum of two ints.
BoxesAreInBounds ==
  \A i \in DOMAIN drawing : drawing[i].type = "box" => Inside(drawing[i], surface)

\* docs/specs/runtime-assets-v1.md:91-93: "Source UVs are adjusted to the selected
\* mip"; a mip's size is rounded, so that the adjusted corner may lie outside it.
SamplesStayInside ==
  \A i \in DOMAIN shown : \A j \in DOMAIN shown[i].commands :
    LET c == shown[i].commands[j]
        level == shown[i].level
        mip == assets.atlases[c.atlas].mips[level]
    IN c.type = "sprite" /\ level > 0 =>
         \A a \in Axes :
           (c.source.at[a] + c.source.size[a]) * mip.scale <= Unit * mip.size[a]

=============================================================================
