---------------------------- MODULE GamePackage ----------------------------
(***************************************************************************)
(* What the native game runtime accepts as a package: load_package of      *)
(* runtime/src/package.cpp and load_assets of assets.cpp, which refuse a   *)
(* package whole, and the placing of the title image on the surface.       *)
(* JSON, texts and paths are abstracted: a file is "inside" the package,   *)
(* or not what the loader asks for; an asset is named by its position.     *)
(* Points and sizes are functions of the two axes, scales are in Units.    *)
(***************************************************************************)
EXTENDS Integers, Sequences, FiniteSets

CONSTANTS
  MinSide, MaxSide,        \* 64 and 4096 pixels
  Canvas,                  \* 1000: title regions are in thousandths
  MaxSounds, MaxSoundBytes,  \* 64 and 512 KiB
  MaxMips, MaxFrameTicks, MaxDuration, MaxTile,  \* 8, 3600, 65535, 256
  Limits,                  \* the most entries that each list of assets may have
  Unit                     \* a scale of 1 is this many units

Axes == {"x", "y"}

ASSUME PackageAssumption ==
  /\ MinSide \in Nat \ {0} /\ MaxSide \in Nat /\ MinSide <= MaxSide
  /\ MinSide * MinSide >= MaxSide
  /\ Canvas \in Nat \ {0} /\ Unit \in Nat \ {0}
  /\ {MaxSounds, MaxSoundBytes, MaxMips, MaxFrameTicks, MaxDuration, MaxTile} \subseteq Nat

\* is_within: the canonical path of a file of the right kind is below the root.
Contained(file) == file = "inside"

\* lround(n / d): halves away from zero.
Round(n, d) == IF n >= 0 THEN (2 * n + d) \div (2 * d)
                         ELSE -((d - 2 * n) \div (2 * d))

-----------------------------------------------------------------------------
\* load_assets

IsSequence(s) == DOMAIN s = 1 .. Len(s) /\ s \in Seq({s[i] : i \in DOMAIN s})

\* What the readers of the manifest hand over: arrays, and pairs, rectangles and
\* scales of numbers that are not negative.
AssetsAreRead(assets) ==
  /\ IsSequence(assets.atlases) /\ IsSequence(assets.sprites)
  /\ IsSequence(assets.animations) /\ IsSequence(assets.tile_sets)
  /\ \A i \in DOMAIN assets.atlases : LET mips == assets.atlases[i].mips IN
       IsSequence(mips) /\ \A j \in DOMAIN mips : mips[j].scale \in Nat
  /\ \A i \in DOMAIN assets.sprites : LET s == assets.sprites[i] IN
       s.at \in [Axes -> Nat] /\ s.size \in [Axes -> Nat] /\ s.pivot \in [Axes -> Nat]
  /\ \A i \in DOMAIN assets.animations : IsSequence(assets.animations[i].frames)
  /\ \A i \in DOMAIN assets.tile_sets : IsSequence(assets.tile_sets[i].sprites)

MipsAreValid(atlas) ==
  LET mips == atlas.mips IN
  /\ Len(mips) <= MaxMips
  /\ \A i \in DOMAIN mips :
       /\ Contained(mips[i].image)
       /\ mips[i].scale > (IF i = 1 THEN 0 ELSE mips[i - 1].scale)
       /\ mips[i].scale < Unit
       /\ \A a \in Axes : mips[i].size[a] = Round(atlas.size[a] * mips[i].scale, Unit)

AtlasIsValid(atlas) ==
  /\ Contained(atlas.image)
  /\ \A a \in Axes : atlas.size[a] \in 1 .. MaxSide
  /\ MipsAreValid(atlas)

\* Mutant: a sprite may begin anywhere in its atlas.
SpriteBeginsInside(sprite, atlases) ==
  /\ sprite.atlas \in DOMAIN atlases
  /\ \A a \in Axes :
       /\ sprite.size[a] > 0 /\ sprite.pivot[a] <= sprite.size[a]
       /\ sprite.at[a] < atlases[sprite.atlas].size[a]

SpriteIsValid(sprite, atlases) ==
  /\ sprite.atlas \in DOMAIN atlases
  /\ \A a \in Axes :
       /\ sprite.size[a] > 0 /\ sprite.pivot[a] <= sprite.size[a]
       /\ sprite.at[a] + sprite.size[a] <= atlases[sprite.atlas].size[a]

\* The ticks of the first n frames of an animation.
TicksBefore(frames) ==
  LET upto[n \in 0 .. Len(frames)] == IF n = 0 THEN 0 ELSE upto[n - 1] + frames[n].ticks
  IN upto

TotalTicks(animation) == TicksBefore(animation.frames)[Len(animation.frames)]

AnimationIsValid(animation, sprites) ==
  /\ animation.frames # <<>> /\ Len(animation.frames) <= Limits.frames
  /\ \A i \in DOMAIN animation.frames :
       /\ animation.frames[i].sprite \in DOMAIN sprites
       /\ animation.frames[i].ticks \in 1 .. MaxFrameTicks
  /\ TotalTicks(animation) <= MaxDuration

TileSetIsValid(tile_set, sprites) ==
  /\ \A a \in Axes : tile_set.tile[a] \in 1 .. MaxTile
  /\ tile_set.sprites # <<>> /\ Len(tile_set.sprites) <= Limits.tiles
  /\ \A i \in DOMAIN tile_set.sprites : tile_set.sprites[i] \in DOMAIN sprites

AssetsAreValid(assets) ==
  /\ assets.atlases # <<>> /\ Len(assets.atlases) <= Limits.atlases
  /\ assets.sprites # <<>> /\ Len(assets.sprites) <= Limits.sprites
  /\ Len(assets.animations) <= Limits.animations
  /\ Len(assets.tile_sets) <= Limits.tile_sets
  /\ \A i \in DOMAIN assets.atlases : AtlasIsValid(assets.atlases[i])
  /\ \A i \in DOMAIN assets.sprites : SpriteIsValid(assets.sprites[i], assets.atlases)
  /\ \A i \in DOMAIN assets.animations :
       AnimationIsValid(assets.animations[i], assets.sprites)
  /\ \A i \in DOMAIN assets.tile_sets : TileSetIsValid(assets.tile_sets[i], assets.sprites)

-----------------------------------------------------------------------------
\* load_package

Distinct(s) == \A i, j \in DOMAIN s : s[i] = s[j] => i = j

Dimensions(size) == \A a \in Axes : size[a] \in MinSide .. MaxSide

RegionIsValid(region) ==
  \A a \in Axes : /\ region.at[a] \in 0 .. Canvas /\ region.size[a] \in 1 .. Canvas
                  /\ region.at[a] + region.size[a] <= Canvas

ArtIsValid(art) ==
  art.enabled => Contained(art.image) /\ art.fit \in {"cover", "contain"} /\ Dimensions(art.size)

SoundsAreValid(sounds) ==
  /\ Len(sounds) <= MaxSounds
  /\ Distinct([i \in DOMAIN sounds |-> sounds[i].id])
  /\ \A i \in DOMAIN sounds :
       Contained(sounds[i].file) /\ sounds[i].wave /\ sounds[i].bytes <= MaxSoundBytes

CapabilitiesAreValid(capabilities) ==
  /\ \A i \in DOMAIN capabilities : capabilities[i] \in {"events", "local-storage"}
  /\ Distinct(capabilities)

\* A package is refused for any part of it that the loader does not accept.
LoadPackage(p) ==
  /\ p.schema = 1 /\ p.runtime = 1
  /\ Contained(p.entrypoint)
  /\ Dimensions(p.resolution)
  /\ ArtIsValid(p.title)
  /\ p.title.enabled => RegionIsValid(p.title.region) /\ RegionIsValid(p.title.controls)
  /\ ArtIsValid(p.artwork)
  /\ SoundsAreValid(p.sounds)
  /\ p.audience \in {"family", "parent"}
  /\ CapabilitiesAreValid(p.capabilities)
  /\ p.has_assets => AssetsAreValid(p.assets)

-----------------------------------------------------------------------------
\* draw_title_screen

XY(x, y) == [a \in Axes |-> IF a = "x" THEN x ELSE y]

Rectangle(x, y, w, h) == [at |-> XY(x, y), size |-> XY(w, h)]

\* cover: the part of the image of size image that fills surface.
Cover(image, surface) ==
  LET w == (image.y * surface.x) \div surface.y
      h == (image.x * surface.y) \div surface.x
  IN CASE image.x * surface.y > surface.x * image.y ->
            Rectangle((image.x - w) \div 2, 0, w, image.y)
       [] image.x * surface.y < surface.x * image.y ->
            Rectangle(0, (image.y - h) \div 2, image.x, h)
       [] OTHER -> Rectangle(0, 0, image.x, image.y)

\* contain: the part of the surface that shows the whole image.
Contain(image, surface) ==
  LET wide == surface.x * image.y <= surface.y * image.x
      w == IF wide THEN surface.x ELSE (image.x * surface.y) \div image.y
      h == IF wide THEN (image.y * surface.x) \div image.x ELSE surface.y
  IN Rectangle((surface.x - w) \div 2, (surface.y - h) \div 2, w, h)

Source(title, surface) ==
  IF title.fit = "cover" THEN Cover(title.size, surface)
  ELSE Rectangle(0, 0, title.size.x, title.size.y)

Destination(title, surface) ==
  IF title.fit = "cover" THEN Rectangle(0, 0, surface.x, surface.y)
  ELSE Contain(title.size, surface)

\* logical_region
LogicalRegion(region, surface) ==
  [at |-> [a \in Axes |-> (region.at[a] * surface[a]) \div Canvas],
   size |-> [a \in Axes |-> (region.size[a] * surface[a]) \div Canvas]]

Inside(rectangle, size) ==
  \A a \in Axes : /\ rectangle.at[a] >= 0
                  /\ rectangle.at[a] + rectangle.size[a] <= size[a]

Visible(rectangle) == \A a \in Axes : rectangle.size[a] > 0

\* A title screen that was accepted shows a part of its image, all of which is
\* image, on a part of the surface, all of which is surface, and its controls lie
\* on the surface.  It rests on the smallest and the largest side accepted: the
\* thinnest crop of a 64-pixel image for a 4096-pixel surface is one pixel wide.
TitleFits(p) ==
  p.title.enabled =>
    /\ Inside(Source(p.title, p.resolution), p.title.size)
    /\ Visible(Source(p.title, p.resolution))
    /\ Inside(Destination(p.title, p.resolution), p.resolution)
    /\ Visible(Destination(p.title, p.resolution))
    /\ Inside(LogicalRegion(p.title.controls, p.resolution), p.resolution)

=============================================================================
