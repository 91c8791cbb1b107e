--------------------------- MODULE MCGameSurface ---------------------------
(***************************************************************************)
(* Packages of two atlases, the first with mips, two sprites, two          *)
(* animations and a tile set, on a surface of four by three pixels; some   *)
(* of them are invalid.  A side is two to four pixels, an int four bits.   *)
(***************************************************************************)
EXTENDS GameSurface

Atlas(w, mips) == [image |-> "inside", size |-> XY(w, w), mips |-> mips]
Mip(scale, w) == [image |-> "inside", scale |-> scale, size |-> XY(w, w)]
Frame(atlas, x, w) ==
  [atlas |-> atlas, at |-> XY(x, 0), size |-> XY(w, w), pivot |-> XY(1, 0)]
Animation(loop) ==
  [loop |-> loop, frames |-> <<[sprite |-> 1, ticks |-> 2], [sprite |-> 2, ticks |-> 1]>>]

Assets(w, mips, x) ==
  [atlases |-> <<Atlas(w, mips), Atlas(1, <<>>)>>,
   sprites |-> <<Frame(1, x, w), Frame(2, 0, 1)>>,
   animations |-> <<Animation(TRUE), Animation(FALSE)>>,
   tile_sets |-> <<[tile |-> XY(2, 1), sprites |-> <<1, 2>>]>>]

Package(assets_, title) ==
  [schema |-> 1, runtime |-> 1, entrypoint |-> "inside", resolution |-> XY(4, 3),
   title |-> title, artwork |-> [enabled |-> FALSE],
   sounds |-> <<[id |-> "pop", file |-> "inside", wave |-> TRUE, bytes |-> 1]>>,
   audience |-> "family", capabilities |-> <<"events">>,
   has_assets |-> TRUE, assets |-> assets_]

Title(w, h, fit) ==
  [enabled |-> TRUE, image |-> "inside", size |-> XY(w, h), fit |-> fit,
   region |-> Rectangle(0, 0, 4, 1), controls |-> Rectangle(1, 1, 3, 2)]

NoTitle == [enabled |-> FALSE]

MCPackages ==
  { Package(Assets(3, <<Mip(1, 1), Mip(2, 2)>>, 0), Title(4, 2, "cover")),
    Package(Assets(4, <<Mip(1, 1), Mip(2, 3)>>, 0), NoTitle),
    Package(Assets(3, <<Mip(1, 1)>>, 1), NoTitle) }

MCRows == {<<0, 1, 1, 0>>, <<1, 2>>}

MCLimits ==
  [atlases |-> 2, sprites |-> 2, animations |-> 2, frames |-> 2, tile_sets |-> 1, tiles |-> 2]

MCSkips == {-1, 1}

MCPlaces == {XY(1, 1), XY(-1, 0), XY(MaxInt, 0)}

MCShapes == {XY(3, 2), XY(3, 0)}

MCOrigins == {XY(0, 1)}
=============================================================================
