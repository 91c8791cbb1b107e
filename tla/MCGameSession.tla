--------------------------- MODULE MCGameSession ---------------------------
(***************************************************************************)
(* Ticks of two time units, two of them caught up in a frame; two sessions *)
(* of a game that stores under two keys, of which a start can load one.    *)
(***************************************************************************)
EXTENDS GameSession
=============================================================================
