------------------------- MODULE MCProfileTransfer -------------------------
(***************************************************************************)
(* A parent, a child and five archives of a guest: with a portrait,        *)
(* without one, one that wants the namespace of the child, one without an  *)
(* allowance and one whose checksum is not its payload's.                  *)
(***************************************************************************)
EXTENDS ProfileTransfer

Marked(v) == [s \in Settings |-> s = "last_accessed" /\ v]
MCProfile(ns, portrait, a) ==
  [id |-> "guest", role |-> "child", ns |-> ns, look |-> Marked(TRUE),
   portrait |-> portrait, allowance |-> a]
Sound(p) == [payload |-> p, sum |-> p]

MCCard ==
  [child |-> Sound(MCProfile("guest", TRUE, 1)),
   plain |-> Sound(MCProfile("guest", FALSE, 1)),
   taken |-> Sound(MCProfile("child", FALSE, 1)),
   hollow |-> Sound(MCProfile("guest", TRUE, 0)),
   damaged |-> [payload |-> MCProfile("guest", FALSE, 1),
                sum |-> MCProfile("guest", TRUE, 1)]]

MCMaxRevision == [parent |-> 3, child |-> 2, guest |-> 2]

MCStaged == {[w |-> 4, h |-> 3, tag |-> 6], [w |-> 0, h |-> 3, tag |-> 9]}

=============================================================================
