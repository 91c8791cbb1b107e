--------------------------- MODULE MCParentAccess ---------------------------
(***************************************************************************)
(* A parent and a child, two PINs, and three days of two instants: enough  *)
(* for a clock that moves back within a day and across midnight.           *)
(***************************************************************************)
EXTENDS ParentAccess, TLC

MCDateOf == [t \in 0..MaxUtc |-> t \div 2]
PinSymmetry == Permutations(Pins)

=============================================================================
