-------------------------- MODULE MCSupervisorLock --------------------------
(***************************************************************************)
(* Three wrappers, the third of which may find what the race of two others *)
(* over a dead owner's lock has left; they arrive in any order.            *)
(***************************************************************************)
EXTENDS SupervisorLock
=============================================================================
