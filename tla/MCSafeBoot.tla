----------------------------- MODULE MCSafeBoot -----------------------------
(***************************************************************************)
(* One launcher, three setup steps, and as many faults as it takes to fail *)
(* three times, open recovery and fail there too.                          *)
(***************************************************************************)
EXTENDS SafeBoot

=============================================================================
