---------------------------- MODULE MCOnionRuntime ----------------------------
(* One device, every startup application Onion offers. *)
EXTENDS OnionRuntime

==============================================================================
