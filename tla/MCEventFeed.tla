----------------------------- MODULE MCEventFeed ------------------------------
(* One page that watches and one that also commands. *)
EXTENDS EventFeed
===============================================================================
