---------------------------- MODULE MCEventPaging -----------------------------
(* An agent that pages through a growing log and a shifting list of claims. *)
EXTENDS ClaimPaging

===============================================================================
