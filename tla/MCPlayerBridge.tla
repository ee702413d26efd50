---------------------------- MODULE MCPlayerBridge ----------------------------
(* Four observations of two claims; three of them can be corrupted, one of *)
(* those without becoming false.                                           *)
EXTENDS PlayerBridge, TLC

CONSTANTS fire1, fire2, fire3, flood1, fire, flood

MCClaimOf == fire1 :> fire @@ fire2 :> fire @@ fire3 :> fire @@ flood1 :> flood
Original == [text |-> "original", false |-> FALSE]
Wrong    == [text |-> "exaggerated", false |-> TRUE]
Vague    == [text |-> "vague", false |-> FALSE]
MCVariants ==
  fire1 :> {Original, Wrong} @@ fire2 :> {Original, Wrong, Vague}
    @@ fire3 :> {Original} @@ flood1 :> {Original, Wrong}
===============================================================================
