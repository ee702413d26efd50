---------------------------- MODULE OrderLifecycle ----------------------------
(***************************************************************************)
(* What the engine promises about orders, without teams' positions, time,  *)
(* roads, keys or cancellations' costs: order numbers are issued in        *)
(* sequence, each to one team; an issued order travels, works and is       *)
(* closed, never backwards; a team has at most one open order, and only a  *)
(* working order can be replaced by a new one.                             *)
(***************************************************************************)
EXTENDS Integers

CONSTANTS OrderId, Team, NoTeam

VARIABLES stage, team

Open == {"travelling", "working"}

TypeOK ==
  /\ stage \in [OrderId -> Open \cup {"unissued", "closed"}]
  /\ team \in [OrderId -> Team \cup {NoTeam}]

Init ==
  /\ stage = [o \in OrderId |-> "unissued"]
  /\ team = [o \in OrderId |-> NoTeam]

(* A new order for team t replaces the one it works on, if any. *)
Issue(o, t) ==
  /\ stage[o] = "unissued"
  /\ \A p \in OrderId : stage[p] = "unissued" <=> p >= o
  /\ \A p \in OrderId : team[p] = t => stage[p] # "travelling"
  /\ stage' = [p \in OrderId |->
                 IF p = o THEN "travelling"
                 ELSE IF team[p] = t /\ stage[p] = "working" THEN "closed" ELSE stage[p]]
  /\ team' = [team EXCEPT ![o] = t]

(* One clock step may end the travel of several orders at once. *)
Travelling == {o \in OrderId : stage[o] = "travelling"}
Arrive(S) ==
  /\ stage' = [o \in OrderId |-> IF o \in S THEN "working" ELSE stage[o]]
  /\ UNCHANGED team

Cancel(o) ==
  /\ stage[o] \in Open
  /\ stage' = [stage EXCEPT ![o] = "closed"]
  /\ UNCHANGED team

Next ==
  \/ \E o \in OrderId, t \in Team : Issue(o, t)
  \/ \E S \in SUBSET Travelling : Arrive(S)
  \/ \E o \in OrderId : Cancel(o)

Spec == Init /\ [][Next]_<<stage, team>>

(* A team has at most one open order. *)
OneOpenOrder ==
  \A o, p \in OrderId :
    team[o] = team[p] /\ stage[o] \in Open /\ stage[p] \in Open => o = p
===============================================================================
