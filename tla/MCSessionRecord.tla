---------------------------- MODULE MCSessionRecord ----------------------------
(* Three ticks and a scout that may verify and may fight a fire, in two    *)
(* districts a tick apart.  The fire starts at tick 1 and gives three      *)
(* reports of one claim: a true one at once, one a tick later that the     *)
(* first seed makes false and the second loses, and one at once that the   *)
(* first seed exaggerates, which does not make it false.                   *)
EXTENDS SessionRecord

CONSTANTS scout, north, south, fire, early, late, rumour, claim, k1, k2, extra

MCReport == {early, late, rumour}
AsMade  == [wrong |-> FALSE, lost |-> FALSE]
Altered == [wrong |-> TRUE, lost |-> FALSE]
Missing == [wrong |-> FALSE, lost |-> TRUE]

MCScenario ==
  [id |-> "city", totalTicks |-> 3, teams |-> <<scout>>,
   districts |-> {north, south}, home |-> (scout :> north),
   tasks |-> (scout :> {"verify", "hazard_control"}),
   incidents |-> <<fire>>, startTick |-> (fire :> 1), work |-> (fire :> 1),
   place |-> (fire :> south),
   reports |-> <<early, late, rumour>>, about |-> [o \in MCReport |-> fire],
   content |-> [o \in MCReport |-> "original"],
   corruption |-> [o \in MCReport |-> [text |-> "other", false |-> o = late]],
   offset |-> [o \in MCReport |-> 0], delay |-> [o \in MCReport |-> IF o = late THEN 1 ELSE 0],
   travel |-> 1, claimOf |-> [o \in MCReport |-> claim],
   draws |-> << <<AsMade, Altered, Altered>>, <<AsMade, Missing, AsMade>> >>]

Fight  == [name |-> "DISPATCH_TEAM",
           params |-> [team |-> scout, target |-> south, task |-> "hazard_control"]]
Check  == [name |-> "REQUEST_VERIFICATION", params |-> [team |-> scout, claim |-> claim, more |-> Nothing]]
Noted  == [name |-> "REQUEST_VERIFICATION",
           params |-> [team |-> scout, claim |-> claim, more |-> extra]]
Recall == [name |-> "CANCEL_ORDER", params |-> [order |-> 1]]
MCRequests == {Fight, Check, Noted, Recall}
\* Keys are only compared for equality.
Symmetry == Permutations(Keys)
===============================================================================
