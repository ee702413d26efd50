----------------------------- MODULE ClaimPaging ------------------------------
(***************************************************************************)
(* An agent reads the claims of a session page by page through list_claims *)
(* (packages/mcp-server/src/tools.ts), by offset into the list the player  *)
(* projection keeps (packages/epistemics/src/project.ts).  The projection  *)
(* puts an updated claim at the end of the list, so what is read shifts    *)
(* while the agent pages; so does a filter by status.                      *)
(*                                                                         *)
(* A claim is its id and whether the filter lets it through.  Each change  *)
(* of the list is an event of the log that get_events pages through.       *)
(***************************************************************************)
EXTENDS EventPaging, SequencesExt

CONSTANTS
  Claim,
  ClaimLimits  \* the limits the agent asks for

ASSUME ClaimAssumption == ClaimLimits \subseteq Nat \ {0}

VARIABLES
  claims,     \* PlayerSessionState.claims: [id, fits]
  offset,     \* of the agent's next call
  more,       \* the last reply's flag `truncated`
  seen,       \* history: the claims shown since the offset was 0
  disturbed   \* history: how often a part already paged over changed since

claimVars == <<claims, offset, more, seen, disturbed>>
pagingVars == <<vars, claimVars>>

ListedClaim == [id : Claim, fits : BOOLEAN]

(* filter, as a fold, whose definition the proofs can use. *)
Kept(list, S) == FoldLeft(LAMBDA kept, c : IF c \in S THEN Append(kept, c) ELSE kept, <<>>, list)

Fitting(list) == Kept(list, {c \in ListedClaim : c.fits})
IdsOf(list) == {c.id : c \in ToSet(list)}
From(list, n) == SubSeq(list, n + 1, Len(list))

(* The part of the filtered list that the agent has behind it. *)
Behind(list) == SubSeq(Fitting(list), 1, Min({offset, Len(Fitting(list))}))

----------------------------------------------------------------------------
(* applyPlayerEvent *)
Updated(claim) == Append(Kept(claims, {c \in ListedClaim : c.id # claim.id}), claim)
Resolved(claim) == [i \in DOMAIN claims |-> IF claims[i].id = claim.id THEN claim ELSE claims[i]]

(* An event about a claim: its evidence updates it, a verification answers *)
(* in place, which changes nothing for a claim the list does not hold.     *)
ClaimChanges(list) ==
  /\ log < MaxEvents /\ log' = log + 1
  /\ claims' = list
  /\ disturbed' = disturbed + IF Behind(list) = Behind(claims) THEN 0 ELSE 1
  /\ UNCHANGED <<after, read, offset, more, seen>>

ClaimEvent ==
  \E claim \in ListedClaim : ClaimChanges(Updated(claim)) \/ ClaimChanges(Resolved(claim))

\* Faulty: the page is cut before the filter is applied.
PageCutFirst == Fitting(From(claims, offset))

Page == From(Fitting(claims), offset)

(* list_claims, and the agent going on to where the page ended. *)
ListClaims(limit) ==
  /\ more
  /\ LET items == SubSeq(Page, 1, Min({Capped(limit), Len(Page)}))
     IN  /\ more' = (Len(Page) > Capped(limit))
         /\ seen' = seen \cup IdsOf(items)
         /\ offset' = offset + Len(items)
  /\ UNCHANGED <<claims, disturbed, vars>>

StartOver ==
  /\ ~more
  /\ offset' = 0 /\ more' = TRUE /\ seen' = {} /\ disturbed' = 0
  /\ UNCHANGED <<claims, vars>>

PagingInit ==
  /\ Init
  /\ claims = <<>> /\ offset = 0 /\ more = TRUE /\ seen = {} /\ disturbed = 0

PagingNext ==
  \/ Next /\ UNCHANGED claimVars
  \/ ClaimEvent
  \/ \E limit \in ClaimLimits : ListClaims(limit)
  \/ StartOver

PagingSpec ==
  /\ PagingInit /\ [][PagingNext]_pagingVars
  /\ WF_pagingVars(\E limit \in Limits : GetEvents(limit) /\ UNCHANGED claimVars)

----------------------------------------------------------------------------
(* Paging through the claims misses no more of them than there were        *)
(* changes to the part already paged over: a listing that nothing disturbs *)
(* is complete, and each claim that moves away from under it hides at most *)
(* one (slice(offset) against the projection's remove and append).         *)
ClaimsMissedOnlyByChange == Cardinality(IdsOf(Behind(claims)) \ seen) <= disturbed

----------------------------------------------------------------------------
(* Why: the projection holds a claim once, so a change moves one claim and *)
(* at most one other gets behind the agent by it.                          *)
OncePerClaim == \A i, j \in DOMAIN claims : claims[i].id = claims[j].id => i = j

PagingInv ==
  /\ claims \in Seq(ListedClaim)
  /\ offset \in Nat /\ disturbed \in Nat
  /\ OncePerClaim
  /\ ClaimsMissedOnlyByChange
===============================================================================
