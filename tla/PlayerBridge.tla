----------------------------- MODULE PlayerBridge -----------------------------
(***************************************************************************)
(* The bridge from truth to players (packages/epistemics/src/bridge.ts,    *)
(* claims.ts): it hears of every observation when the engine creates it,   *)
(* shows it to players only when it is delivered, gathers delivered        *)
(* evidence into claims, and answers verifications from what it knows.     *)
(*                                                                         *)
(* handleTruth treats one truth event at a time and resolveVerification is *)
(* one call of the server: one action each.                                *)
(***************************************************************************)
EXTENDS Integers, FiniteSets, Sequences

CONSTANTS
  Obs,       \* observations of the scenario
  Claim,     \* claim ids: claimIdFor of incident, category and district
  ClaimOf,   \* [Obs -> Claim]
  Variants,  \* [Obs -> SUBSET [text, false]]: the original and its corruptions
  Unseen,    \* an observation the engine has not created
  NoClaim    \* a claim without evidence: not in the bridge's map

ASSUME ClaimAssumption ==
  /\ ClaimOf \in [Obs -> Claim]
  /\ \A o \in Obs : Unseen \notin Variants[o]
  /\ \A o \in Obs : \A v \in Variants[o] : v.false \in BOOLEAN

VARIABLES
  pending,   \* pending: [Obs -> the variant the engine created]; never shrinks
  claims,    \* claims: [Claim -> value, status, evidenceIds]
  delivered  \* history: the observations delivered, in order

bridgeVars == <<pending, claims, delivered>>

Verdict == {"verified", "refuted"}
ClaimStatus == {"reported", "corroborated", "contested"} \cup Verdict

Variant == UNION {Variants[o] : o \in Obs}
ClaimRecord ==
  [value : {v.text : v \in Variant}, status : ClaimStatus, evidence : SUBSET Obs]

ASSUME NoClaimAssumption == NoClaim \notin ClaimRecord

(* Evidence is filed under the claim of its observation. *)
Filed(c) == claims[c].evidence \subseteq {o \in Obs : ClaimOf[o] = c}

BridgeTypeOK ==
  /\ pending \in [Obs -> Variant \cup {Unseen}]
  /\ \A o \in Obs : pending[o] \in Variants[o] \cup {Unseen}
  /\ claims \in [Claim -> ClaimRecord \cup {NoClaim}]
  /\ \A c \in Claim : claims[c] # NoClaim => Filed(c)
  /\ delivered \in Seq(Obs)

BridgeInit ==
  /\ pending = [o \in Obs |-> Unseen]
  /\ claims = [c \in Claim |-> NoClaim]
  /\ delivered = <<>>

----------------------------------------------------------------------------
\* Faulty: new evidence reopens a verdict.
EvidenceStatusReopens(claim, text, count) ==
  IF claim.value # text THEN "contested"
  ELSE IF count >= 2 /\ claim.status = "reported" THEN "corroborated"
  ELSE claim.status

\* Faulty: agreement with the last report settles a contested claim.
EvidenceStatusSettles(claim, text, count) ==
  IF claim.status \in Verdict THEN claim.status
  ELSE IF claim.value # text THEN "contested"
  ELSE IF count >= 2 THEN "corroborated"
  ELSE claim.status

(* The status after one more piece of evidence.  A verdict stays; any      *)
(* disagreement with the last value contests; agreement with a lone report *)
(* corroborates.  ("stale" has no producer: nothing calls markClaimStale.) *)
EvidenceStatus(claim, text, count) ==
  IF claim.status \in Verdict THEN claim.status
  ELSE IF claim.value # text THEN "contested"
  ELSE IF count >= 2 /\ claim.status = "reported" THEN "corroborated"
  ELSE claim.status

(* upsertClaimFromEvidence: the claim's value is always the last text. *)
Upsert(claim, o, text) ==
  IF claim = NoClaim
  THEN [value |-> text, status |-> "reported", evidence |-> {o}]
  ELSE LET evidence == claim.evidence \cup {o}
       IN  [value    |-> text,
            status   |-> EvidenceStatus(claim, text, Cardinality(evidence)),
            evidence |-> evidence]

WithDelivered(cs, o, known) ==
  [cs EXCEPT ![ClaimOf[o]] = Upsert(@, o, known[o].text)]

(* What the bridge knows of a claim: every observation CREATED for it,     *)
(* delivered, delayed or lost.                                             *)
Related(c, known) == {o \in Obs : ClaimOf[o] = c /\ known[o] # Unseen}

\* Faulty: the filter on the claim is missing.
OutcomeOfAnything(c, cs, known) ==
  IF cs[c] = NoClaim \/ Related(c, known) = {} THEN "inconclusive"
  ELSE IF \E o \in Obs : known[o] # Unseen /\ known[o].false THEN "refuted" ELSE "verified"

(* resolveVerification's outcome. *)
Outcome(c, cs, known) ==
  IF cs[c] = NoClaim \/ Related(c, known) = {} THEN "inconclusive"
  ELSE IF \E o \in Related(c, known) : known[o].false THEN "refuted" ELSE "verified"

WithOutcome(cs, c, known) ==
  IF Outcome(c, cs, known) = "inconclusive" THEN cs
  ELSE [cs EXCEPT ![c].status = Outcome(c, cs, known)]

----------------------------------------------------------------------------
(* ObservationCreated, with ObservationCorrupted for another variant than  *)
(* the original.                                                           *)
ObservationCreated(o, v) ==
  /\ pending[o] = Unseen
  /\ pending' = [pending EXCEPT ![o] = v]
  /\ UNCHANGED <<claims, delivered>>

(* ObservationDelivered: the engine delivers an observation once; a lost   *)
(* one never.                                                              *)
ObservationDelivered(o) ==
  /\ pending[o] # Unseen
  /\ \A i \in DOMAIN delivered : delivered[i] # o
  /\ UNCHANGED pending
  /\ claims' = WithDelivered(claims, o, pending)
  /\ delivered' = Append(delivered, o)

ResolveVerification(c) ==
  /\ claims' = WithOutcome(claims, c, pending)
  /\ UNCHANGED <<pending, delivered>>

BridgeNext ==
  \/ \E o \in Obs : \E v \in Variants[o] : ObservationCreated(o, v)
  \/ \E o \in Obs : ObservationDelivered(o)
  \/ \E c \in Claim : ResolveVerification(c)

BridgeSpec == BridgeInit /\ [][BridgeNext]_bridgeVars

----------------------------------------------------------------------------
(* A claim without a verdict reads "reported" with one piece of evidence,  *)
(* "corroborated" when all agree and "contested" when any disagree,        *)
(* whatever the order of delivery (upsertClaimFromEvidence only compares   *)
(* with the last value).                                                   *)
Agree(S) == \A o, p \in S : pending[o].text = pending[p].text
Reflects(c) ==
  claims[c].status = IF ~Agree(claims[c].evidence) THEN "contested"
                     ELSE IF Cardinality(claims[c].evidence) > 1 THEN "corroborated"
                     ELSE "reported"
StatusReflectsEvidence ==
  \A c \in Claim : claims[c] # NoClaim /\ claims[c].status \notin Verdict => Reflects(c)

(* A refuted claim has a false observation behind it, for good; a claim    *)
(* with no false observation is never refuted, and a claim whose first     *)
(* evidence is missing has no verdict (resolveVerification).               *)
RefutedForCause ==
  \A c \in Claim : claims[c] # NoClaim /\ claims[c].status = "refuted" =>
    \E o \in Related(c, pending) : pending[o].false

(* New evidence, however it disagrees, never changes a verdict: only a     *)
(* later verification may, and then only from verified to refuted.         *)
VerdictStands ==
  [][\A c \in Claim : claims[c] # NoClaim /\ claims[c].status \in Verdict =>
       \/ claims'[c].status = claims[c].status
       \/ /\ claims[c].status = "verified" /\ claims'[c].status = "refuted"
          /\ UNCHANGED <<pending, delivered>>]_bridgeVars

----------------------------------------------------------------------------
(***************************************************************************)
(* The bridge's inductive invariant (SessionHub_proofs).                   *)
(***************************************************************************)

(* The evidence of a claim was delivered, and its value is a text of it.   *)
Shown(o) == pending[o] # Unseen /\ \E i \in DOMAIN delivered : delivered[i] = o
Grounded(c) ==
  /\ IsFiniteSet(claims[c].evidence)
  /\ claims[c].evidence # {}
  /\ \A o \in claims[c].evidence : Shown(o)
  /\ \E o \in claims[c].evidence : claims[c].value = pending[o].text
ClaimsGrounded == \A c \in Claim : claims[c] # NoClaim => Grounded(c)

BridgeInv ==
  /\ BridgeTypeOK
  /\ ClaimsGrounded
  /\ StatusReflectsEvidence
  /\ RefutedForCause
===============================================================================
