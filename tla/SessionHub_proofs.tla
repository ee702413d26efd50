-------------------------- MODULE SessionHub_proofs --------------------------
(***************************************************************************)
(* Proofs about a session as the server runs it: the bridge keeps claims   *)
(* true to their evidence for every order of delivery, verifications are   *)
(* answered for their own orders, and the players' view, rebuilt from the  *)
(* pushed events alone, shows the engine's and the bridge's state.         *)
(***************************************************************************)
EXTENDS SessionHub, TeamOrders_proofs

----------------------------------------------------------------------------
(***************************************************************************)
(* The bridge by itself.                                                   *)
(***************************************************************************)

\* A new session's bridge satisfies the invariant.
LEMMA BridgeInitInvariant == BridgeInit => BridgeInv
<1> SUFFICES ASSUME BridgeInit PROVE BridgeInv
  OBVIOUS
<1>1. BridgeTypeOK
  BY DEF BridgeInit, BridgeTypeOK
<1>2. ClaimsGrounded /\ StatusReflectsEvidence /\ RefutedForCause
  BY DEF BridgeInit, ClaimsGrounded, StatusReflectsEvidence, RefutedForCause
<1> QED
  BY <1>1, <1>2 DEF BridgeInv

(* A new observation shows up in no claim. *)
LEMMA CreatedInvariant ==
  ASSUME BridgeInv, NEW o \in Obs, NEW v \in Variants[o], ObservationCreated(o, v)
  PROVE  BridgeInv'
<1> USE DEF ObservationCreated, BridgeInv
<1>1. \A p \in Obs : pending[p] # Unseen => pending'[p] = pending[p]
  BY DEF BridgeTypeOK
<1>2. BridgeTypeOK'
  BY ClaimAssumption DEF BridgeTypeOK, Variant, Filed
<1>3. ASSUME NEW c \in Claim, claims[c] # NoClaim
      PROVE  Grounded(c)' /\ (Reflects(c) => Reflects(c)')
  <2>1. claims[c] \in ClaimRecord /\ Grounded(c)
    BY <1>3 DEF BridgeTypeOK, ClaimsGrounded
  <2>2. \A p \in claims[c].evidence : p \in Obs /\ pending[p] # Unseen
    BY <2>1 DEF ClaimRecord, Grounded, Shown
  <2>3. \A p \in claims[c].evidence : pending'[p] = pending[p]
    BY <2>2, <1>1
  <2>4. Grounded(c)'
    BY <2>1, <2>2, <2>3 DEF Grounded, Shown
  <2>5. Agree(claims[c].evidence)' <=> Agree(claims[c].evidence)
    BY <2>3 DEF Agree
  <2> QED
    BY <2>4, <2>5 DEF Reflects
<1>4. ClaimsGrounded' /\ StatusReflectsEvidence'
  BY <1>3 DEF ClaimsGrounded, StatusReflectsEvidence
<1>5. RefutedForCause'
  BY <1>1 DEF RefutedForCause, Related
<1> QED
  BY <1>2, <1>4, <1>5

(* One more piece of evidence for a claim that has some. *)
LEMMA EvidenceAdded ==
  ASSUME BridgeInv, NEW c \in Claim, claims[c] # NoClaim, NEW o \in Obs, ClaimOf[o] = c,
         pending[o] \in Variants[o], o \notin claims[c].evidence,
         NEW new, new = Upsert(claims[c], o, pending[o].text)
  PROVE  /\ new \in ClaimRecord
         /\ new.evidence = claims[c].evidence \cup {o}
         /\ IsFiniteSet(new.evidence)
         /\ new.value = pending[o].text
         /\ claims[c].status \in Verdict => new.status = claims[c].status
         /\ new.status \notin Verdict =>
              new.status = IF ~Agree(new.evidence) THEN "contested"
                           ELSE IF Cardinality(new.evidence) > 1 THEN "corroborated"
                           ELSE "reported"
<1> DEFINE old == claims[c]
           E == old.evidence \cup {o}
<1>1. old \in ClaimRecord /\ Grounded(c)
  BY DEF BridgeInv, BridgeTypeOK, ClaimsGrounded
<1>2. /\ new.value = pending[o].text
      /\ new.evidence = E
      /\ new.status = EvidenceStatus(old, pending[o].text, Cardinality(E))
      /\ new = [value |-> new.value, status |-> new.status, evidence |-> new.evidence]
  BY DEF Upsert
<1>3. /\ IsFiniteSet(E)
      /\ Cardinality(E) = Cardinality(old.evidence) + 1
      /\ Cardinality(old.evidence) \in Nat
      /\ Cardinality(old.evidence) # 0
  BY <1>1, FS_AddElement, FS_CardinalityType, FS_EmptySet DEF Grounded
<1>4. EvidenceStatus(old, pending[o].text, Cardinality(E)) \in ClaimStatus
  BY <1>1 DEF EvidenceStatus, ClaimRecord, ClaimStatus, Verdict
<1>5. new \in ClaimRecord
  <2>1. pending[o].text \in {v.text : v \in Variant}
    BY DEF Variant
  <2>2. E \in SUBSET Obs
    BY <1>1 DEF ClaimRecord
  <2> QED
    BY <2>1, <2>2, <1>2, <1>4 DEF ClaimRecord
<1>6. old.status \in Verdict => new.status = old.status
  BY <1>2 DEF EvidenceStatus
<1>7. ASSUME new.status \notin Verdict
      PROVE  new.status = IF ~Agree(E) THEN "contested" ELSE "corroborated"
  <2>1. old.status \notin Verdict
    BY <1>6, <1>7
  <2>2. Reflects(c)
    BY <2>1 DEF BridgeInv, StatusReflectsEvidence
  <2>3. PICK p \in old.evidence : old.value = pending[p].text
    BY <1>1 DEF Grounded
  <2>4. CASE ~Agree(old.evidence)
    <3>1. old.status = "contested" /\ ~Agree(E)
      BY <2>2, <2>4 DEF Reflects, Agree
    <3> QED
      BY <3>1, <1>2, <2>1 DEF EvidenceStatus
  <2>5. CASE Agree(old.evidence) /\ old.value = pending[o].text
    <3>1. Agree(E)
      BY <2>3, <2>5 DEF Agree
    <3>2. old.status = IF Cardinality(old.evidence) > 1 THEN "corroborated" ELSE "reported"
      BY <2>2, <2>5 DEF Reflects
    <3> QED
      BY <3>1, <3>2, <1>2, <1>3, <2>1, <2>5 DEF EvidenceStatus
  <2>6. CASE Agree(old.evidence) /\ old.value # pending[o].text
    <3>1. ~Agree(E)
      BY <2>3, <2>6 DEF Agree
    <3> QED
      BY <3>1, <1>2, <2>1, <2>6 DEF EvidenceStatus
  <2> QED
    BY <2>4, <2>5, <2>6
<1> QED
  BY <1>2, <1>3, <1>5, <1>6, <1>7

(* The first piece of evidence of a claim. *)
LEMMA FirstEvidence ==
  ASSUME NEW o \in Obs, pending[o] \in Variants[o],
         NEW new, new = Upsert(NoClaim, o, pending[o].text)
  PROVE  /\ new \in ClaimRecord
         /\ new.evidence = {o} /\ IsFiniteSet(new.evidence)
         /\ new.value = pending[o].text
         /\ new.status = "reported" /\ Cardinality(new.evidence) = 1 /\ Agree(new.evidence)
<1>1. new = [value |-> pending[o].text, status |-> "reported", evidence |-> {o}]
  BY DEF Upsert
<1>2. pending[o].text \in {v.text : v \in Variant} /\ "reported" \in ClaimStatus
  BY DEF Variant, ClaimStatus
<1>3. new \in ClaimRecord
  BY <1>1, <1>2 DEF ClaimRecord
<1>4. new.evidence = {o} /\ new.value = pending[o].text /\ new.status = "reported"
  BY <1>1
<1>5. IsFiniteSet({o}) /\ Cardinality({o}) = 1
  BY FS_Singleton
<1>6. Agree({o})
  BY DEF Agree
<1> QED
  BY <1>3, <1>4, <1>5, <1>6

(* A delivery adds its observation to one claim and leaves the others.     *)
LEMMA DeliveredInvariant ==
  ASSUME BridgeInv, NEW o \in Obs, ObservationDelivered(o)
  PROVE  BridgeInv'
<1> DEFINE c == ClaimOf[o]
           new == Upsert(claims[c], o, pending[o].text)
<1>1. c \in Claim /\ pending[o] \in Variants[o] /\ new = Upsert(claims[c], o, pending[o].text)
  BY ClaimAssumption DEF BridgeInv, BridgeTypeOK, ObservationDelivered
<1>2. /\ claims' = [claims EXCEPT ![c] = new]
      /\ claims'[c] = new
      /\ \A d \in Claim \ {c} : claims'[d] = claims[d]
      /\ pending' = pending
      /\ delivered' = Append(delivered, o)
  BY <1>1 DEF ObservationDelivered, WithDelivered, BridgeInv, BridgeTypeOK
<1>3. ~\E i \in DOMAIN delivered : delivered[i] = o
  BY DEF ObservationDelivered
<1>4. claims[c] # NoClaim => Grounded(c) /\ Filed(c) /\ o \notin claims[c].evidence
  BY <1>1, <1>3 DEF BridgeInv, BridgeTypeOK, ClaimsGrounded, Grounded, Shown
<1>5. /\ new \in ClaimRecord
      /\ new.evidence \subseteq {p \in Obs : ClaimOf[p] = c}
      /\ IsFiniteSet(new.evidence)
      /\ new.evidence # {} /\ o \in new.evidence
      /\ \A p \in new.evidence \ {o} : claims[c] # NoClaim /\ p \in claims[c].evidence
      /\ new.value = pending[o].text
      /\ new.status \notin Verdict =>
              new.status = IF ~Agree(new.evidence) THEN "contested"
                           ELSE IF Cardinality(new.evidence) > 1 THEN "corroborated"
                           ELSE "reported"
      /\ new.status = "refuted" => claims[c] # NoClaim /\ claims[c].status = "refuted"
  <2>1. CASE claims[c] = NoClaim
    <3>1. /\ new \in ClaimRecord
          /\ new.evidence = {o} /\ IsFiniteSet(new.evidence)
          /\ new.value = pending[o].text
          /\ new.status = "reported" /\ Cardinality(new.evidence) = 1 /\ Agree(new.evidence)
      BY <2>1, <1>1, FirstEvidence
    <3> QED
      BY <3>1, <1>1
  <2>2. CASE claims[c] # NoClaim
    <3>1. /\ new \in ClaimRecord
          /\ new.evidence = claims[c].evidence \cup {o}
          /\ IsFiniteSet(new.evidence)
          /\ new.value = pending[o].text
          /\ claims[c].status \in Verdict => new.status = claims[c].status
          /\ new.status \notin Verdict =>
               new.status = IF ~Agree(new.evidence) THEN "contested"
                            ELSE IF Cardinality(new.evidence) > 1 THEN "corroborated"
                            ELSE "reported"
      BY <2>2, <1>1, <1>4, EvidenceAdded
    <3>2. new.status = "refuted" => claims[c].status = "refuted"
      BY <3>1, <2>2 DEF Upsert, EvidenceStatus, Verdict
    <3> QED
      BY <3>1, <3>2, <2>2, <1>1, <1>4 DEF Filed
  <2> QED
    BY <2>1, <2>2
<1>6. \A p \in Obs : Shown(p) \/ p = o => Shown(p)'
  <2>1. delivered \in Seq(Obs)
    BY DEF BridgeInv, BridgeTypeOK
  <2>2. /\ DOMAIN delivered' = 1 .. Len(delivered) + 1
        /\ delivered'[Len(delivered) + 1] = o
        /\ \A i \in DOMAIN delivered : i \in DOMAIN delivered' /\ delivered'[i] = delivered[i]
    BY <2>1, <1>2
  <2>3. Len(delivered) + 1 \in DOMAIN delivered'
    BY <2>1, <2>2
  <2> QED
    BY <2>2, <2>3, <1>2 DEF Shown, ObservationDelivered
<1>7. BridgeTypeOK'
  BY <1>1, <1>2, <1>5 DEF BridgeInv, BridgeTypeOK, Filed
<1>8. ClaimsGrounded'
  <2> SUFFICES ASSUME NEW d \in Claim, claims'[d] # NoClaim PROVE Grounded(d)'
    BY DEF ClaimsGrounded
  <2>1. CASE d = c
    <3>1. \A p \in new.evidence : p \in Obs /\ (Shown(p) \/ p = o)
      BY <1>4, <1>5 DEF Grounded
    <3> QED
      BY <2>1, <3>1, <1>2, <1>5, <1>6 DEF Grounded
  <2>2. CASE d # c
    <3>1. Grounded(d) /\ claims[d] \in ClaimRecord
      BY <2>2, <1>2 DEF BridgeInv, BridgeTypeOK, ClaimsGrounded
    <3>2. \A p \in claims[d].evidence : p \in Obs
      BY <3>1 DEF ClaimRecord
    <3> QED
      BY <2>2, <3>1, <3>2, <1>2, <1>6 DEF Grounded
  <2> QED
    BY <2>1, <2>2
<1>9. StatusReflectsEvidence'
  <2> SUFFICES ASSUME NEW d \in Claim, claims'[d] # NoClaim, claims'[d].status \notin Verdict
               PROVE  Reflects(d)'
    BY DEF StatusReflectsEvidence
  <2>1. CASE d = c
    BY <2>1, <1>2, <1>5 DEF Reflects, Agree
  <2>2. CASE d # c
    BY <2>2, <1>2 DEF BridgeInv, StatusReflectsEvidence, Reflects, Agree
  <2> QED
    BY <2>1, <2>2
<1>10. RefutedForCause'
  BY <1>1, <1>2, <1>5 DEF BridgeInv, RefutedForCause, Related
<1> QED
  BY <1>7, <1>8, <1>9, <1>10 DEF BridgeInv

(* A step that changes nothing of the bridge keeps the invariant. *)
LEMMA BridgeStutters == BridgeInv /\ UNCHANGED bridgeVars => BridgeInv'
<1> SUFFICES ASSUME BridgeInv, UNCHANGED bridgeVars PROVE BridgeInv'
  OBVIOUS
<1> USE DEF bridgeVars, BridgeInv
<1>1. BridgeTypeOK'
  BY DEF BridgeTypeOK, Filed
<1>2. ClaimsGrounded'
  BY DEF ClaimsGrounded, Grounded, Shown
<1>3. StatusReflectsEvidence' /\ RefutedForCause'
  BY DEF StatusReflectsEvidence, Reflects, Agree, RefutedForCause, Related
<1> QED
  BY <1>1, <1>2, <1>3

(* A verification only sets the status of a claim that has evidence. *)
LEMMA ResolveInvariant ==
  ASSUME BridgeInv, NEW c \in Claim, ResolveVerification(c)
  PROVE  BridgeInv'
<1> DEFINE outcome == Outcome(c, claims, pending)
<1> USE DEF ResolveVerification, WithOutcome
<1>1. outcome \in Verdict \cup {"inconclusive"}
  BY DEF Outcome, Verdict
<1>2. CASE outcome = "inconclusive"
  <2>1. UNCHANGED bridgeVars
    BY <1>2 DEF bridgeVars
  <2> QED
    BY <2>1, BridgeStutters
<1>3. CASE outcome \in Verdict
  <2>1. /\ claims[c] # NoClaim /\ claims[c] \in ClaimRecord
        /\ outcome = "refuted" => \E o \in Related(c, pending) : pending[o].false
    BY <1>3 DEF Outcome, Verdict, BridgeInv, BridgeTypeOK
  <2>2. /\ claims' = [claims EXCEPT ![c].status = outcome]
        /\ pending' = pending /\ delivered' = delivered
    BY <1>3 DEF Verdict
  <2>3. /\ claims'[c] = [claims[c] EXCEPT !.status = outcome]
        /\ \A d \in Claim \ {c} : claims'[d] = claims[d]
    BY <2>2 DEF BridgeInv, BridgeTypeOK
  <2>4. /\ claims'[c] \in ClaimRecord
        /\ claims'[c].status = outcome
        /\ claims'[c].evidence = claims[c].evidence
        /\ claims'[c].value = claims[c].value
    BY <2>1, <2>3, <1>3 DEF ClaimRecord, ClaimStatus
  <2>5. BridgeTypeOK'
    BY <2>1, <2>2, <2>3, <2>4 DEF BridgeInv, BridgeTypeOK, Filed
  <2>6. \A d \in Claim : claims'[d] # NoClaim =>
          /\ claims[d] # NoClaim
          /\ claims'[d].evidence = claims[d].evidence
          /\ claims'[d].value = claims[d].value
    BY <2>1, <2>3, <2>4
  <2>7. ClaimsGrounded'
    BY <2>2, <2>6 DEF BridgeInv, ClaimsGrounded, Grounded, Shown
  <2>8. StatusReflectsEvidence'
    BY <2>2, <2>3, <2>4, <1>3 DEF BridgeInv, StatusReflectsEvidence, Reflects, Agree
  <2>9. RefutedForCause'
    BY <2>1, <2>2, <2>3, <2>4 DEF BridgeInv, RefutedForCause, Related
  <2> QED
    BY <2>5, <2>7, <2>8, <2>9 DEF BridgeInv
<1> QED
  BY <1>1, <1>2, <1>3

\* Every step of the bridge keeps the invariant.
LEMMA BridgeNextInvariant == BridgeInv /\ [BridgeNext]_bridgeVars => BridgeInv'
<1> SUFFICES ASSUME BridgeInv, [BridgeNext]_bridgeVars PROVE BridgeInv'
  OBVIOUS
<1>1. CASE BridgeNext
  BY <1>1, CreatedInvariant, DeliveredInvariant, ResolveInvariant DEF BridgeNext
<1>2. CASE UNCHANGED bridgeVars
  BY <1>2, BridgeStutters
<1> QED
  BY <1>1, <1>2

(* The bridge stays in its inductive invariant. *)
THEOREM BridgeInvariant == BridgeSpec => []BridgeInv
<1>1. BridgeInit => BridgeInv
  BY BridgeInitInvariant
<1>2. BridgeInv /\ [BridgeNext]_bridgeVars => BridgeInv'
  BY BridgeNextInvariant
<1> QED
  BY <1>1, <1>2, PTL DEF BridgeSpec

(* What players read of a claim without a verdict depends only on which    *)
(* evidence was delivered, not on the order (upsertClaimFromEvidence).     *)
THEOREM StatusReflectsEvidenceCorrect == BridgeSpec => []StatusReflectsEvidence
<1>1. BridgeInv => StatusReflectsEvidence
  BY DEF BridgeInv
<1> QED
  BY <1>1, BridgeInvariant, PTL

(* No claim is refuted without a false observation (resolveVerification).  *)
THEOREM RefutedForCauseCorrect == BridgeSpec => []RefutedForCause
<1>1. BridgeInv => RefutedForCause
  BY DEF BridgeInv
<1> QED
  BY <1>1, BridgeInvariant, PTL

(* Evidence never changes a verdict; a later verification changes it only  *)
(* from verified to refuted, because a false observation stays known.      *)
THEOREM VerdictStandsCorrect == BridgeSpec => VerdictStands
<1> DEFINE Stands(c) ==
      claims[c] # NoClaim /\ claims[c].status \in Verdict =>
        \/ claims'[c].status = claims[c].status
        \/ /\ claims[c].status = "verified" /\ claims'[c].status = "refuted"
           /\ UNCHANGED <<pending, delivered>>
<1>1. ASSUME BridgeInv, BridgeNext, NEW c \in Claim PROVE Stands(c)
  <2> SUFFICES ASSUME claims[c] # NoClaim, claims[c].status \in Verdict
               PROVE  \/ claims'[c].status = claims[c].status
                      \/ /\ claims[c].status = "verified" /\ claims'[c].status = "refuted"
                         /\ UNCHANGED <<pending, delivered>>
    OBVIOUS
  <2>1. ASSUME NEW o \in Obs, NEW v \in Variants[o], ObservationCreated(o, v)
        PROVE  claims'[c].status = claims[c].status
    BY <2>1 DEF ObservationCreated
  <2>2. ASSUME NEW o \in Obs, ObservationDelivered(o)
        PROVE  claims'[c].status = claims[c].status
    <3>1. CASE ClaimOf[o] = c
      <4>1. claims'[c] = Upsert(claims[c], o, pending[o].text)
        BY <1>1, <2>2, <3>1 DEF ObservationDelivered, WithDelivered, BridgeInv, BridgeTypeOK
      <4> QED
        BY <4>1 DEF Upsert, EvidenceStatus
    <3>2. CASE ClaimOf[o] # c
      BY <1>1, <2>2, <3>2 DEF ObservationDelivered, WithDelivered, BridgeInv, BridgeTypeOK
    <3> QED
      BY <3>1, <3>2
  <2>3. ASSUME NEW d \in Claim, ResolveVerification(d)
        PROVE  \/ claims'[c].status = claims[c].status
               \/ /\ claims[c].status = "verified" /\ claims'[c].status = "refuted"
                  /\ UNCHANGED <<pending, delivered>>
    <3>1. CASE Outcome(d, claims, pending) = "inconclusive" \/ d # c
      BY <1>1, <2>3, <3>1 DEF ResolveVerification, WithOutcome, BridgeInv, BridgeTypeOK
    <3>2. CASE d = c /\ Outcome(c, claims, pending) # "inconclusive"
      <4>1. claims'[c].status = Outcome(c, claims, pending)
        BY <1>1, <2>3, <3>2 DEF ResolveVerification, WithOutcome, BridgeInv, BridgeTypeOK,
                                ClaimRecord
      <4>2. claims[c].status = "refuted" => Outcome(c, claims, pending) = "refuted"
        BY <1>1, <3>2 DEF BridgeInv, RefutedForCause, Outcome
      <4>3. Outcome(c, claims, pending) \in Verdict
        BY <3>2 DEF Outcome, Verdict
      <4> QED
        BY <2>3, <4>1, <4>2, <4>3 DEF Verdict, ResolveVerification
    <3> QED
      BY <3>1, <3>2
  <2> QED
    BY <1>1, <2>1, <2>2, <2>3 DEF BridgeNext
<1>2. BridgeInv /\ [BridgeNext]_bridgeVars => [\A c \in Claim : Stands(c)]_bridgeVars
  BY <1>1
<1> QED
  BY <1>2, BridgeInvariant, PTL DEF BridgeSpec, VerdictStands

----------------------------------------------------------------------------
(***************************************************************************)
(* The engine under the server.                                            *)
(***************************************************************************)

(* Every handler of the server is a step of the engine or leaves it alone. *)
LEMMA HandlersStepEngine ==
  ASSUME [HubNext]_hubVars
  PROVE  [Next]_vars
<1>1. ASSUME NEW t \in Team, NEW c \in Claim, NEW k \in Key, RequestVerification(t, c, k)
      PROVE  Next
  <2>1. DistrictOf[c] \in District /\ "verify" \in Task
    BY HubAssumption
  <2>2. DispatchTeam(t, DistrictOf[c], "verify", k)
    BY <1>1 DEF RequestVerification
  <2> QED BY <2>1, <2>2 DEF Next
<1>2. CASE Command
  BY <1>2 DEF Command, Next
<1>3. CASE Advance
  BY <1>3 DEF Advance, Next
<1>4. ASSUME UNCHANGED engineVars PROVE UNCHANGED vars
  BY <1>4 DEF engineVars, vars, clockVars, teamVars, wasteVars, orderHist, intakeVars
<1>5. ASSUME NEW c \in Claim, Assess(c) PROVE UNCHANGED engineVars
  BY <1>5 DEF Assess
<1>6. CASE Resume
  BY <1>4, <1>6 DEF Resume
<1>7. CASE UNCHANGED hubVars
  BY <1>4, <1>7 DEF hubVars
<1> QED BY <1>1, <1>2, <1>3, <1>4, <1>5, <1>6, <1>7 DEF HubNext

(* So whatever requests, restarts and deliveries a session sees, the       *)
(* engine's own invariant holds in it.                                     *)
THEOREM EngineUnderServer == HubSpec => []IInv
<1>1. HubInit => IInv
  BY InitInvariant DEF HubInit
<1>2. IInv /\ [HubNext]_hubVars => IInv'
  BY HandlersStepEngine, NextInvariant
<1> QED BY <1>1, <1>2, PTL DEF HubSpec

(* The commands of the engine. *)
EngineCommand ==
  \E k \in Key :
    \/ \E t \in Team, d \in District, task \in Task : DispatchTeam(t, d, task, k)
    \/ \E o \in OrderId : CancelOrder(o, k)
    \/ \E r \in Route, close \in BOOLEAN : SetRouteClosed(r, close, k)

(* What every command leaves as it was: time, the ends of issued orders,   *)
(* and a team on its way, which goes on with its order or loses it.        *)
CommandKeeps ==
  /\ phase = "running" /\ UNCHANGED <<tick, phase, arrivedAt>>
  /\ orderSeq' \in Nat /\ orderSeq <= orderSeq'
  /\ \A o \in OrderId : o <= orderSeq =>
       /\ dispatched'[o] = dispatched[o]
       /\ cancelledAt'[o] = NoTick => cancelledAt[o] = NoTick
  /\ \A t \in Team : status[t] = "transit" =>
       \/ order'[t] = order[t] /\ status'[t] = "transit"
       \/ order'[t] = NoOrder
  /\ ~Terminal
  /\ CommandSeen

\* What no command of the engine does: move the clock or end a travel with an arrival.
LEMMA CommandFacts ==
  ASSUME IInv, EngineCommand
  PROVE  CommandKeeps
<1>0. orderSeq \in Nat /\ MaxCommands \in Nat
  BY BoundAssumption DEF IInv, TypeOK
<1>1. ASSUME NEW k, NEW b, Issue, Reject(k, b) PROVE CommandKeeps
  BY <1>0, <1>1 DEF CommandKeeps, Issue, Reject, clockVars, teamVars, orderHist, Terminal, CommandSeen
<1>2. ASSUME NEW k \in Key, NEW t \in Team, NEW d \in District, NEW task \in Task,
             DispatchTeam(t, d, task, k)
      PROVE  CommandKeeps
  <2>1. CASE Issue /\ Reject(k, CanDispatch(t, d, task))
    BY <1>1, <2>1
  <2>2. CASE /\ Issue
             /\ CanDispatch(t, d, task)
             /\ Accept(k, {[kind |-> "TeamDispatched", team |-> t]})
             /\ StartTravel(t, d, task, tick + Travel[closed][location[t]][d])
             /\ UNCHANGED <<location, wasteVars, closed, arrivedAt, cancelledAt>>
    <3>1. UNCHANGED <<tick, phase, arrivedAt, cancelledAt>> /\ phase = "running"
      BY <2>2 DEF Issue, clockVars
    <3>2. orderSeq' = orderSeq + 1
      BY <2>2 DEF StartTravel
    <3>3. \A o \in OrderId : o <= orderSeq => dispatched'[o] = dispatched[o]
      <4>1. \A o \in OrderId : o <= orderSeq => o # orderSeq + 1
        BY <1>0 DEF OrderId
      <4> QED BY <2>2, <4>1 DEF StartTravel, IInv, TypeOK
    <3>4. \A u \in Team : status[u] = "transit" => order'[u] = order[u] /\ status'[u] = "transit"
      BY <2>2 DEF CanDispatch, StartTravel, IInv, TypeOK
    <3>5. ~Terminal /\ CommandSeen
      BY <2>2 DEF Accept, Terminal, CommandSeen
    <3> QED BY <1>0, <3>1, <3>2, <3>3, <3>4, <3>5 DEF CommandKeeps
  <2> QED BY <1>2, <2>1, <2>2 DEF DispatchTeam
<1>3. ASSUME NEW k \in Key, NEW o \in OrderId, CancelOrder(o, k) PROVE CommandKeeps
  <2>1. CASE Issue /\ Reject(k, \E t \in Team : Holds(t, o))
    BY <1>1, <2>1
  <2>2. ASSUME NEW t \in Team, Issue, Release(t),
               Accept(k, IF status[t] = "working" THEN {[kind |-> "OrderCancelled"]} ELSE {}),
               cancelledAt' = [cancelledAt EXCEPT ![o] = tick],
               UNCHANGED <<orderSeq, dispatched, arrivedAt>>
        PROVE  CommandKeeps
    <3>1. tick # NoTick
      BY BoundAssumption, NullAssumption DEF IInv, TypeOK
    <3>2. \A p \in OrderId : cancelledAt'[p] = NoTick => cancelledAt[p] = NoTick
      BY <2>2, <3>1 DEF IInv, TypeOK
    <3>3. \A u \in Team : \/ order'[u] = order[u] /\ status'[u] = status[u]
                          \/ order'[u] = NoOrder
      BY <2>2 DEF Release, IInv, TypeOK
    <3>4. ~Terminal /\ CommandSeen
      BY <2>2 DEF Accept, Terminal, CommandSeen
    <3> QED BY <1>0, <2>2, <3>2, <3>3, <3>4 DEF CommandKeeps, Issue, clockVars
  <2> QED BY <1>3, <2>1, <2>2 DEF CancelOrder
<1>4. ASSUME NEW k \in Key, NEW r \in Route, NEW close \in BOOLEAN, SetRouteClosed(r, close, k)
      PROVE  CommandKeeps
  <2>1. CASE Issue /\ Reject(k, (r \in closed) # close)
    BY <1>1, <2>1
  <2>2. CASE Issue /\ Accept(k, {[kind |-> "RouteSet"]})
               /\ UNCHANGED <<teamVars, wasteVars, orderSeq, orderHist>>
    <3>1. ~Terminal /\ CommandSeen
      BY <2>2 DEF Accept, Terminal, CommandSeen
    <3> QED BY <1>0, <2>2, <3>1 DEF CommandKeeps, Issue, clockVars, teamVars, orderHist
  <2> QED BY <1>4, <2>1, <2>2 DEF SetRouteClosed
<1> QED BY <1>2, <1>3, <1>4 DEF EngineCommand

(* An accepted dispatch gives the team the next order; a rejected one      *)
(* gives it nothing.                                                       *)
LEMMA DispatchFacts ==
  ASSUME IInv, NEW t \in Team, NEW d \in District, NEW task \in Task, NEW k \in Key,
         DispatchTeam(t, d, task, k)
  PROVE  /\ Accepted => /\ orderSeq' = orderSeq + 1 /\ orderSeq + 1 \in OrderId
                        /\ order'[t] = [id |-> orderSeq + 1, target |-> d, task |-> task]
                        /\ status'[t] = "transit"
                        /\ dispatched'[orderSeq + 1].team = t
                        /\ TeamType[t] \in Compatible[task]
         /\ ~Accepted => UNCHANGED <<order, status, orderSeq, dispatched, cancelledAt>>
<1>1. CASE Reject(k, CanDispatch(t, d, task))
  BY <1>1 DEF Reject, Accepted, teamVars, orderHist
<1>2. CASE /\ Issue
           /\ CanDispatch(t, d, task)
           /\ Accept(k, {[kind |-> "TeamDispatched", team |-> t]})
           /\ StartTravel(t, d, task, tick + Travel[closed][location[t]][d])
  <2>1. Accepted
    BY <1>2 DEF Accept, Accepted
  <2>2. orderSeq + 1 \in OrderId
    BY <1>2, BoundAssumption DEF Issue, IInv, TypeOK, Numbering, OrderId
  <2> QED BY <1>2, <2>1, <2>2 DEF StartTravel, CanDispatch, IInv, TypeOK
<1> QED BY <1>1, <1>2 DEF DispatchTeam

(* What a clock step does to the teams and their orders. *)
LEMMA StepFacts ==
  ASSUME IInv, Step
  PROVE  /\ tick \in Nat /\ tick' = tick + 1
         /\ UNCHANGED <<order, dispatched, cancelledAt, orderSeq>>
         /\ \A t \in Arriving :
              /\ t \in Team /\ order[t] # NoOrder /\ order[t].id \in OrderId
              /\ status'[t] = "working" /\ arrivedAt[order[t].id] = NoTick
              /\ arrivedAt'[order[t].id] = tick'
         /\ \A t \in Team : t \notin Arriving => status'[t] = status[t]
         /\ \A o \in OrderId : (\A t \in Arriving : order[t].id # o) => arrivedAt'[o] = arrivedAt[o]
         /\ \A t \in Team : status[t] = "transit" /\ status'[t] = "working" => t \in Arriving
         /\ ~CommandSeen /\ (Terminal <=> phase' = "completed")
<1>1. tick \in Nat /\ tick' = tick + 1 /\ UNCHANGED <<order, dispatched, cancelledAt, orderSeq>>
  BY BoundAssumption DEF Step, IInv, TypeOK
<1>2. \A t \in Team : status'[t] = IF t \in Arriving THEN "working" ELSE status[t]
  BY DEF Step, Arrive
<1>3. ASSUME NEW t \in Arriving
      PROVE  /\ t \in Team /\ order[t] # NoOrder /\ order[t].id \in OrderId
             /\ arrivedAt[order[t].id] = NoTick
  <2>1. t \in Team /\ status[t] = "transit"
    BY DEF Arriving
  <2>2. StatusFits(t) /\ order[t] # NoOrder
    BY <2>1 DEF IInv, StatusMatchesOrder, StatusFits
  <2> QED BY <2>1, <2>2, HeldIds DEF StatusFits, Order
<1>4. \A o \in OrderId : arrivedAt'[o] = IF \E t \in Arriving : Holds(t, o)
                                         THEN tick + 1 ELSE arrivedAt[o]
  BY DEF Step, Arrive
<1>5. ASSUME NEW t \in Arriving PROVE arrivedAt'[order[t].id] = tick'
  BY <1>1, <1>3, <1>4 DEF Holds
<1>6. ASSUME NEW o \in OrderId, \A t \in Arriving : order[t].id # o
      PROVE  arrivedAt'[o] = arrivedAt[o]
  BY <1>4, <1>6 DEF Holds
<1>7. ~CommandSeen
  BY DEF Step, CommandSeen
<1>8. Terminal <=> phase' = "completed"
  <2>1. Terminal <=> FinalTick
    BY DEF Step, Terminal
  <2>2. phase = "running"
    BY DEF Step, CanStep
  <2> QED BY <2>1, <2>2 DEF Step
<1> QED BY <1>1, <1>2, <1>3, <1>5, <1>6, <1>7, <1>8

----------------------------------------------------------------------------
(***************************************************************************)
(* The waiting verifications.                                              *)
(***************************************************************************)
JobInv ==
  /\ job \in [Team -> Job \cup {NoJob}]
  /\ requested \in [OrderId -> Claim \cup {NoClaim}]
  /\ resolved \subseteq [order : OrderId, claim : Claim, at : Nat]
  /\ forgotten \subseteq OrderId
  /\ JobBoundToLiveOrder
  /\ ResolvedByOwnOrder
  /\ RequestsWait
  /\ AnsweredUnlessForgotten

(* The jobs that publishing leaves are bound, when those it was given were *)
(* requested for verification teams.                                       *)
LEMMA PublishBinds ==
  ASSUME IInv', NEW jobs \in [Team -> Job \cup {NoJob}], job' = Remaining(jobs),
         \A t \in Team : jobs[t] # NoJob =>
           TeamType[t] = "verification" /\ requested'[jobs[t].order] = jobs[t].claim
  PROVE  job' \in [Team -> Job \cup {NoJob}] /\ JobBoundToLiveOrder'
<1>1. job' \in [Team -> Job \cup {NoJob}]
  BY DEF Remaining
<1>2. ASSUME NEW t \in Team, job'[t] # NoJob
      PROVE  /\ TeamType[t] = "verification" /\ status'[t] = "transit"
             /\ order'[t].id = job'[t].order
             /\ order'[t].target = job'[t].target
             /\ order'[t].task = "verify"
             /\ requested'[job'[t].order] = job'[t].claim
  <2>1. job'[t] = jobs[t] /\ jobs[t] # NoJob /\ SameWork(t, jobs[t]) /\ t \notin Finished(jobs)
    BY <1>2 DEF Remaining
  <2>2. order'[t] # NoOrder
    BY <2>1 DEF SameWork
  <2>3. status'[t] # "idle" /\ status'[t] \in {"idle", "transit", "working"}
    BY <2>2 DEF IInv, TypeOK, StatusMatchesOrder, StatusFits
  <2>4. status'[t] # "working"
    BY <2>1 DEF Finished
  <2> QED BY <2>1, <2>3, <2>4 DEF SameWork
<1> QED BY <1>1, <1>2 DEF JobBoundToLiveOrder

(* An order that neither arrived nor was cancelled is held by the team it  *)
(* was issued to, which travels.                                           *)
LEMMA StillTravelling ==
  ASSUME IInv, NEW o \in OrderId, o <= orderSeq,
         arrivedAt[o] = NoTick, cancelledAt[o] = NoTick
  PROVE  /\ dispatched[o].team \in Team
         /\ status[dispatched[o].team] = "transit"
         /\ order[dispatched[o].team] # NoOrder
         /\ order[dispatched[o].team].id = o
<1>1. o \in 1 .. orderSeq
  BY BoundAssumption DEF IInv, TypeOK, OrderId
<1> QED BY <1>1 DEF IInv, Numbering, Dispatch, Underway, InHand, Holds

\* The same of the state after a step: an order not ended is its team's, on the way.
LEMMA StillTravellingNext ==
  ASSUME IInv', NEW o \in OrderId, o <= orderSeq',
         arrivedAt'[o] = NoTick, cancelledAt'[o] = NoTick
  PROVE  /\ dispatched'[o].team \in Team
         /\ status'[dispatched'[o].team] = "transit"
         /\ order'[dispatched'[o].team] # NoOrder
         /\ order'[dispatched'[o].team].id = o
<1>1. o \in 1 .. orderSeq'
  BY BoundAssumption DEF IInv, TypeOK, OrderId
<1> QED BY <1>1 DEF IInv, Numbering, Dispatch, Underway, InHand, Holds

(* What a handler does to the verifications, given the jobs it left.       *)
Answers(jobs) ==
  {[order |-> jobs[t].order, claim |-> jobs[t].claim, at |-> tick'] : t \in Finished(jobs)}

(* A job that goes on with the order o. *)
WaitsFor(jobs, t, o) == jobs[t] # NoJob /\ jobs[t].order = o /\ SameWork(t, jobs[t])

(* A command answers no verification; it keeps every one that still waits. *)
LEMMA CommandJobs ==
  ASSUME JobInv, IInv, IInv', CommandKeeps,
         NEW jobs \in [Team -> Job \cup {NoJob}], job' = Remaining(jobs),
         \A t \in Team : jobs[t] # NoJob =>
           /\ TeamType[t] = "verification" /\ requested'[jobs[t].order] = jobs[t].claim
           /\ status'[t] = "transit" \/ order'[t] = NoOrder,
         requested' \in [OrderId -> Claim \cup {NoClaim}],
         \A o \in OrderId : /\ o <= orderSeq => requested'[o] = requested[o]
                            /\ requested'[o] # NoClaim => o <= orderSeq',
         forgotten \subseteq forgotten', forgotten' \subseteq OrderId,
         resolved' = resolved \cup Answers(jobs),
         \A o \in OrderId :
           requested'[o] # NoClaim /\ arrivedAt'[o] = NoTick /\ cancelledAt'[o] = NoTick =>
             WaitsFor(jobs, dispatched'[o].team, o) \/ o \in forgotten'
  PROVE  JobInv'
<1>1. job' \in [Team -> Job \cup {NoJob}] /\ JobBoundToLiveOrder'
  BY PublishBinds
<1>2. Finished(jobs) = {}
  BY DEF Finished, SameWork
<1>3. resolved' = resolved
  BY <1>2 DEF Answers
<1>4. \A o \in OrderId : requested[o] # NoClaim => o <= orderSeq
  BY DEF JobInv, RequestsWait
<1>5. arrivedAt' = arrivedAt
  BY DEF CommandKeeps
<1>6. ResolvedByOwnOrder'
  <2> SUFFICES ASSUME NEW r \in resolved
               PROVE  requested'[r.order] = r.claim /\ r.at = arrivedAt[r.order]
    BY <1>3, <1>5 DEF ResolvedByOwnOrder
  <2>1. requested[r.order] = r.claim /\ r.at = arrivedAt[r.order]
    BY DEF JobInv, ResolvedByOwnOrder
  <2>2. r.order \in OrderId /\ r.claim # NoClaim
    BY HubAssumption DEF JobInv
  <2> QED BY <1>4, <2>1, <2>2
<1>7. RequestsWait'
  <2> SUFFICES ASSUME NEW o \in OrderId, requested'[o] # NoClaim,
                      arrivedAt'[o] = NoTick, cancelledAt'[o] = NoTick, o \notin forgotten'
               PROVE  Waits(o)'
    BY DEF RequestsWait
  <2> DEFINE t == dispatched'[o].team
  <2>1. o <= orderSeq' /\ WaitsFor(jobs, t, o)
    OBVIOUS
  <2>2. t \in Team /\ status'[t] = "transit"
    BY <2>1, StillTravellingNext
  <2>3. job'[t] = jobs[t]
    BY <1>2, <2>1, <2>2 DEF Remaining, WaitsFor
  <2> QED BY <2>1, <2>3 DEF Waits, WaitsFor
<1>8. AnsweredUnlessForgotten'
  <2> SUFFICES ASSUME NEW o \in OrderId, requested'[o] # NoClaim, arrivedAt[o] # NoTick
               PROVE  (\E r \in resolved : r.order = o) \/ o \in forgotten
    BY <1>3, <1>5 DEF AnsweredUnlessForgotten
  <2>1. o <= orderSeq
    BY BoundAssumption DEF IInv, TypeOK, Numbering, OrderId
  <2> QED BY <2>1 DEF JobInv, AnsweredUnlessForgotten
<1>9. resolved' \subseteq [order : OrderId, claim : Claim, at : Nat]
  BY <1>3 DEF JobInv
<1> QED BY <1>1, <1>6, <1>7, <1>8, <1>9 DEF JobInv

(* session.command for every other command. *)
LEMMA PlainCommandJobs ==
  ASSUME JobInv, IInv, IInv', Command
  PROVE  JobInv'
<1>1. CommandKeeps
  BY CommandFacts DEF Command, EngineCommand
<1>2. /\ job' = Remaining(job) /\ requested' = requested /\ forgotten' = forgotten
      /\ resolved' = resolved \cup Answers(job)
  BY DEF Command, Publish, Answers
<1>3. ASSUME NEW t \in Team, job[t] # NoJob
      PROVE  /\ TeamType[t] = "verification" /\ requested'[job[t].order] = job[t].claim
             /\ status'[t] = "transit" \/ order'[t] = NoOrder
  BY <1>1, <1>2, <1>3 DEF JobInv, JobBoundToLiveOrder, CommandKeeps
<1>4. ASSUME NEW o \in OrderId, requested[o] # NoClaim, arrivedAt'[o] = NoTick,
             cancelledAt'[o] = NoTick, o \notin forgotten
      PROVE  WaitsFor(job, dispatched'[o].team, o)
  <2> DEFINE t == dispatched[o].team
  <2>1. o <= orderSeq /\ dispatched'[o] = dispatched[o]
    BY <1>1, <1>4 DEF JobInv, RequestsWait, CommandKeeps
  <2>2. arrivedAt[o] = NoTick /\ cancelledAt[o] = NoTick
    BY <1>1, <1>4, <2>1 DEF CommandKeeps
  <2>3. Waits(o)
    BY <1>4, <2>2 DEF JobInv, RequestsWait
  <2>4. t \in Team /\ status[t] = "transit"
    BY <2>1, <2>2, StillTravelling
  <2>5. order'[t] # NoOrder
    <3>1. o <= orderSeq'
      BY <1>1, <2>1, BoundAssumption DEF CommandKeeps, IInv, TypeOK, OrderId
    <3> QED BY <1>4, <2>1, <3>1, StillTravellingNext
  <2>6. order'[t] = order[t]
    BY <1>1, <2>4, <2>5 DEF CommandKeeps
  <2> QED BY <2>1, <2>3, <2>4, <2>5, <2>6
          DEF JobInv, JobBoundToLiveOrder, Waits, WaitsFor, SameWork
<1>5. ASSUME NEW o \in OrderId, requested[o] # NoClaim PROVE o <= orderSeq'
  BY <1>1, <1>5, BoundAssumption DEF JobInv, RequestsWait, CommandKeeps, IInv, TypeOK, OrderId
<1>6. job \in [Team -> Job \cup {NoJob}] /\ requested \in [OrderId -> Claim \cup {NoClaim}]
      /\ forgotten \subseteq OrderId
  BY DEF JobInv
<1> QED BY <1>1, <1>2, <1>3, <1>4, <1>5, <1>6, CommandJobs

(* session.command REQUEST_VERIFICATION: an accepted one binds the team to *)
(* the new order, a rejected one drops the verification the team had.      *)
LEMMA RequestJobs ==
  ASSUME JobInv, IInv, IInv', NEW t \in Team, NEW c \in Claim, NEW k \in Key,
         RequestVerification(t, c, k)
  PROVE  JobInv'
<1> DEFINE n == orderSeq + 1
           jobs == Targeting(t, c)
<1>1. /\ DispatchTeam(t, DistrictOf[c], "verify", k) /\ DistrictOf[c] \in District
      /\ "verify" \in Task
  BY HubAssumption DEF RequestVerification
<1>2. EngineCommand
  BY <1>1 DEF EngineCommand
<1>3. CommandKeeps
  BY <1>2, CommandFacts
<1>4. /\ job' = Remaining(jobs) /\ resolved' = resolved \cup Answers(jobs)
      /\ requested' = IF Accepted THEN [requested EXCEPT ![order'[t].id] = c] ELSE requested
      /\ forgotten' = IF ~Accepted /\ job[t] # NoJob THEN forgotten \cup {job[t].order}
                      ELSE forgotten
  BY DEF RequestVerification, Publish, Answers
<1>5. /\ Accepted => /\ orderSeq' = n /\ n \in OrderId
                     /\ order'[t] = [id |-> n, target |-> DistrictOf[c], task |-> "verify"]
                     /\ status'[t] = "transit" /\ dispatched'[n].team = t
                     /\ TeamType[t] \in Compatible["verify"]
      /\ ~Accepted => UNCHANGED <<order, status, orderSeq, dispatched, cancelledAt>>
  BY <1>1, DispatchFacts
<1>6. /\ job \in [Team -> Job \cup {NoJob}] /\ requested \in [OrderId -> Claim \cup {NoClaim}]
      /\ forgotten \subseteq OrderId /\ orderSeq \in Nat
  BY BoundAssumption DEF JobInv, IInv, TypeOK
<1>7. \A o \in OrderId : o \in Nat /\ (requested[o] # NoClaim => o <= orderSeq)
  BY DEF JobInv, RequestsWait, OrderId
<1>8. ASSUME NEW u \in Team, job[u] # NoJob
      PROVE  /\ TeamType[u] = "verification" /\ requested[job[u].order] = job[u].claim
             /\ status[u] = "transit" /\ order[u].id = job[u].order
             /\ order[u].target = job[u].target /\ order[u].task = "verify"
             /\ job[u].order \in OrderId /\ job[u].order <= orderSeq /\ job[u] \in Job
  <2>1. job[u] \in Job
    BY <1>6, <1>8
  <2>2. job[u].order \in OrderId /\ job[u].claim # NoClaim
    BY <2>1, HubAssumption DEF Job
  <2>3. requested[job[u].order] = job[u].claim
    BY <1>8 DEF JobInv, JobBoundToLiveOrder
  <2> QED BY <1>7, <1>8, <2>1, <2>2, <2>3 DEF JobInv, JobBoundToLiveOrder
(* A team whose issued order still travels has gone on with it. *)
<1>9. ASSUME NEW o \in OrderId, requested[o] # NoClaim, arrivedAt'[o] = NoTick,
             cancelledAt'[o] = NoTick, o \notin forgotten
      PROVE  /\ dispatched'[o].team \in Team
             /\ WaitsFor(job, dispatched'[o].team, o)
             /\ order'[dispatched'[o].team].id = o
  <2> DEFINE u == dispatched[o].team
  <2>1. o <= orderSeq /\ dispatched'[o] = dispatched[o]
    BY <1>3, <1>7, <1>9 DEF CommandKeeps
  <2>2. arrivedAt[o] = NoTick /\ cancelledAt[o] = NoTick
    BY <1>3, <1>9, <2>1 DEF CommandKeeps
  <2>3. Waits(o)
    BY <1>9, <2>2 DEF JobInv, RequestsWait
  <2>4. u \in Team /\ status[u] = "transit"
    BY <2>1, <2>2, StillTravelling
  <2>5. order'[u] # NoOrder /\ order'[u].id = o
    <3>1. o <= orderSeq'
      BY <1>3, <1>6, <1>7, <2>1 DEF CommandKeeps
    <3> QED BY <1>9, <2>1, <3>1, StillTravellingNext
  <2>6. order'[u] = order[u]
    BY <1>3, <2>4, <2>5 DEF CommandKeeps
  <2> QED BY <1>8, <2>1, <2>3, <2>4, <2>5, <2>6 DEF Waits, WaitsFor, SameWork
<1>10. CASE Accepted
  <2> DEFINE mine == [claim |-> c, order |-> n, target |-> DistrictOf[c]]
  <2>0. order'[t].id = n /\ n \in OrderId
    BY <1>5, <1>10
  <2> HIDE DEF n
  <2>1. jobs = [job EXCEPT ![t] = mine] /\ mine \in Job /\ mine # NoJob
    <3>1. mine \in Job
      BY <1>1, <2>0 DEF Job
    <3>2. jobs = [job EXCEPT ![t] = mine]
      BY <1>10, <2>0 DEF Targeting
    <3> QED BY <3>1, <3>2, HubAssumption
  <2>2. requested' = [requested EXCEPT ![n] = c] /\ forgotten' = forgotten
    BY <1>4, <1>10, <2>0
  <2>3. jobs \in [Team -> Job \cup {NoJob}] /\ jobs[t] = mine
        /\ \A u \in Team : u # t => jobs[u] = job[u]
    BY <1>6, <2>1
  <2> HIDE DEF jobs
  <2>4. /\ requested' \in [OrderId -> Claim \cup {NoClaim}]
        /\ requested'[n] = c
        /\ \A o \in OrderId : o # n => requested'[o] = requested[o]
        /\ \A o \in OrderId : o <= orderSeq => o # n
    <3>1. n = orderSeq + 1
      BY DEF n
    <3> QED BY <1>6, <1>7, <2>0, <2>2, <3>1
  <2>5. ASSUME NEW u \in Team, jobs[u] # NoJob
        PROVE  /\ TeamType[u] = "verification" /\ requested'[jobs[u].order] = jobs[u].claim
               /\ status'[u] = "transit" \/ order'[u] = NoOrder
    <3>1. CASE u = t
      <4>1. TeamType[t] = "verification"
        BY <1>5, <1>10 DEF Compatible
      <4> QED BY <1>5, <1>10, <2>3, <2>4, <3>1, <4>1
    <3>2. CASE u # t
      <4>1. jobs[u] = job[u]
        BY <2>3, <3>2
      <4> QED BY <1>3, <1>8, <2>4, <2>5, <4>1 DEF CommandKeeps
    <3> QED BY <3>1, <3>2
  <2>6. ASSUME NEW o \in OrderId, requested'[o] # NoClaim, arrivedAt'[o] = NoTick,
               cancelledAt'[o] = NoTick, o \notin forgotten
        PROVE  WaitsFor(jobs, dispatched'[o].team, o)
    <3>1. CASE o = n
      <4>1. order'[t] # NoOrder
        BY <1>1, <1>5, <1>10, NullAssumption
      <4> QED BY <1>5, <1>10, <2>1, <2>3, <3>1, <4>1 DEF WaitsFor, SameWork
    <3>2. CASE o # n
      <4>1. /\ dispatched'[o].team \in Team /\ WaitsFor(job, dispatched'[o].team, o)
            /\ order'[dispatched'[o].team].id = o
        BY <1>9, <2>4, <2>6, <3>2
      <4>2. dispatched'[o].team # t
        BY <1>5, <1>10, <3>2, <4>1
      <4> QED BY <2>3, <4>1, <4>2 DEF WaitsFor
    <3> QED BY <3>1, <3>2
  <2>7. ASSUME NEW o \in OrderId
        PROVE  /\ o <= orderSeq => requested'[o] = requested[o]
               /\ requested'[o] # NoClaim => o <= orderSeq'
    BY <1>5, <1>6, <1>7, <1>10, <2>4
  <2> QED BY <1>3, <1>4, <1>6, <2>2, <2>3, <2>4, <2>5, <2>6, <2>7, CommandJobs
<1>11. CASE ~Accepted
  <2>1. jobs = [job EXCEPT ![t] = NoJob] /\ requested' = requested
    BY <1>4, <1>11 DEF Targeting
  <2>2. jobs \in [Team -> Job \cup {NoJob}] /\ jobs[t] = NoJob
        /\ \A u \in Team : u # t => jobs[u] = job[u]
    BY <1>6, <2>1
  <2> HIDE DEF jobs
  <2>3. forgotten \subseteq forgotten' /\ forgotten' \subseteq OrderId
        /\ (job[t] # NoJob => job[t].order \in forgotten')
    BY <1>4, <1>6, <1>8, <1>11
  <2>4. ASSUME NEW u \in Team, jobs[u] # NoJob
        PROVE  /\ TeamType[u] = "verification" /\ requested'[jobs[u].order] = jobs[u].claim
               /\ status'[u] = "transit" \/ order'[u] = NoOrder
    BY <1>3, <1>8, <2>1, <2>2, <2>4 DEF CommandKeeps
  <2>5. ASSUME NEW o \in OrderId, requested'[o] # NoClaim, arrivedAt'[o] = NoTick,
               cancelledAt'[o] = NoTick, o \notin forgotten'
        PROVE  WaitsFor(jobs, dispatched'[o].team, o)
    <3>1. dispatched'[o].team \in Team /\ WaitsFor(job, dispatched'[o].team, o)
      BY <1>9, <2>1, <2>3, <2>5
    <3>2. dispatched'[o].team # t
      BY <2>3, <2>5, <3>1 DEF WaitsFor
    <3> QED BY <2>2, <3>1, <3>2 DEF WaitsFor
  <2>6. ASSUME NEW o \in OrderId
        PROVE  /\ o <= orderSeq => requested'[o] = requested[o]
               /\ requested'[o] # NoClaim => o <= orderSeq'
    BY <1>3, <1>6, <1>7, <2>1 DEF CommandKeeps
  <2> QED BY <1>3, <1>4, <1>6, <2>1, <2>2, <2>3, <2>4, <2>5, <2>6, CommandJobs
<1> QED BY <1>10, <1>11

(* What is known of a job that waits: its team holds its order and travels.*)
LEMMA JobFacts ==
  ASSUME JobInv, IInv, NEW u \in Team, job[u] # NoJob
  PROVE  /\ job[u] \in Job /\ job[u].order \in OrderId /\ job[u].claim \in Claim
         /\ TeamType[u] = "verification" /\ status[u] = "transit"
         /\ requested[job[u].order] = job[u].claim
         /\ order[u] # NoOrder /\ order[u].id = job[u].order
         /\ order[u].target = job[u].target /\ order[u].task = "verify"
<1>1. job[u] \in Job
  BY DEF JobInv
<1>2. job[u].order \in OrderId /\ job[u].claim \in Claim
  BY <1>1 DEF Job
<1>3. /\ TeamType[u] = "verification" /\ status[u] = "transit" /\ order[u].id = job[u].order
      /\ order[u].target = job[u].target /\ order[u].task = "verify"
      /\ requested[job[u].order] = job[u].claim
  BY DEF JobInv, JobBoundToLiveOrder
<1>4. order[u] # NoOrder
  BY <1>3 DEF IInv, StatusMatchesOrder, StatusFits
<1> QED BY <1>1, <1>2, <1>3, <1>4

(* A tick answers the verifications of the teams that arrive, for their    *)
(* own orders and at this tick, and leaves the others waiting.             *)
LEMMA AdvanceJobs ==
  ASSUME JobInv, IInv, IInv', Advance
  PROVE  JobInv'
<1>1. /\ Step /\ job' = Remaining(job) /\ resolved' = resolved \cup Answers(job)
      /\ requested' = requested /\ forgotten' = forgotten
  BY DEF Advance, Publish, Answers
<1>2. /\ tick' \in Nat /\ UNCHANGED <<order, dispatched, cancelledAt, orderSeq>>
      /\ \A t \in Arriving :
           /\ t \in Team /\ order[t] # NoOrder /\ order[t].id \in OrderId
           /\ status'[t] = "working" /\ arrivedAt[order[t].id] = NoTick
           /\ arrivedAt'[order[t].id] = tick'
      /\ \A t \in Team : t \notin Arriving => status'[t] = status[t]
      /\ \A o \in OrderId : (\A t \in Arriving : order[t].id # o) => arrivedAt'[o] = arrivedAt[o]
  BY <1>1, StepFacts
<1>3. /\ job \in [Team -> Job \cup {NoJob}] /\ requested \in [OrderId -> Claim \cup {NoClaim}]
      /\ resolved \subseteq [order : OrderId, claim : Claim, at : Nat]
      /\ forgotten \subseteq OrderId /\ NoTick \notin Nat
  BY NullAssumption DEF JobInv
<1>4. \A o \in OrderId : arrivedAt[o] # NoTick => arrivedAt'[o] = arrivedAt[o]
  BY <1>2
<1>5. ASSUME NEW u \in Team, job[u] # NoJob
      PROVE  SameWork(u, job[u]) /\ (u \in Finished(job) <=> u \in Arriving)
  BY <1>2, <1>5, JobFacts DEF SameWork, Finished
<1>6. job' \in [Team -> Job \cup {NoJob}] /\ JobBoundToLiveOrder'
  <2>1. \A t \in Team : job[t] # NoJob =>
          TeamType[t] = "verification" /\ requested'[job[t].order] = job[t].claim
    BY <1>1, JobFacts
  <2> QED BY <1>1, <1>3, <2>1, PublishBinds
<1>7. ASSUME NEW r \in Answers(job)
      PROVE  /\ r \in [order : OrderId, claim : Claim, at : Nat]
             /\ requested[r.order] = r.claim /\ r.at = arrivedAt'[r.order]
  <2>1. PICK t \in Finished(job) :
           r = [order |-> job[t].order, claim |-> job[t].claim, at |-> tick']
    BY DEF Answers
  <2>2. t \in Team /\ job[t] # NoJob
    BY DEF Finished
  <2>3. t \in Arriving
    BY <1>5, <2>2
  <2>4. /\ job[t].order \in OrderId /\ job[t].claim \in Claim
        /\ requested[job[t].order] = job[t].claim /\ order[t].id = job[t].order
    BY <2>2, JobFacts
  <2>5. arrivedAt'[job[t].order] = tick'
    BY <1>2, <2>3, <2>4
  <2> QED BY <1>2, <2>1, <2>4, <2>5
<1>8. ResolvedByOwnOrder'
  <2> SUFFICES ASSUME NEW r \in resolved \cup Answers(job)
               PROVE  requested[r.order] = r.claim /\ r.at = arrivedAt'[r.order]
    BY <1>1 DEF ResolvedByOwnOrder
  <2>1. CASE r \in resolved
    <3>1. requested[r.order] = r.claim /\ r.at = arrivedAt[r.order]
      BY <2>1 DEF JobInv, ResolvedByOwnOrder
    <3>2. r.order \in OrderId /\ r.at \in Nat
      BY <1>3, <2>1
    <3> QED BY <1>3, <1>4, <3>1, <3>2
  <2> QED BY <1>7, <2>1
<1>9. RequestsWait'
  <2> SUFFICES ASSUME NEW o \in OrderId, requested[o] # NoClaim
               PROVE  /\ o <= orderSeq'
                      /\ arrivedAt'[o] = NoTick /\ cancelledAt'[o] = NoTick =>
                           Waits(o)' \/ o \in forgotten
    BY <1>1 DEF RequestsWait
  <2>1. o <= orderSeq'
    BY <1>2 DEF JobInv, RequestsWait
  <2>2. ASSUME arrivedAt'[o] = NoTick, cancelledAt'[o] = NoTick, o \notin forgotten
        PROVE  Waits(o)'
    <3> DEFINE t == dispatched[o].team
    <3>1. arrivedAt[o] = NoTick /\ cancelledAt[o] = NoTick
      BY <1>2, <1>4, <2>2
    <3>2. job[t] # NoJob /\ job[t].order = o
      BY <2>2, <3>1 DEF JobInv, RequestsWait, Waits
    <3>3. t \in Team /\ status'[t] = "transit"
      BY <1>2, <2>1, <2>2, StillTravellingNext
    <3>4. SameWork(t, job[t]) /\ t \notin Finished(job)
      BY <1>5, <3>2, <3>3 DEF Finished
    <3>5. job'[t] = job[t]
      BY <1>1, <3>2, <3>3, <3>4 DEF Remaining
    <3>6. dispatched'[o].team = t
      BY <1>2
    <3> QED BY <3>2, <3>5, <3>6 DEF Waits
  <2> QED BY <2>1, <2>2
<1>10. AnsweredUnlessForgotten'
  <2> SUFFICES ASSUME NEW o \in OrderId, requested[o] # NoClaim, arrivedAt'[o] # NoTick,
                      o \notin forgotten
               PROVE  \E r \in resolved \cup Answers(job) : r.order = o
    BY <1>1 DEF AnsweredUnlessForgotten
  <2>1. CASE arrivedAt[o] # NoTick
    BY <2>1 DEF JobInv, AnsweredUnlessForgotten
  <2>2. CASE arrivedAt[o] = NoTick
    <3>1. PICK t \in Arriving : order[t].id = o
      BY <1>2, <2>2
    <3>2. t \in Team /\ order[t] # NoOrder
      BY <1>2
    <3>3. dispatched[o].team = t /\ cancelledAt[o] = NoTick
      BY <3>1, <3>2 DEF IInv, HeldOrderIsLatest, LatestOf
    <3>4. job[t] # NoJob /\ job[t].order = o
      BY <2>2, <3>3 DEF JobInv, RequestsWait, Waits
    <3>5. t \in Finished(job)
      BY <1>5, <3>2, <3>4
    <3>6. [order |-> job[t].order, claim |-> job[t].claim, at |-> tick'] \in Answers(job)
      BY <3>5 DEF Answers
    <3> QED BY <3>4, <3>6
  <2> QED BY <2>1, <2>2
<1>11. resolved' \subseteq [order : OrderId, claim : Claim, at : Nat]
  BY <1>1, <1>3, <1>7
<1> QED BY <1>1, <1>3, <1>6, <1>8, <1>9, <1>10, <1>11 DEF JobInv

(* A restart forgets every verification that waits. *)
LEMMA ResumeJobs ==
  ASSUME JobInv, IInv, Resume
  PROVE  JobInv'
<1>1. /\ job' = [t \in Team |-> NoJob]
      /\ forgotten' = forgotten \cup {job[t].order : t \in {u \in Team : job[u] # NoJob}}
      /\ UNCHANGED <<requested, resolved, orderSeq, arrivedAt, cancelledAt, dispatched>>
  BY DEF Resume, engineVars
<1>2. forgotten' \subseteq OrderId
  <2>1. \A u \in Team : job[u] # NoJob => job[u].order \in OrderId
    BY JobFacts
  <2> QED BY <1>1, <2>1 DEF JobInv
<1>3. JobBoundToLiveOrder' /\ job' \in [Team -> Job \cup {NoJob}]
  BY <1>1 DEF JobBoundToLiveOrder
<1>4. ResolvedByOwnOrder'
  BY <1>1 DEF JobInv, ResolvedByOwnOrder
<1>5. RequestsWait'
  <2> SUFFICES ASSUME NEW o \in OrderId, requested[o] # NoClaim
               PROVE  /\ o <= orderSeq
                      /\ arrivedAt[o] = NoTick /\ cancelledAt[o] = NoTick => o \in forgotten'
    BY <1>1 DEF RequestsWait
  <2>1. o <= orderSeq
    BY DEF JobInv, RequestsWait
  <2>2. ASSUME arrivedAt[o] = NoTick, cancelledAt[o] = NoTick, o \notin forgotten
        PROVE  o \in forgotten'
    <3>1. Waits(o) /\ dispatched[o].team \in Team
      BY <2>1, <2>2, StillTravelling DEF JobInv, RequestsWait
    <3> QED BY <1>1, <3>1 DEF Waits
  <2> QED BY <1>1, <2>1, <2>2
<1>6. AnsweredUnlessForgotten'
  BY <1>1 DEF JobInv, AnsweredUnlessForgotten
<1> QED BY <1>1, <1>2, <1>3, <1>4, <1>5, <1>6 DEF JobInv

(* Every handler keeps what is known of the verifications. *)
LEMMA NextJobs ==
  ASSUME JobInv, IInv, [HubNext]_hubVars
  PROVE  JobInv'
<1>1. IInv'
  BY HandlersStepEngine, NextInvariant
<1>2. CASE Command
  BY <1>1, <1>2, PlainCommandJobs
<1>3. ASSUME NEW t \in Team, NEW c \in Claim, NEW k \in Key, RequestVerification(t, c, k)
      PROVE  JobInv'
  BY <1>1, <1>3, RequestJobs
<1>4. CASE Advance
  BY <1>1, <1>4, AdvanceJobs
<1>5. CASE Resume
  BY <1>5, ResumeJobs
<1>6. CASE UNCHANGED <<engineVars, job, hubHistory>>
  BY <1>6 DEF JobInv, engineVars, hubHistory, JobBoundToLiveOrder, ResolvedByOwnOrder,
              RequestsWait, Waits, AnsweredUnlessForgotten
<1>7. ASSUME NEW c \in Claim, Assess(c) PROVE UNCHANGED <<engineVars, job, hubHistory>>
  BY <1>7 DEF Assess
<1>8. CASE UNCHANGED hubVars
  BY <1>6, <1>8 DEF hubVars
<1> QED BY <1>2, <1>3, <1>4, <1>5, <1>6, <1>7, <1>8 DEF HubNext

\* A new session has no verification job.
LEMMA InitJobs ==
  ASSUME HubInit
  PROVE  JobInv
BY DEF HubInit, Init, JobInv, JobBoundToLiveOrder, ResolvedByOwnOrder, RequestsWait,
       AnsweredUnlessForgotten

\* The engine's invariant and that of the jobs hold in every session.
LEMMA JobsAlways == HubSpec => [](IInv /\ JobInv)
<1>1. HubInit => IInv /\ JobInv
  BY InitInvariant, InitJobs DEF HubInit
<1>2. IInv /\ JobInv /\ [HubNext]_hubVars => (IInv /\ JobInv)'
  BY HandlersStepEngine, NextInvariant, NextJobs
<1> QED BY <1>1, <1>2, PTL DEF HubSpec

(* A waiting verification belongs to the order its team travels for. *)
THEOREM JobsBound == HubSpec => []JobBoundToLiveOrder
<1>1. IInv /\ JobInv => JobBoundToLiveOrder
  BY DEF JobInv
<1> QED BY <1>1, JobsAlways, PTL

(* A verification is answered for the claim its order was requested for,   *)
(* at the tick that order arrives.                                         *)
THEOREM AnswersAreTheirs == HubSpec => []ResolvedByOwnOrder
<1>1. IInv /\ JobInv => ResolvedByOwnOrder
  BY DEF JobInv
<1> QED BY <1>1, JobsAlways, PTL

(* An accepted verification whose team arrives is answered, unless a later *)
(* rejected request of that team or a restart made the server forget it.   *)
THEOREM ArrivalsAreAnswered == HubSpec => []AnsweredUnlessForgotten
<1>1. IInv /\ JobInv => AnsweredUnlessForgotten
  BY DEF JobInv
<1> QED BY <1>1, JobsAlways, PTL

(* The sequence of a finite set shows each of its elements once. *)
LEMMA SetToSeqShows ==
  ASSUME NEW S, IsFiniteSet(S)
  PROVE  /\ Cardinality(S) \in Nat
         /\ SetToSeq(S) \in Seq(S)
         /\ Len(SetToSeq(S)) = Cardinality(S)
         /\ \A i, j \in 1 .. Cardinality(S) : SetToSeq(S)[i] = SetToSeq(S)[j] => i = j
         /\ \A x \in S : \E i \in 1 .. Cardinality(S) : SetToSeq(S)[i] = x
<1> DEFINE D == 1 .. Cardinality(S)
           seq == SetToSeq(S)
<1>1. Cardinality(S) \in Nat /\ ExistsBijection(D, S)
  BY FS_CardinalityType
<1>2. \E f \in [D -> S] : IsInjective(f)
  BY <1>1 DEF ExistsBijection, Bijection, Injection, Surjection
<1>3. seq \in [D -> S] /\ IsInjective(seq)
  BY <1>2 DEF SetToSeq
<1> HIDE DEF seq
<1>4. IsFiniteSet(D) /\ Cardinality(D) = Cardinality(S)
  BY <1>1, FS_Interval
<1>5. seq \in Injection(D, S)
  BY <1>3 DEF Injection
<1>6. seq \in Surjection(D, S)
  BY <1>4, <1>5, FS_Injection
<1>7. seq \in Seq(S) /\ Len(seq) = Cardinality(S)
  BY <1>1, <1>3
<1>8. \A i, j \in D : seq[i] = seq[j] => i = j
  BY <1>3 DEF IsInjective
<1>9. \A x \in S : \E i \in D : seq[i] = x
  BY <1>6 DEF Surjection
<1> QED BY <1>1, <1>7, <1>8, <1>9 DEF seq


----------------------------------------------------------------------------
(***************************************************************************)
(* The players' view.  It is a fold over the pushed events, and the claims *)
(* are folds over deliveries and verdicts: the laws of FoldLaws hold of    *)
(* each.                                                                   *)
(***************************************************************************)
Views      == INSTANCE FoldLaws WITH Op <- LAMBDA p, v, e : Apply(v, e)
Deliveries == INSTANCE FoldLaws WITH Op <- LAMBDA p, c, o : WithDelivered(c, o, p)
Outcomes   == INSTANCE FoldLaws WITH Op <- LAMBDA p, c, a : WithOutcome(c, a, p)

(* The view after some events is a fold of them. *)
LEMMA ViewIsFold ==
  ASSUME NEW v, NEW s
  PROVE  FoldLeft(Apply, v, s) = Views!Fold(0, v, s)
BY DEF Views!Fold, Views!Highest, FoldLeft, MapThenFoldSet, Max

(* The claims after some deliveries are a fold of them. *)
LEMMA ClaimsAfterIsFold ==
  ASSUME NEW cs, NEW s, NEW known
  PROVE  ClaimsAfter(cs, s, known) = Deliveries!Fold(known, cs, s)
BY DEF ClaimsAfter, Deliveries!Fold, Deliveries!Highest, FoldLeft, MapThenFoldSet, Max

(* The claims after some verdicts are a fold of them. *)
LEMMA ClaimsResolvedIsFold ==
  ASSUME NEW cs, NEW s, NEW known
  PROVE  ClaimsResolved(cs, s, known) = Outcomes!Fold(known, cs, s)
BY DEF ClaimsResolved, Outcomes!Fold, Outcomes!Highest, FoldLeft, MapThenFoldSet, Max

(* Claims as the bridge keeps them: evidence is filed under its claim. *)
ClaimsShown ==
  {cs \in [Claim -> ClaimRecord \cup {NoClaim}] :
     \A c \in Claim : cs[c] # NoClaim => cs[c].evidence \subseteq {o \in Obs : ClaimOf[o] = c}}

(* The player events but the last one of a run. *)
PlainEvent == {e \in PlayerEvent : e.kind # "RunCompleted"}

(* A delivery changes the claim of its observation. *)
LEMMA DeliveredShown ==
  ASSUME NEW cs \in ClaimsShown, NEW o \in Obs, NEW known, known[o] \in Variants[o]
  PROVE  /\ WithDelivered(cs, o, known) \in ClaimsShown
         /\ ClaimOf[o] \in Claim
         /\ WithDelivered(cs, o, known)
              = [cs EXCEPT ![ClaimOf[o]] = WithDelivered(cs, o, known)[ClaimOf[o]]]
<1> DEFINE c == ClaimOf[o]
           new == Upsert(cs[c], o, known[o].text)
<1>1. c \in Claim /\ cs[c] \in ClaimRecord \cup {NoClaim}
      /\ (cs[c] # NoClaim => cs[c].evidence \subseteq {p \in Obs : ClaimOf[p] = c})
  BY ClaimAssumption DEF ClaimsShown
<1>2. WithDelivered(cs, o, known) = [cs EXCEPT ![c] = new]
  BY DEF WithDelivered
<1>3. known[o].text \in {v.text : v \in Variant}
  BY DEF Variant
<1>4. new \in ClaimRecord /\ new.evidence \subseteq {p \in Obs : ClaimOf[p] = c}
  <2>1. CASE cs[c] = NoClaim
    <3>1. new = [value |-> known[o].text, status |-> "reported", evidence |-> {o}]
      BY <2>1 DEF Upsert
    <3> QED BY <1>3, <3>1 DEF ClaimRecord, ClaimStatus
  <2>2. CASE cs[c] # NoClaim
    <3> DEFINE evidence == cs[c].evidence \cup {o}
               st == EvidenceStatus(cs[c], known[o].text, Cardinality(evidence))
    <3>1. new = [value |-> known[o].text, status |-> st, evidence |-> evidence]
      BY <2>2 DEF Upsert
    <3>2. st \in ClaimStatus
      BY <1>1, <2>2 DEF EvidenceStatus, ClaimStatus, ClaimRecord
    <3> QED BY <1>1, <1>3, <2>2, <3>1, <3>2 DEF ClaimRecord
  <2> QED BY <2>1, <2>2
<1> HIDE DEF c, new
<1>5. [cs EXCEPT ![c] = new] \in ClaimsShown
  BY <1>1, <1>4 DEF ClaimsShown
<1>6. [cs EXCEPT ![c] = new][c] = new
  BY <1>1 DEF ClaimsShown
<1> QED BY <1>1, <1>2, <1>5, <1>6 DEF c

(* A verdict sets the status of a claim that has evidence. *)
LEMMA OutcomeShown ==
  ASSUME NEW cs \in ClaimsShown, NEW c \in Claim, NEW known
  PROVE  /\ WithOutcome(cs, c, known) \in ClaimsShown
         /\ Outcome(c, cs, known) \in Verdict \cup {"inconclusive"}
         /\ Outcome(c, cs, known) = "inconclusive" => WithOutcome(cs, c, known) = cs
         /\ Outcome(c, cs, known) # "inconclusive" =>
              /\ WithOutcome(cs, c, known)
                   = [cs EXCEPT ![c] = [cs[c] EXCEPT !.status = Outcome(c, cs, known)]]
              /\ [cs[c] EXCEPT !.status = Outcome(c, cs, known)] \in ClaimRecord
<1> DEFINE outcome == Outcome(c, cs, known)
           new == [cs[c] EXCEPT !.status = outcome]
<1>1. outcome \in Verdict \cup {"inconclusive"} /\ (outcome # "inconclusive" => cs[c] # NoClaim)
  BY DEF Outcome, Verdict
<1>2. CASE outcome = "inconclusive"
  BY <1>2 DEF WithOutcome
<1>3. CASE outcome # "inconclusive"
  <2>1. WithOutcome(cs, c, known) = [cs EXCEPT ![c] = new]
    BY <1>3 DEF WithOutcome
  <2>2. cs[c] \in ClaimRecord /\ cs[c].evidence \subseteq {p \in Obs : ClaimOf[p] = c}
    BY <1>1, <1>3 DEF ClaimsShown
  <2>3. outcome \in ClaimStatus
    BY <1>1, <1>3 DEF ClaimStatus
  <2> HIDE DEF outcome
  <2>4. new \in ClaimRecord /\ new.evidence = cs[c].evidence
    BY <2>2, <2>3 DEF ClaimRecord
  <2>5. [cs EXCEPT ![c] = new] \in ClaimsShown
    <3> HIDE DEF new
    <3> QED BY <2>2, <2>4 DEF ClaimsShown
  <2> QED BY <1>1, <1>3, <2>1, <2>4, <2>5 DEF outcome
<1> QED BY <1>1, <1>2, <1>3

(* The claims that a batch of deliveries goes through. *)
LEMMA ClaimsClimb ==
  ASSUME NEW cs \in ClaimsShown, NEW known, NEW seq \in Seq(Obs),
         \A i \in 1 .. Len(seq) : known[seq[i]] \in Variants[seq[i]]
  PROVE  \E g : /\ g[0] = cs
                /\ \A k \in 1 .. Len(seq) : g[k] = WithDelivered(g[k - 1], seq[k], known)
                /\ \A k \in 0 .. Len(seq) : g[k] \in ClaimsShown
                /\ \A k \in 1 .. Len(seq) : ClaimsAfter(cs, SubSeq(seq, 1, k), known) = g[k]
                /\ ClaimsAfter(cs, seq, known) = g[Len(seq)]
<1>1. PICK g : Deliveries!Through(known, cs, seq, g)
               /\ Deliveries!Fold(known, cs, seq) = g[Len(seq)]
  BY Deliveries!FoldGoesThrough
<1>2. g[0] = cs /\ \A k \in 1 .. Len(seq) : g[k] = WithDelivered(g[k - 1], seq[k], known)
  BY <1>1 DEF Deliveries!Through
<1>3. \A k \in 0 .. Len(seq) : g[k] \in ClaimsShown
  <2> DEFINE T == {k \in Nat : g[k] \in ClaimsShown}
  <2>1. 0 \in T
    BY <1>2
  <2>2. ASSUME NEW n \in 0 .. Len(seq) - 1, n \in T PROVE n + 1 \in T
    <3>1. n + 1 \in 1 .. Len(seq) /\ (n + 1) - 1 = n /\ n + 1 \in Nat
      OBVIOUS
    <3>2. seq[n + 1] \in Obs /\ known[seq[n + 1]] \in Variants[seq[n + 1]]
      BY <3>1
    <3>3. g[n + 1] = WithDelivered(g[n], seq[n + 1], known)
      BY <1>2, <3>1
    <3> QED BY <2>2, <3>1, <3>2, <3>3, DeliveredShown
  <2>3. Len(seq) \in Nat
    OBVIOUS
  <2>4. \A n \in 0 .. Len(seq) : n \in T
    <3> HIDE DEF T
    <3> QED BY <2>1, <2>2, <2>3, Deliveries!UpTo
  <2> QED BY <2>4
<1>4. ASSUME NEW k \in 1 .. Len(seq)
      PROVE  ClaimsAfter(cs, SubSeq(seq, 1, k), known) = g[k]
  <2> DEFINE s == SubSeq(seq, 1, k)
  <2>1. s \in Seq(Obs) /\ Len(s) = k /\ \A i \in 1 .. k : s[i] = seq[i]
    OBVIOUS
  <2> HIDE DEF s
  <2>2. Deliveries!Through(known, cs, s, g)
    BY <1>2, <2>1 DEF Deliveries!Through
  <2>3. Deliveries!Fold(known, cs, s) = g[k]
    BY <2>1, <2>2, Deliveries!FoldIsEnd
  <2> QED BY <2>3, ClaimsAfterIsFold DEF s
<1>5. ClaimsAfter(cs, seq, known) = g[Len(seq)]
  BY <1>1, ClaimsAfterIsFold
<1> QED BY <1>2, <1>3, <1>4, <1>5

(* One event. *)
LEMMA OneEvent ==
  ASSUME NEW v, NEW e \in PlayerEvent
  PROVE  Views!Fold(0, v, <<e>>) = Apply(v, e)
<1>1. /\ Views!Fold(0, v, <<e>>) = Apply(v, e)
      /\ Views!Fold(0, v, <<e, e>>) = Apply(Apply(v, e), e)
  BY Views!FoldShort
<1> QED BY <1>1

(* One or two events. *)
LEMMA ShortFolds ==
  ASSUME NEW v, NEW e \in PlainEvent, NEW f \in PlainEvent
  PROVE  /\ Views!Fold(0, v, <<e>>) = Apply(v, e)
         /\ Views!Fold(0, v, <<e, f>>) = Apply(Apply(v, e), f)
BY Views!FoldShort

(***************************************************************************)
(* One event of each kind, applied to a view of known content.             *)
(***************************************************************************)

(* Evidence is noted; the rest of the view stays. *)
LEMMA ApplyEvidence ==
  ASSUME NEW ph, NEW teams, NEW roads, NEW cs, NEW v \in Showing(ph, teams, roads, cs),
         NEW o \in Obs
  PROVE  Apply(v, [kind |-> "EvidenceRecorded", obs |-> o]) \in Showing(ph, teams, roads, cs)
<1>1. Apply(v, [kind |-> "EvidenceRecorded", obs |-> o]) = NewEvidence(v, o)
  BY DEF Apply
<1> QED BY <1>1 DEF NewEvidence, Showing

(* A claim is shown as the event has it. *)
LEMMA ApplyClaim ==
  ASSUME NEW ph, NEW teams, NEW roads, NEW cs, NEW v \in Showing(ph, teams, roads, cs),
         NEW c \in Claim, NEW r
  PROVE  Apply(v, [kind |-> "ClaimUpdated", about |-> c, claim |-> r])
           \in Showing(ph, teams, roads, [cs EXCEPT ![c] = r])
<1>1. Apply(v, [kind |-> "ClaimUpdated", about |-> c, claim |-> r]) = [v EXCEPT !.claims[c] = r]
  BY DEF Apply
<1> QED BY <1>1 DEF Showing

(* The verdict behind a claim that already has its status adds nothing to  *)
(* the claims.                                                             *)
LEMMA ApplyVerdict ==
  ASSUME NEW ph, NEW teams, NEW roads, NEW cs \in ClaimsShown,
         NEW v \in Showing(ph, teams, roads, cs),
         NEW c \in Claim, NEW outcome \in Verdict \cup {"inconclusive"},
         outcome # "inconclusive" => cs[c] \in ClaimRecord /\ cs[c].status = outcome
  PROVE  Apply(v, [kind |-> "VerificationResolved", about |-> c, outcome |-> outcome])
           \in Showing(ph, teams, roads, cs)
<1> DEFINE w == NewVerdict(v, c, outcome)
           seen == [o \in Obs |-> IF outcome = "verified" /\ ClaimOf[o] = c /\ v.evidence[o] # "none"
                                  THEN "verified" ELSE v.evidence[o]]
           r == IF outcome = "inconclusive" THEN cs[c] ELSE [cs[c] EXCEPT !.status = outcome]
<1>1. Apply(v, [kind |-> "VerificationResolved", about |-> c, outcome |-> outcome]) = w
  BY DEF Apply
<1>2. v.claims = cs /\ v.evidence \in [Obs -> {"none", "recorded", "verified"}]
  BY DEF Showing
<1>3. r = cs[c]
  BY DEF ClaimRecord
<1>4. [cs EXCEPT ![c] = cs[c]] = cs
  BY DEF ClaimsShown
<1>5. seen \in [Obs -> {"none", "recorded", "verified"}]
  BY <1>2
<1>6. w = [v EXCEPT !.claims = [cs EXCEPT ![c] = r], !.evidence = seen]
  BY <1>2 DEF NewVerdict, Showing
<1> HIDE DEF w, seen, r
<1>7. w = [v EXCEPT !.claims = cs, !.evidence = seen]
  BY <1>3, <1>4, <1>6
<1>8. w \in Showing(ph, teams, roads, cs)
  BY <1>5, <1>7 DEF Showing
<1> QED BY <1>1, <1>8

(* A team is shown as the event has it. *)
LEMMA ApplyTeam ==
  ASSUME NEW ph, NEW teams, NEW roads, NEW cs, NEW v \in Showing(ph, teams, roads, cs),
         NEW t \in Team, NEW shown
  PROVE  Apply(v, [kind |-> "OwnTeamUpdated", of |-> t, team |-> shown])
           \in Showing(ph, [teams EXCEPT ![t] = shown], roads, cs)
<1>1. Apply(v, [kind |-> "OwnTeamUpdated", of |-> t, team |-> shown])
        = [v EXCEPT !.teams[t] = shown]
  BY DEF Apply
<1> QED BY <1>1 DEF Showing

(* The roads are shown as the event has them. *)
LEMMA ApplyRoads ==
  ASSUME NEW ph, NEW teams, NEW roads, NEW cs, NEW v \in Showing(ph, teams, roads, cs), NEW r
  PROVE  Apply(v, [kind |-> "KnownRoutesUpdated", closed |-> r]) \in Showing(ph, teams, r, cs)
<1>1. Apply(v, [kind |-> "KnownRoutesUpdated", closed |-> r]) = [v EXCEPT !.closed = r]
  BY DEF Apply
<1> QED BY <1>1 DEF Showing

(* An assessment, the end of the run and the result of a command. *)
LEMMA AppliedRest ==
  ASSUME NEW ph, NEW teams, NEW roads, NEW cs, NEW v \in Showing(ph, teams, roads, cs)
  PROVE  /\ \A c \in Claim : Apply(v, [kind |-> "AssessmentSubmitted", about |-> c])
              \in Showing(ph, teams, roads, cs)
         /\ Apply(v, [kind |-> "RunCompleted"]) \in Showing("completed", teams, roads, cs)
         /\ Apply(v, [kind |-> "CommandResult"]) \in Showing(ph, teams, roads, cs)
<1>1. ASSUME NEW c \in Claim
      PROVE  Apply(v, [kind |-> "AssessmentSubmitted", about |-> c])
               = [v EXCEPT !.assessed = v.assessed \cup {c}]
  BY DEF Apply
<1>2. Apply(v, [kind |-> "RunCompleted"]) = [v EXCEPT !.phase = "completed"]
  BY DEF Apply
<1>3. Apply(v, [kind |-> "CommandResult"]) = v
  BY DEF Apply
<1>4. \A c \in Claim : [v EXCEPT !.assessed = v.assessed \cup {c}] \in Showing(ph, teams, roads, cs)
  BY DEF Showing
<1>5. [v EXCEPT !.phase = "completed"] \in Showing("completed", teams, roads, cs)
  BY DEF Showing
<1> QED BY <1>1, <1>2, <1>3, <1>4, <1>5

----------------------------------------------------------------------------
(* The events of delivered observations lead the view from the claims      *)
(* before to the claims after.                                             *)
LEMMA DeliveryShown ==
  ASSUME NEW ph, NEW teams, NEW roads, NEW cs \in ClaimsShown,
         NEW v \in Showing(ph, teams, roads, cs),
         NEW known, NEW seq \in Seq(Obs),
         \A i \in 1 .. Len(seq) : known[seq[i]] \in Variants[seq[i]]
  PROVE  /\ DeliveryEvents(cs, seq, known) \in Seq(PlainEvent)
         /\ ClaimsAfter(cs, seq, known) \in ClaimsShown
         /\ Views!Fold(0, v, DeliveryEvents(cs, seq, known))
              \in Showing(ph, teams, roads, ClaimsAfter(cs, seq, known))
<1>1. PICK g : /\ g[0] = cs
               /\ \A k \in 1 .. Len(seq) : g[k] = WithDelivered(g[k - 1], seq[k], known)
               /\ \A k \in 0 .. Len(seq) : g[k] \in ClaimsShown
               /\ \A k \in 1 .. Len(seq) : ClaimsAfter(cs, SubSeq(seq, 1, k), known) = g[k]
               /\ ClaimsAfter(cs, seq, known) = g[Len(seq)]
  BY ClaimsClimb
<1> DEFINE N == Len(seq)
           heard(k) == [kind |-> "EvidenceRecorded", obs |-> seq[k]]
           told(k) == [kind |-> "ClaimUpdated", about |-> ClaimOf[seq[k]],
                       claim |-> g[k][ClaimOf[seq[k]]]]
           pairs == [k \in 1 .. N |-> <<heard(k), told(k)>>]
           V == [k \in 0 .. N |-> Showing(ph, teams, roads, g[k])]
<1>2. N \in Nat
  OBVIOUS
<1>3. ASSUME NEW k \in 1 .. N
      PROVE  /\ seq[k] \in Obs /\ ClaimOf[seq[k]] \in Claim
             /\ k - 1 \in 0 .. N /\ k \in 0 .. N
             /\ g[k] = [g[k - 1] EXCEPT ![ClaimOf[seq[k]]] = g[k][ClaimOf[seq[k]]]]
  <2>1. seq[k] \in Obs /\ known[seq[k]] \in Variants[seq[k]] /\ k - 1 \in 0 .. N /\ k \in 0 .. N
    BY <1>2
  <2>2. g[k - 1] \in ClaimsShown /\ g[k] = WithDelivered(g[k - 1], seq[k], known)
    BY <1>1, <2>1
  <2>3. /\ ClaimOf[seq[k]] \in Claim
        /\ WithDelivered(g[k - 1], seq[k], known)
             = [g[k - 1] EXCEPT ![ClaimOf[seq[k]]] =
                  WithDelivered(g[k - 1], seq[k], known)[ClaimOf[seq[k]]]]
    BY <2>1, <2>2, DeliveredShown
  <2> QED BY <2>1, <2>2, <2>3, Zenon
<1>4. ASSUME NEW k \in 1 .. N
      PROVE  heard(k) \in PlainEvent /\ told(k) \in PlainEvent
  <2>1. g[k] \in ClaimsShown /\ ClaimOf[seq[k]] \in Claim
    BY <1>1, <1>3
  <2>2. g[k][ClaimOf[seq[k]]] \in ClaimRecord \cup {NoClaim}
    BY <2>1 DEF ClaimsShown
  <2> QED BY <1>3, <2>2 DEF PlainEvent, PlayerEvent
<1>5. DeliveryEvents(cs, seq, known) = FlattenSeq(pairs)
  BY <1>1, Zenon DEF DeliveryEvents
<1> HIDE DEF heard, told
<1>6. pairs \in Seq(Seq(PlainEvent)) /\ Len(pairs) = N
  BY <1>2, <1>4
<1>7. FlattenSeq(pairs) \in Seq(PlainEvent) /\ FlattenSeq(pairs) = Views!Joined(pairs)
  <2>1. FlattenSeq(pairs) = Views!Joined(pairs)
    BY DEF FlattenSeq, Views!Joined
  <2> HIDE DEF pairs
  <2> QED BY <1>6, <2>1, Views!FlattenIsSeq
<1>8. ASSUME NEW k \in 1 .. Len(pairs), NEW w \in V[k - 1]
      PROVE  Views!Fold(0, w, pairs[k]) \in V[k]
  <2>1. k \in 1 .. N
    BY <1>6
  <2>2. w \in Showing(ph, teams, roads, g[k - 1])
    BY <1>3, <1>8, <2>1
  <2>3. Apply(w, heard(k)) \in Showing(ph, teams, roads, g[k - 1])
    BY <1>3, <2>1, <2>2, ApplyEvidence DEF heard
  <2>4. Apply(Apply(w, heard(k)), told(k)) \in Showing(ph, teams, roads, g[k])
    <3> DEFINE c == ClaimOf[seq[k]]
               r == g[k][c]
    <3>1. c \in Claim /\ g[k] = [g[k - 1] EXCEPT ![c] = r]
      BY <1>3, <2>1
    <3>2. told(k) = [kind |-> "ClaimUpdated", about |-> c, claim |-> r]
      BY DEF told
    <3> HIDE DEF c, r
    <3>3. Apply(Apply(w, heard(k)), [kind |-> "ClaimUpdated", about |-> c, claim |-> r])
            \in Showing(ph, teams, roads, [g[k - 1] EXCEPT ![c] = r])
      BY <2>3, <3>1, ApplyClaim
    <3> QED BY <3>1, <3>2, <3>3
  <2>5. Views!Fold(0, w, <<heard(k), told(k)>>) = Apply(Apply(w, heard(k)), told(k))
    <3>1. heard(k) \in PlainEvent /\ told(k) \in PlainEvent
      BY <1>4, <2>1
    <3> QED BY <3>1, ShortFolds
  <2>6. pairs[k] = <<heard(k), told(k)>> /\ V[k] = Showing(ph, teams, roads, g[k])
    BY <1>3, <2>1
  <2> QED BY <2>4, <2>5, <2>6
<1>9. v \in V[0] /\ V[Len(pairs)] = Showing(ph, teams, roads, g[N])
  BY <1>1, <1>2, <1>6
<1> HIDE DEF V, pairs
<1>10. Views!Fold(0, v, Views!Joined(pairs)) \in V[Len(pairs)]
  BY <1>6, <1>8, <1>9, Views!FlattenClimbs
<1> QED BY <1>1, <1>2, <1>5, <1>7, <1>9, <1>10

(* The claims that the verdicts of one handler go through. *)
ThroughVerdicts(cs, asked, known, g) ==
  /\ g[0] = cs
  /\ \A k \in 1 .. Len(asked) : g[k] = WithOutcome(g[k - 1], asked[k], known)
  /\ \A k \in 0 .. Len(asked) : g[k] \in ClaimsShown
  /\ \A k \in 0 .. Len(asked) : ClaimsResolved(cs, SubSeq(asked, 1, k), known) = g[k]
  /\ ClaimsResolved(cs, asked, known) = g[Len(asked)]

(* There are such claims. *)
LEMMA OutcomesClimb ==
  ASSUME NEW cs \in ClaimsShown, NEW known, NEW asked \in Seq(Claim)
  PROVE  \E g : ThroughVerdicts(cs, asked, known, g)
<1>1. PICK g : Outcomes!Through(known, cs, asked, g)
               /\ Outcomes!Fold(known, cs, asked) = g[Len(asked)]
  BY Outcomes!FoldGoesThrough
<1>2. g[0] = cs /\ \A k \in 1 .. Len(asked) : g[k] = WithOutcome(g[k - 1], asked[k], known)
  BY <1>1 DEF Outcomes!Through
<1>3. \A k \in 0 .. Len(asked) : g[k] \in ClaimsShown
  <2> DEFINE T == {k \in Nat : g[k] \in ClaimsShown}
  <2>1. 0 \in T
    BY <1>2
  <2>2. ASSUME NEW n \in 0 .. Len(asked) - 1, n \in T PROVE n + 1 \in T
    <3>1. n + 1 \in 1 .. Len(asked) /\ (n + 1) - 1 = n /\ n + 1 \in Nat
      OBVIOUS
    <3>2. asked[n + 1] \in Claim
      BY <3>1
    <3>3. g[n + 1] = WithOutcome(g[n], asked[n + 1], known)
      BY <1>2, <3>1
    <3>4. g[n] \in ClaimsShown
      BY <2>2
    <3>5. WithOutcome(g[n], asked[n + 1], known) \in ClaimsShown
      BY <3>2, <3>4, OutcomeShown
    <3> QED BY <3>1, <3>3, <3>5
  <2>3. Len(asked) \in Nat
    OBVIOUS
  <2>4. \A n \in 0 .. Len(asked) : n \in T
    <3> HIDE DEF T
    <3> QED BY <2>1, <2>2, <2>3, Outcomes!UpTo
  <2> QED BY <2>4
<1>4. ASSUME NEW k \in 0 .. Len(asked)
      PROVE  ClaimsResolved(cs, SubSeq(asked, 1, k), known) = g[k]
  <2> DEFINE s == SubSeq(asked, 1, k)
  <2>1. s \in Seq(Claim) /\ Len(s) = k /\ \A i \in 1 .. k : s[i] = asked[i]
    OBVIOUS
  <2> HIDE DEF s
  <2>2. Outcomes!Through(known, cs, s, g)
    BY <1>2, <2>1 DEF Outcomes!Through
  <2>3. Outcomes!Fold(known, cs, s) = g[k]
    BY <2>1, <2>2, Outcomes!FoldIsEnd
  <2> QED BY <2>3, ClaimsResolvedIsFold DEF s
<1>5. ClaimsResolved(cs, asked, known) = g[Len(asked)]
  BY <1>1, ClaimsResolvedIsFold
<1> QED BY <1>2, <1>3, <1>4, <1>5 DEF ThroughVerdicts

(* Two sequences of one element, joined. *)
LEMMA JoinOnes ==
  ASSUME NEW S, NEW a \in S, NEW b \in S
  PROVE  <<a>> \o <<b>> = <<a, b>>
<1> DEFINE s == <<a>> \o <<b>>
<1>1. Len(s) = 2 /\ s[1] = a /\ s[2] = b /\ s \in Seq(S)
  OBVIOUS
<1> HIDE DEF s
<1>2. s = <<a, b>>
  BY <1>1
<1> QED BY <1>2 DEF s

(* The events of one answer lead the view to the claims after it. *)
LEMMA AnswerShown ==
  ASSUME NEW ph, NEW teams, NEW roads, NEW cs \in ClaimsShown,
         NEW v \in Showing(ph, teams, roads, cs), NEW c \in Claim, NEW known
  PROVE  /\ Answer(c, cs, WithOutcome(cs, c, known), known) \in Seq(PlainEvent)
         /\ Views!Fold(0, v, Answer(c, cs, WithOutcome(cs, c, known), known))
              \in Showing(ph, teams, roads, WithOutcome(cs, c, known))
<1> DEFINE outcome == Outcome(c, cs, known)
           after == WithOutcome(cs, c, known)
           told == [kind |-> "ClaimUpdated", about |-> c, claim |-> after[c]]
           answered == [kind |-> "VerificationResolved", about |-> c, outcome |-> outcome]
<1>1. /\ after \in ClaimsShown /\ outcome \in Verdict \cup {"inconclusive"}
      /\ outcome = "inconclusive" => after = cs
      /\ outcome # "inconclusive" =>
           /\ after = [cs EXCEPT ![c] = [cs[c] EXCEPT !.status = outcome]]
           /\ [cs[c] EXCEPT !.status = outcome] \in ClaimRecord
  BY OutcomeShown
<1>2. Answer(c, cs, after, known) = (IF outcome = "inconclusive" THEN <<>> ELSE <<told>>)
                                      \o <<answered>>
  BY DEF Answer
<1> HIDE DEF outcome, after
<1>3. answered \in PlainEvent
  BY <1>1 DEF PlainEvent, PlayerEvent
<1>4. told \in PlainEvent
  <2>1. after[c] \in ClaimRecord \cup {NoClaim}
    BY <1>1 DEF ClaimsShown
  <2> QED BY <2>1 DEF PlainEvent, PlayerEvent
<1>5. CASE outcome = "inconclusive"
  <2>1. Apply(v, answered) \in Showing(ph, teams, roads, cs)
    BY <1>1, <1>5, ApplyVerdict
  <2> HIDE DEF answered, told
  <2>2. Answer(c, cs, after, known) = <<answered>>
    BY <1>2, <1>3, <1>5
  <2>3. Views!Fold(0, v, <<answered>>) = Apply(v, answered)
    BY <1>3, ShortFolds
  <2>4. <<answered>> \in Seq(PlainEvent)
    BY <1>3
  <2> QED BY <1>1, <1>5, <2>1, <2>2, <2>3, <2>4 DEF after
<1>6. CASE outcome # "inconclusive"
  <2> DEFINE r == [cs[c] EXCEPT !.status = outcome]
  <2>1. after = [cs EXCEPT ![c] = r] /\ r \in ClaimRecord /\ after[c] = r
    BY <1>1, <1>6 DEF ClaimsShown
  <2>2. r.status = outcome
    <3>1. cs[c] # NoClaim
      BY <1>6 DEF outcome, Outcome
    <3>2. cs[c] \in ClaimRecord
      BY <3>1 DEF ClaimsShown
    <3> QED BY <3>2 DEF ClaimRecord
  <2> HIDE DEF r
  <2>3. Apply(v, told) \in Showing(ph, teams, roads, after)
    BY <2>1, ApplyClaim
  <2>4. Apply(Apply(v, told), answered) \in Showing(ph, teams, roads, after)
    <3> HIDE DEF told
    <3> QED BY <1>1, <2>1, <2>2, <2>3, ApplyVerdict
  <2> HIDE DEF answered, told
  <2>5. Answer(c, cs, after, known) = <<told, answered>>
    <3>1. <<told>> \o <<answered>> = <<told, answered>>
      BY <1>3, <1>4, JoinOnes
    <3> QED BY <1>2, <1>6, <3>1
  <2>6. Views!Fold(0, v, <<told, answered>>) = Apply(Apply(v, told), answered)
    BY <1>3, <1>4, ShortFolds
  <2>7. <<told, answered>> \in Seq(PlainEvent)
    BY <1>3, <1>4
  <2> QED BY <2>4, <2>5, <2>6, <2>7 DEF after
<1> QED BY <1>5, <1>6

(* The verdicts of one handler lead the view from the claims before to the *)
(* claims after.                                                           *)
LEMMA VerdictShown ==
  ASSUME NEW ph, NEW teams, NEW roads, NEW cs \in ClaimsShown,
         NEW v \in Showing(ph, teams, roads, cs), NEW known, NEW asked \in Seq(Claim)
  PROVE  /\ VerdictEvents(cs, asked, known) \in Seq(PlainEvent)
         /\ ClaimsResolved(cs, asked, known) \in ClaimsShown
         /\ Views!Fold(0, v, VerdictEvents(cs, asked, known))
              \in Showing(ph, teams, roads, ClaimsResolved(cs, asked, known))
<1>0. PICK g : ThroughVerdicts(cs, asked, known, g)
  BY OutcomesClimb
<1>1. /\ g[0] = cs
      /\ \A k \in 1 .. Len(asked) : g[k] = WithOutcome(g[k - 1], asked[k], known)
      /\ \A k \in 0 .. Len(asked) : g[k] \in ClaimsShown
      /\ \A k \in 0 .. Len(asked) : ClaimsResolved(cs, SubSeq(asked, 1, k), known) = g[k]
      /\ ClaimsResolved(cs, asked, known) = g[Len(asked)]
  BY <1>0 DEF ThroughVerdicts
<1> DEFINE N == Len(asked)
           answers == [k \in 1 .. N |-> Answer(asked[k], g[k - 1], g[k], known)]
           V == [k \in 0 .. N |-> Showing(ph, teams, roads, g[k])]
<1>2. N \in Nat
  OBVIOUS
<1>3. ASSUME NEW k \in 1 .. N
      PROVE  /\ asked[k] \in Claim /\ k - 1 \in 0 .. N /\ k \in 0 .. N
             /\ g[k - 1] \in ClaimsShown /\ g[k] = WithOutcome(g[k - 1], asked[k], known)
  <2>1. asked[k] \in Claim /\ k - 1 \in 0 .. N /\ k \in 0 .. N
    BY <1>2
  <2> QED BY <1>1, <2>1
<1>4. VerdictEvents(cs, asked, known) = FlattenSeq(answers)
  <2>1. \A k \in 1 .. N :
          /\ ClaimsResolved(cs, SubSeq(asked, 1, k - 1), known) = g[k - 1]
          /\ ClaimsResolved(cs, SubSeq(asked, 1, k), known) = g[k]
    BY <1>1, <1>3
  <2> QED BY <2>1, Zenon DEF VerdictEvents
<1>5. ASSUME NEW k \in 1 .. N, NEW w \in Showing(ph, teams, roads, g[k - 1])
      PROVE  /\ answers[k] \in Seq(PlainEvent)
             /\ Views!Fold(0, w, answers[k]) \in Showing(ph, teams, roads, g[k])
  <2> DEFINE c == asked[k]
             b == g[k - 1]
  <2>1. c \in Claim /\ b \in ClaimsShown /\ g[k] = WithOutcome(b, c, known)
        /\ w \in Showing(ph, teams, roads, b)
    BY <1>3
  <2>2. answers[k] = Answer(c, b, WithOutcome(b, c, known), known)
    BY <2>1
  <2> HIDE DEF answers, c, b
  <2> QED BY <2>1, <2>2, AnswerShown
<1>6. answers \in Seq(Seq(PlainEvent)) /\ Len(answers) = N
  <2>1. ASSUME NEW k \in 1 .. N PROVE answers[k] \in Seq(PlainEvent)
    <3> DEFINE c == asked[k]
               b == g[k - 1]
               e == Answer(c, b, WithOutcome(b, c, known), known)
    <3>1. c \in Claim /\ b \in ClaimsShown /\ g[k] = WithOutcome(b, c, known)
      BY <1>3
    <3>2. answers[k] = e
      BY <3>1
    <3>3. e \in Seq(PlainEvent)
      <4> DEFINE w == [phase |-> ph, teams |-> teams, closed |-> roads, claims |-> b,
                       evidence |-> [o \in Obs |-> "none"], assessed |-> {}]
      <4>1. w \in Showing(ph, teams, roads, b)
        BY DEF Showing
      <4> HIDE DEF c, b, w
      <4> QED BY <3>1, <4>1, AnswerShown
    <3> QED BY <3>2, <3>3
  <2> QED BY <1>2, <2>1
<1>7. FlattenSeq(answers) \in Seq(PlainEvent) /\ FlattenSeq(answers) = Views!Joined(answers)
  <2>1. FlattenSeq(answers) = Views!Joined(answers)
    BY DEF FlattenSeq, Views!Joined
  <2> HIDE DEF answers
  <2> QED BY <1>6, <2>1, Views!FlattenIsSeq
<1>8. ASSUME NEW k \in 1 .. Len(answers), NEW w \in V[k - 1]
      PROVE  Views!Fold(0, w, answers[k]) \in V[k]
  <2>1. k \in 1 .. N
    BY <1>6
  <2>2. w \in Showing(ph, teams, roads, g[k - 1]) /\ V[k] = Showing(ph, teams, roads, g[k])
    BY <1>3, <1>8, <2>1
  <2> HIDE DEF V, answers
  <2> QED BY <1>5, <2>1, <2>2
<1>9. v \in V[0] /\ V[Len(answers)] = Showing(ph, teams, roads, g[N])
  BY <1>1, <1>2, <1>6
<1> HIDE DEF V, answers
<1>10. Views!Fold(0, v, Views!Joined(answers)) \in V[Len(answers)]
  BY <1>6, <1>8, <1>9, Views!FlattenClimbs
<1> QED BY <1>1, <1>2, <1>4, <1>7, <1>9, <1>10

----------------------------------------------------------------------------
(* The mirror leads the view from the teams and roads before a handler to  *)
(* those after it, when the teams it does not show again are unchanged.    *)
LEMMA MirrorShown ==
  ASSUME TypeOK', NEW ph, NEW cs, NEW v \in Showing(ph, OwnTeams, closed, cs),
         ~CommandSeen => closed' = closed,
         \A t \in Team : t \notin Mirrored => OwnTeams'[t] = OwnTeams[t]
  PROVE  /\ MirrorEvents \in Seq(PlainEvent)
         /\ Views!Fold(0, v, MirrorEvents) \in Showing(ph, OwnTeams', closed', cs)
<1> DEFINE s == SetToSeq(Mirrored)
           n == Cardinality(Mirrored)
           show(t) == [kind |-> "OwnTeamUpdated", of |-> t,
                       team |-> OwnTeam(status'[t], etaTick'[t], order'[t], location'[t])]
           turns == [i \in 1 .. n |-> show(s[i])]
           opened == [kind |-> "KnownRoutesUpdated", closed |-> closed']
           roads == IF CommandSeen THEN <<opened>> ELSE <<>>
           teams(k) == [t \in Team |-> IF \E i \in 1 .. k : s[i] = t THEN OwnTeams'[t]
                                       ELSE OwnTeams[t]]
           V == [k \in 0 .. n |-> Showing(ph, teams(k), closed, cs)]
<1>1. MirrorEvents = turns \o roads
  BY DEF MirrorEvents
<1>2. /\ n \in Nat /\ s \in Seq(Mirrored) /\ Len(s) = n
      /\ \A x \in Mirrored : \E i \in 1 .. n : s[i] = x
      /\ Mirrored \subseteq Team
  <2>1. Mirrored \subseteq Team
    BY DEF Mirrored
  <2>2. IsFiniteSet(Mirrored)
    BY <2>1, TeamAssumption, FS_Subset
  <2> QED BY <2>1, <2>2, SetToSeqShows
<1> HIDE DEF s, n
<1>3. ASSUME NEW i \in 1 .. n PROVE s[i] \in Team /\ i - 1 \in 0 .. n /\ i \in 0 .. n
  BY <1>2
<1>4. ASSUME NEW t \in Team
      PROVE  /\ OwnTeams[t] = OwnTeam(status[t], etaTick[t], order[t], location[t])
             /\ OwnTeams'[t] = OwnTeam(status'[t], etaTick'[t], order'[t], location'[t])
             /\ OwnTeams'[t] \in TeamView
  BY DEF OwnTeams, OwnTeam, TeamView, TypeOK, Order
<1>5. ASSUME NEW t \in Team PROVE show(t) \in PlainEvent
  BY <1>4 DEF PlainEvent, PlayerEvent
<1>6. turns \in Seq(PlainEvent) /\ Len(turns) = n
  <2>1. ASSUME NEW i \in 1 .. n PROVE turns[i] \in PlainEvent
    BY <1>3, <1>5
  <2>2. turns = [i \in 1 .. n |-> turns[i]]
    OBVIOUS
  <2> HIDE DEF turns
  <2>3. turns \in [1 .. n -> PlainEvent]
    BY <2>1, <2>2
  <2> QED BY <1>2, <2>3
<1>7. opened \in PlainEvent
  BY DEF PlainEvent, PlayerEvent, TypeOK
<1>8. ASSUME NEW k \in 1 .. Len(turns), NEW w \in V[k - 1]
      PROVE  Apply(w, turns[k]) \in V[k]
  <2>1. k \in 1 .. n /\ s[k] \in Team
    BY <1>3, <1>6
  <2>2. w \in Showing(ph, teams(k - 1), closed, cs) /\ V[k] = Showing(ph, teams(k), closed, cs)
    BY <1>3, <1>8, <2>1
  <2>3. turns[k] = [kind |-> "OwnTeamUpdated", of |-> s[k], team |-> OwnTeams'[s[k]]]
    BY <1>4, <2>1
  <2>4. teams(k) = [teams(k - 1) EXCEPT ![s[k]] = OwnTeams'[s[k]]]
    <3> DEFINE before == teams(k - 1)
    <3>1. \A t \in Team : (\E i \in 1 .. k : s[i] = t)
                            <=> (s[k] = t \/ \E i \in 1 .. k - 1 : s[i] = t)
      BY <1>2, <2>1
    <3>2. ASSUME NEW t \in Team
          PROVE  teams(k)[t] = IF t = s[k] THEN OwnTeams'[s[k]] ELSE before[t]
      BY <3>1
    <3> QED BY <2>1, <3>2
  <2> HIDE DEF teams, V, turns
  <2> QED BY <2>1, <2>2, <2>3, <2>4, ApplyTeam
<1>9. teams(0) = OwnTeams /\ teams(n) = OwnTeams'
  <2>1. teams(0) = OwnTeams
    BY DEF OwnTeams
  <2>2. ASSUME NEW t \in Team PROVE teams(n)[t] = OwnTeams'[t]
    <3>1. CASE t \in Mirrored
      BY <1>2, <3>1
    <3>2. CASE t \notin Mirrored
      BY <3>2
    <3> QED BY <3>1, <3>2
  <2>3. OwnTeams' = [t \in Team |-> OwnTeams'[t]]
    BY DEF OwnTeams
  <2> QED BY <2>1, <2>2, <2>3
<1>10. v \in V[0] /\ V[Len(turns)] = Showing(ph, OwnTeams', closed, cs)
  <2> HIDE DEF turns, teams
  <2> QED BY <1>2, <1>6, <1>9
<1>11. Views!Fold(0, v, turns) \in Showing(ph, OwnTeams', closed, cs)
  <2> HIDE DEF V, turns
  <2> QED BY <1>6, <1>8, <1>10, Views!FoldClimbs
<1>12. roads \in Seq(PlainEvent)
  <2> HIDE DEF opened
  <2> QED BY <1>7
<1>13. Views!Fold(0, v, turns \o roads) = Views!Fold(0, Views!Fold(0, v, turns), roads)
  <2> HIDE DEF turns, roads
  <2> QED BY <1>6, <1>12, Views!FoldConcat
<1> DEFINE w == Views!Fold(0, v, turns)
<1>14. w \in Showing(ph, OwnTeams', closed, cs)
  BY <1>11
<1> HIDE DEF w
<1>15. Views!Fold(0, w, roads) \in Showing(ph, OwnTeams', closed', cs)
  <2>1. CASE CommandSeen
    <3>1. Views!Fold(0, w, <<opened>>) = Apply(w, opened)
      <4> HIDE DEF opened
      <4> QED BY <1>7, ShortFolds
    <3>2. Apply(w, opened) \in Showing(ph, OwnTeams', closed', cs)
      BY <1>14, ApplyRoads
    <3> QED BY <2>1, <3>1, <3>2
  <2>2. CASE ~CommandSeen
    <3>1. roads = <<>> /\ closed' = closed
      BY <2>2
    <3>2. Views!Fold(0, w, <<>>) = w
      BY Views!FoldEmpty
    <3> QED BY <1>14, <3>1, <3>2
  <2> QED BY <2>1, <2>2
<1>16. turns \o roads \in Seq(PlainEvent)
  <2> HIDE DEF turns, roads
  <2> QED BY <1>6, <1>12
<1> QED BY <1>1, <1>13, <1>15, <1>16 DEF w

----------------------------------------------------------------------------
(***************************************************************************)
(* The handlers.                                                           *)
(***************************************************************************)
ShowInv ==
  /\ BridgeTypeOK
  /\ \A i \in DOMAIN delivered : pending[delivered[i]] # Unseen
  /\ view \in Showing(phase, OwnTeams, closed, claims)
  /\ pushed \in Seq(PlayerEvent)
  /\ TerminalEventIsLast

(* The bridge's claims are filed. *)
LEMMA BridgeShown == BridgeTypeOK <=> /\ pending \in [Obs -> Variant \cup {Unseen}]
                                      /\ \A o \in Obs : pending[o] \in Variants[o] \cup {Unseen}
                                      /\ claims \in ClaimsShown
                                      /\ delivered \in Seq(Obs)
BY DEF BridgeTypeOK, ClaimsShown, Filed

\* The bridge's types after a step, from what the step shows of its parts.
LEMMA BridgeShownNext ==
  ASSUME pending' \in [Obs -> Variant \cup {Unseen}],
         \A o \in Obs : pending'[o] \in Variants[o] \cup {Unseen},
         claims' \in ClaimsShown, delivered' \in Seq(Obs)
  PROVE  BridgeTypeOK'
BY DEF BridgeTypeOK, ClaimsShown, Filed

(* A handler that ends with the events "plain", or with them and the end   *)
(* of the run, ends as it should.                                          *)
LEMMA EndsRight ==
  ASSUME NEW plain \in Seq(PlainEvent),
         \/ pushed' = plain /\ phase' # "completed"
         \/ pushed' = plain \o <<[kind |-> "RunCompleted"]>>
  PROVE  pushed' \in Seq(PlayerEvent) /\ TerminalEventIsLast'
<1> DEFINE last == [kind |-> "RunCompleted"]
<1>1. plain \in Seq(PlayerEvent) /\ \A i \in 1 .. Len(plain) : plain[i].kind # "RunCompleted"
  BY DEF PlainEvent
<1>2. last \in PlayerEvent
  BY DEF PlayerEvent
<1>3. CASE pushed' = plain /\ phase' # "completed"
  BY <1>1, <1>3 DEF TerminalEventIsLast, RunCompletedLast, CompletedStaysLast
<1>4. CASE pushed' = plain \o <<last>>
  <2>0. last.kind = "RunCompleted"
    OBVIOUS
  <2> HIDE DEF last
  <2>1. /\ pushed' \in Seq(PlayerEvent) /\ Len(pushed') = Len(plain) + 1
        /\ pushed'[Len(pushed')] = last
        /\ \A i \in 1 .. Len(plain) : pushed'[i] = plain[i]
    BY <1>1, <1>2, <1>4
  <2>2. RunCompletedLast'
    <3>1. ASSUME NEW i \in DOMAIN pushed', i # Len(pushed') PROVE pushed'[i].kind # "RunCompleted"
      <4>1. i \in 1 .. Len(plain)
        BY <2>1, <3>1
      <4> QED BY <1>1, <2>1, <4>1
    <3> QED BY <3>1 DEF RunCompletedLast
  <2>3. CompletedStaysLast'
    BY <1>1, <2>0, <2>1 DEF CompletedStaysLast, Last
  <2> QED BY <2>1, <2>2, <2>3 DEF TerminalEventIsLast
<1> QED BY <1>3, <1>4

(* The claims asked about are claims. *)
LEMMA AskedClaims ==
  ASSUME NEW jobs \in [Team -> Job \cup {NoJob}]
  PROVE  Asked(jobs) \in Seq(Claim)
<1> DEFINE s == SetToSeq(Finished(jobs))
           n == Cardinality(Finished(jobs))
<1>1. Finished(jobs) \subseteq Team /\ \A t \in Finished(jobs) : jobs[t].claim \in Claim
  BY DEF Finished, Job
<1>2. IsFiniteSet(Finished(jobs))
  BY <1>1, TeamAssumption, FS_Subset
<1>3. n \in Nat /\ s \in Seq(Finished(jobs)) /\ Len(s) = n
  BY <1>2, SetToSeqShows
<1>4. Asked(jobs) = [i \in 1 .. n |-> jobs[s[i]].claim]
  BY DEF Asked
<1> HIDE DEF s, n
<1> QED BY <1>1, <1>3, <1>4

(* What publishing shows is the state the handler leaves. *)
LEMMA PublishShows ==
  ASSUME ShowInv, TypeOK', phase = "running",
         NEW jobs \in [Team -> Job \cup {NoJob}], NEW seq \in Seq(Obs),
         \A i \in 1 .. Len(seq) : pending'[seq[i]] \in Variants[seq[i]],
         NEW tail \in {<<>>, <<[kind |-> "CommandResult"]>>},
         Terminal => tail = <<>>,
         Terminal <=> phase' = "completed",
         ~CommandSeen => closed' = closed,
         \A t \in Team : t \notin Mirrored => OwnTeams'[t] = OwnTeams[t],
         claims' = ClaimsResolved(ClaimsAfter(claims, seq, pending'), Asked(jobs), pending'),
         Push(Published(jobs, seq) \o tail)
  PROVE  /\ claims' \in ClaimsShown
         /\ view' \in Showing(phase', OwnTeams', closed', claims')
         /\ pushed' \in Seq(PlayerEvent) /\ TerminalEventIsLast'
<1> DEFINE cs == ClaimsAfter(claims, seq, pending')
           A == DeliveryEvents(claims, seq, pending')
           B == MirrorEvents
           C == VerdictEvents(cs, Asked(jobs), pending')
           v1 == Views!Fold(0, view, A)
           v2 == Views!Fold(0, v1, B)
           v3 == Views!Fold(0, v2, C)
           last == [kind |-> "RunCompleted"]
           D == IF Terminal THEN <<last>> ELSE tail
<1>1. claims \in ClaimsShown /\ view \in Showing("running", OwnTeams, closed, claims)
  BY BridgeShown DEF ShowInv
<1>2. /\ A \in Seq(PlainEvent) /\ cs \in ClaimsShown
      /\ v1 \in Showing("running", OwnTeams, closed, cs)
  BY <1>1, DeliveryShown
<1> HIDE DEF v1, A, cs
<1>3. B \in Seq(PlainEvent) /\ v2 \in Showing("running", OwnTeams', closed', cs)
  BY <1>2, MirrorShown
<1>4. Asked(jobs) \in Seq(Claim)
  BY AskedClaims
<1> HIDE DEF v2, B
<1>5. /\ C \in Seq(PlainEvent)
      /\ ClaimsResolved(cs, Asked(jobs), pending') \in ClaimsShown
      /\ v3 \in Showing("running", OwnTeams', closed', ClaimsResolved(cs, Asked(jobs), pending'))
  BY <1>2, <1>3, <1>4, VerdictShown
<1>6. claims' \in ClaimsShown /\ v3 \in Showing("running", OwnTeams', closed', claims')
  BY <1>5 DEF cs
<1>7. pushed' = (A \o B \o C \o (IF Terminal THEN <<last>> ELSE <<>>)) \o tail
  BY DEF Push, Published, A, B, C, cs
<1> HIDE DEF C, v3
<1> DEFINE P == A \o B \o C
<1>8. P \in Seq(PlainEvent)
  BY <1>2, <1>3, <1>5
<1>9. last \in PlayerEvent /\ tail \in Seq(PlainEvent) /\ D \in Seq(PlayerEvent)
  <2>1. last \in PlayerEvent /\ [kind |-> "CommandResult"] \in PlainEvent
    BY DEF PlainEvent, PlayerEvent
  <2>2. tail \in Seq(PlainEvent)
    <3>1. CASE tail = <<>>
      BY <3>1
    <3>2. CASE tail = <<[kind |-> "CommandResult"]>>
      BY <2>1, <3>2
    <3> QED BY <3>1, <3>2
  <2>3. tail \in Seq(PlayerEvent)
    BY <2>2 DEF PlainEvent
  <2> HIDE DEF last
  <2> QED BY <2>1, <2>2, <2>3
<1>10. pushed' = P \o D
  <2>1. pushed' = (P \o (IF Terminal THEN <<last>> ELSE <<>>)) \o tail
    BY <1>7
  <2>2. P \in Seq(PlayerEvent) /\ <<last>> \in Seq(PlayerEvent) /\ tail \in Seq(PlayerEvent)
        /\ P \o <<last>> \in Seq(PlayerEvent)
    <3> HIDE DEF P, last
    <3> QED BY <1>8, <1>9 DEF PlainEvent
  <2> HIDE DEF P, last
  <2>3. CASE Terminal
    <3>1. pushed' = (P \o <<last>>) \o <<>>
      BY <2>1, <2>3
    <3> QED BY <2>2, <2>3, <3>1
  <2>4. CASE ~Terminal
    <3>1. pushed' = (P \o <<>>) \o tail /\ P \o <<>> = P
      BY <2>1, <2>2, <2>4
    <3> QED BY <2>4, <3>1
  <2> QED BY <2>3, <2>4
<1>11. pushed' \in Seq(PlayerEvent) /\ TerminalEventIsLast'
  <2>1. CASE Terminal
    <3>1. pushed' = P \o <<[kind |-> "RunCompleted"]>>
      BY <1>10, <2>1
    <3> HIDE DEF P
    <3> QED BY <1>8, <3>1, EndsRight
  <2>2. CASE ~Terminal
    <3>1. pushed' = P \o tail
      BY <1>10, <2>2
    <3> HIDE DEF P
    <3>2. P \o tail \in Seq(PlainEvent)
      BY <1>8, <1>9
    <3> QED BY <2>2, <3>1, <3>2, EndsRight
  <2> QED BY <2>1, <2>2
<1>12. view' = Views!Fold(0, view, P \o D)
  BY <1>10, ViewIsFold DEF Push
<1>13. Views!Fold(0, view, P \o D) = Views!Fold(0, v3, D)
  <2>1. A \in Seq(PlayerEvent) /\ B \in Seq(PlayerEvent) /\ C \in Seq(PlayerEvent)
        /\ A \o B \in Seq(PlayerEvent) /\ P \in Seq(PlayerEvent)
    BY <1>2, <1>3, <1>5 DEF PlainEvent
  <2> DEFINE Q == A \o B
  <2>2. Views!Fold(0, view, Q) = v2
    BY <2>1, Views!FoldConcat DEF v1, v2
  <2>3. Views!Fold(0, view, P) = v3
    <3>1. P = Q \o C /\ Q \in Seq(PlayerEvent)
      BY <2>1
    <3> HIDE DEF P, Q
    <3>2. Views!Fold(0, view, Q \o C) = Views!Fold(0, Views!Fold(0, view, Q), C)
      BY <2>1, <3>1, Views!FoldConcat
    <3> QED BY <2>2, <3>1, <3>2 DEF v3
  <2> HIDE DEF P, D
  <2> QED BY <1>9, <2>1, <2>3, Views!FoldConcat
<1>14. Views!Fold(0, v3, D) \in Showing(phase', OwnTeams', closed', claims')
  <2>1. CASE Terminal
    <3>1. Views!Fold(0, v3, <<last>>) = Apply(v3, last)
      <4> HIDE DEF last
      <4> QED BY <1>9, OneEvent
    <3>2. Apply(v3, last) \in Showing("completed", OwnTeams', closed', claims')
      BY <1>6, AppliedRest
    <3> QED BY <2>1, <3>1, <3>2
  <2>2. CASE ~Terminal
    <3>0. phase' = "running"
      BY <2>2 DEF TypeOK
    <3>1. CASE tail = <<>>
      <4>1. Views!Fold(0, v3, <<>>) = v3
        BY Views!FoldEmpty
      <4> QED BY <1>6, <2>2, <3>0, <3>1, <4>1
    <3>2. CASE tail = <<[kind |-> "CommandResult"]>>
      <4> DEFINE r == [kind |-> "CommandResult"]
      <4>1. r \in PlainEvent
        BY DEF PlainEvent, PlayerEvent
      <4>2. Apply(v3, r) \in Showing("running", OwnTeams', closed', claims')
        BY <1>6, AppliedRest
      <4> HIDE DEF r
      <4>3. Views!Fold(0, v3, <<r>>) = Apply(v3, r)
        BY <4>1, ShortFolds
      <4> QED BY <2>2, <3>0, <3>2, <4>2, <4>3 DEF r
    <3> QED BY <3>1, <3>2
  <2> QED BY <2>1, <2>2
<1> QED BY <1>6, <1>11, <1>12, <1>13, <1>14

(* A command shows all teams and roads again, and nothing of the claims    *)
(* but what it left.                                                       *)
LEMMA CommandShows ==
  ASSUME ShowInv, IInv, IInv', EngineCommand, UNCHANGED pending,
         NEW jobs \in [Team -> Job \cup {NoJob}],
         Publish(jobs, <<>>, <<[kind |-> "CommandResult"]>>)
  PROVE  ShowInv'
<1> DEFINE seq == <<>>
           tail == <<[kind |-> "CommandResult"]>>
<1>1. phase = "running" /\ phase' = phase /\ ~Terminal /\ CommandSeen
  BY CommandFacts DEF CommandKeeps
<1>2. Mirrored = Team
  BY <1>1 DEF Mirrored
<1>3. seq \in Seq(Obs) /\ (\A i \in 1 .. Len(seq) : pending'[seq[i]] \in Variants[seq[i]])
  OBVIOUS
<1>4. /\ claims' = ClaimsResolved(ClaimsAfter(claims, seq, pending'), Asked(jobs), pending')
      /\ Push(Published(jobs, seq) \o tail)
      /\ delivered' = delivered \o seq
  BY DEF Publish
<1>5. delivered' = delivered
  BY <1>4, BridgeShown DEF ShowInv
<1>6. tail \in {<<>>, <<[kind |-> "CommandResult"]>>}
  OBVIOUS
<1>7. TypeOK'
  BY DEF IInv
<1> HIDE DEF seq, tail
<1>8. /\ claims' \in ClaimsShown
      /\ view' \in Showing(phase', OwnTeams', closed', claims')
      /\ pushed' \in Seq(PlayerEvent) /\ TerminalEventIsLast'
  BY <1>1, <1>2, <1>3, <1>4, <1>6, <1>7, PublishShows
<1>9. BridgeTypeOK'
  <2>1. /\ pending' \in [Obs -> Variant \cup {Unseen}]
        /\ \A o \in Obs : pending'[o] \in Variants[o] \cup {Unseen}
        /\ delivered' \in Seq(Obs)
    BY <1>5, BridgeShown DEF ShowInv
  <2> QED BY <1>8, <2>1, BridgeShownNext
<1> QED BY <1>5, <1>8, <1>9 DEF ShowInv

(* A tick shows the teams that arrive and the observations it delivers,    *)
(* and the end of the run last.                                            *)
LEMMA AdvanceShows ==
  ASSUME ShowInv, JobInv, IInv, IInv', Advance
  PROVE  ShowInv'
<1>1. PICK new \in SUBSET {o \in Obs : pending[o] = Unseen} :
        \E made \in [new -> UNION {Variants[o] : o \in Obs}] :
          /\ \A o \in new : made[o] \in Variants[o]
          /\ pending' = [o \in Obs |-> IF o \in new THEN made[o] ELSE pending[o]]
  BY DEF Advance
<1>2. PICK made : /\ \A o \in new : made[o] \in Variants[o]
                  /\ pending' = [o \in Obs |-> IF o \in new THEN made[o] ELSE pending[o]]
  BY <1>1
<1>3. PICK due \in SUBSET {o \in Obs : pending'[o] # Unseen /\ ~Contains(delivered, o)} :
        \E seq \in SetToSeqs(due) : Publish(job, seq, <<>>)
  BY DEF Advance
<1>4. PICK seq \in SetToSeqs(due) : Publish(job, seq, <<>>)
  BY <1>3
<1>5. /\ Step /\ phase = "running"
      /\ claims' = ClaimsResolved(ClaimsAfter(claims, seq, pending'), Asked(job), pending')
      /\ Push(Published(job, seq) \o <<>>)
      /\ delivered' = delivered \o seq
  BY <1>4 DEF Advance, Publish, Step, CanStep
<1>6. /\ pending \in [Obs -> Variant \cup {Unseen}]
      /\ \A o \in Obs : pending[o] \in Variants[o] \cup {Unseen}
      /\ delivered \in Seq(Obs)
  BY BridgeShown DEF ShowInv
<1>7. ASSUME NEW o \in Obs
      PROVE  /\ pending'[o] \in Variants[o] \cup {Unseen}
             /\ pending[o] # Unseen => pending'[o] # Unseen
  BY <1>2, <1>6
<1>8. pending' \in [Obs -> Variant \cup {Unseen}]
  <2>1. \A o \in Obs : pending'[o] \in Variant \cup {Unseen}
    BY <1>7 DEF Variant
  <2> QED BY <1>2, <2>1
<1>9. seq \in Seq(Obs) /\ \A i \in 1 .. Len(seq) : seq[i] \in due
  <2>1. IsFiniteSet(due)
    BY HubAssumption, FS_Subset
  <2>2. Cardinality(due) \in Nat
    BY <2>1, FS_CardinalityType
  <2>3. seq \in [1 .. Cardinality(due) -> due]
    BY DEF SetToSeqs
  <2> QED BY <2>2, <2>3
<1>10. \A i \in 1 .. Len(seq) : pending'[seq[i]] # Unseen /\ pending'[seq[i]] \in Variants[seq[i]]
  BY <1>7, <1>9
<1>11. (Terminal <=> phase' = "completed") /\ ~CommandSeen
  BY <1>5, StepFacts
<1>12. closed' = closed
  BY <1>5 DEF Step
<1>13. \A t \in Team : t \notin Mirrored => OwnTeams'[t] = OwnTeams[t]
  <2> SUFFICES ASSUME NEW t \in Team, t \notin Mirrored PROVE OwnTeams'[t] = OwnTeams[t]
    OBVIOUS
  <2>1. t \notin Arriving
    <3>1. [kind |-> "TeamArrived", team |-> t] \notin emitted'
      BY <1>11 DEF Mirrored
    <3> QED BY <1>5, <3>1 DEF Step
  <2>2. /\ status'[t] = status[t] /\ etaTick'[t] = etaTick[t]
        /\ location'[t] = location[t] /\ order'[t] = order[t]
    BY <1>5, <2>1 DEF Step, Arrive
  <2> QED BY <2>2 DEF OwnTeams
<1>14. job \in [Team -> Job \cup {NoJob}] /\ TypeOK'
  BY DEF JobInv, IInv
<1> DEFINE tail == <<>>
<1>15. tail \in {<<>>, <<[kind |-> "CommandResult"]>>} /\ tail = <<>>
       /\ Push(Published(job, seq) \o tail)
  BY <1>5
<1> HIDE DEF tail
<1>16. /\ claims' \in ClaimsShown
       /\ view' \in Showing(phase', OwnTeams', closed', claims')
       /\ pushed' \in Seq(PlayerEvent) /\ TerminalEventIsLast'
  BY <1>5, <1>9, <1>10, <1>11, <1>12, <1>13, <1>14, <1>15, PublishShows
<1>17. delivered' \in Seq(Obs) /\ \A i \in DOMAIN delivered' : pending'[delivered'[i]] # Unseen
  <2>1. delivered' \in Seq(Obs) /\ Len(delivered') = Len(delivered) + Len(seq)
    BY <1>5, <1>6, <1>9
  <2>2. ASSUME NEW i \in 1 .. Len(delivered') PROVE pending'[delivered'[i]] # Unseen
    <3>1. CASE i \in 1 .. Len(delivered)
      <4>1. delivered'[i] = delivered[i] /\ delivered[i] \in Obs
        BY <1>5, <1>6, <1>9, <3>1
      <4>2. pending[delivered[i]] # Unseen
        BY <1>6, <3>1 DEF ShowInv
      <4> QED BY <1>7, <4>1, <4>2
    <3>2. CASE i \notin 1 .. Len(delivered)
      <4>1. i - Len(delivered) \in 1 .. Len(seq) /\ delivered'[i] = seq[i - Len(delivered)]
        BY <1>5, <1>6, <1>9, <2>1, <3>2
      <4> QED BY <1>10, <4>1
    <3> QED BY <3>1, <3>2
  <2> QED BY <2>1, <2>2
<1>18. BridgeTypeOK'
  BY <1>7, <1>8, <1>16, <1>17, BridgeShownNext
<1> QED BY <1>16, <1>17, <1>18 DEF ShowInv

(* A restarted session shows the engine's state and the claims of the      *)
(* deliveries alone.                                                       *)
LEMMA ResumeShows ==
  ASSUME ShowInv, IInv, Resume
  PROVE  ShowInv'
<1> DEFINE none == [c \in Claim |-> NoClaim]
           A == DeliveryEvents(none, delivered, pending)
           last == [kind |-> "RunCompleted"]
           cs == ClaimsAfter(none, delivered, pending)
           v1 == Views!Fold(0, Started, A)
           D == IF phase = "completed" THEN <<last>> ELSE <<>>
<1>1. /\ UNCHANGED <<phase, status, etaTick, order, location, closed, pending, delivered>>
      /\ claims' = cs /\ pushed' = A \o D /\ view' = FoldLeft(Apply, Started, A \o D)
  BY DEF Resume, engineVars
<1>2. /\ pending \in [Obs -> Variant \cup {Unseen}] /\ delivered \in Seq(Obs)
      /\ \A o \in Obs : pending[o] \in Variants[o] \cup {Unseen}
      /\ \A i \in 1 .. Len(delivered) : pending[delivered[i]] # Unseen
  BY BridgeShown DEF ShowInv
<1>3. \A i \in 1 .. Len(delivered) : pending[delivered[i]] \in Variants[delivered[i]]
  BY <1>2
<1>4. none \in ClaimsShown
  BY DEF ClaimsShown
<1>5. Started \in Showing("running", OwnTeams, closed, none)
  BY DEF Started, Showing, OwnTeams
<1> HIDE DEF none
<1>6. /\ A \in Seq(PlainEvent) /\ cs \in ClaimsShown
      /\ v1 \in Showing("running", OwnTeams, closed, cs)
  BY <1>2, <1>3, <1>4, <1>5, DeliveryShown
<1>7. OwnTeams' = OwnTeams
  BY <1>1 DEF OwnTeams
<1>8. last \in PlayerEvent /\ phase \in {"running", "completed"}
  BY DEF PlayerEvent, IInv, TypeOK
<1> HIDE DEF A, cs, v1, last
<1>9. view' = Views!Fold(0, Started, A \o D)
  BY <1>1, ViewIsFold
<1>10. CASE phase = "completed"
  <2>1. pushed' = A \o <<[kind |-> "RunCompleted"]>>
    BY <1>1, <1>10 DEF last
  <2>2. pushed' \in Seq(PlayerEvent) /\ TerminalEventIsLast'
    BY <1>6, <2>1, EndsRight
  <2>3. A \in Seq(PlayerEvent) /\ <<last>> \in Seq(PlayerEvent)
    BY <1>6, <1>8 DEF PlainEvent
  <2>4. Views!Fold(0, Started, A \o <<last>>) = Views!Fold(0, v1, <<last>>)
    <3> DEFINE one == <<last>>
    <3>1. one \in Seq(PlayerEvent)
      BY <2>3
    <3> HIDE DEF one
    <3>2. Views!Fold(0, Started, A \o one) = Views!Fold(0, Views!Fold(0, Started, A), one)
      BY <2>3, <3>1, Views!FoldConcat
    <3> QED BY <3>2 DEF v1, one
  <2>5. Views!Fold(0, v1, <<last>>) = Apply(v1, last)
    BY <1>8, OneEvent
  <2>6. Apply(v1, last) \in Showing("completed", OwnTeams, closed, cs)
    BY <1>6, AppliedRest DEF last
  <2>7. view' \in Showing(phase', OwnTeams', closed', claims')
    BY <1>1, <1>7, <1>9, <1>10, <2>4, <2>5, <2>6
  <2>8. BridgeTypeOK'
    BY <1>1, <1>2, <1>6, BridgeShownNext
  <2> QED BY <1>1, <1>2, <2>2, <2>7, <2>8 DEF ShowInv
<1>11. CASE phase = "running"
  <2>1. A \o D = A
    BY <1>6, <1>11
  <2>2. pushed' \in Seq(PlayerEvent) /\ TerminalEventIsLast'
    BY <1>1, <1>6, <1>11, <2>1, EndsRight
  <2>3. view' \in Showing(phase', OwnTeams', closed', claims')
    BY <1>1, <1>6, <1>7, <1>9, <1>11, <2>1 DEF v1
  <2>4. BridgeTypeOK'
    BY <1>1, <1>2, <1>6, BridgeShownNext
  <2> QED BY <1>1, <1>2, <2>2, <2>3, <2>4 DEF ShowInv
<1> QED BY <1>8, <1>10, <1>11

(* An assessment changes nothing that is mirrored. *)
LEMMA AssessShows ==
  ASSUME ShowInv, NEW c \in Claim, Assess(c)
  PROVE  ShowInv'
<1> DEFINE e == [kind |-> "AssessmentSubmitted", about |-> c]
<1>1. /\ phase # "completed" /\ UNCHANGED <<phase, status, etaTick, order, location, closed>>
      /\ UNCHANGED <<pending, claims, delivered>>
      /\ pushed' = <<e>> /\ view' = FoldLeft(Apply, view, <<e>>)
  BY DEF Assess, CanAssess, Push, engineVars, bridgeVars
<1>2. e \in PlainEvent /\ e \in PlayerEvent
  BY DEF PlainEvent, PlayerEvent
<1>3. Apply(view, e) \in Showing(phase, OwnTeams, closed, claims)
  BY AppliedRest DEF ShowInv
<1> HIDE DEF e
<1>4. view' = Apply(view, e)
  BY <1>1, <1>2, ViewIsFold, OneEvent
<1>5. <<e>> \in Seq(PlainEvent)
  BY <1>2
<1>6. pushed' \in Seq(PlayerEvent) /\ TerminalEventIsLast'
  BY <1>1, <1>5, EndsRight
<1>7. OwnTeams' = OwnTeams
  BY <1>1 DEF OwnTeams
<1>8. BridgeTypeOK'
  BY <1>1 DEF ShowInv, BridgeTypeOK, Filed
<1> QED BY <1>1, <1>3, <1>4, <1>6, <1>7, <1>8 DEF ShowInv

(* Every handler keeps what is shown. *)
LEMMA NextShows ==
  ASSUME ShowInv, JobInv, IInv, [HubNext]_hubVars
  PROVE  ShowInv'
<1>1. IInv'
  BY HandlersStepEngine, NextInvariant
<1>2. job \in [Team -> Job \cup {NoJob}]
  BY DEF JobInv
<1>3. CASE Command
  <2>1. EngineCommand /\ UNCHANGED pending
        /\ Publish(job, <<>>, <<[kind |-> "CommandResult"]>>)
    BY <1>3 DEF Command, EngineCommand
  <2> QED BY <1>1, <1>2, <2>1, CommandShows
<1>4. ASSUME NEW t \in Team, NEW c \in Claim, NEW k \in Key, RequestVerification(t, c, k)
      PROVE  ShowInv'
  <2>1. DistrictOf[c] \in District /\ "verify" \in Task
    BY HubAssumption
  <2>2. /\ DispatchTeam(t, DistrictOf[c], "verify", k) /\ UNCHANGED pending
        /\ Publish(Targeting(t, c), <<>>, <<[kind |-> "CommandResult"]>>)
    BY <1>4 DEF RequestVerification
  <2>3. EngineCommand
    BY <2>1, <2>2 DEF EngineCommand
  <2>4. Targeting(t, c) \in [Team -> Job \cup {NoJob}]
    <3>1. CASE Accepted
      <4> DEFINE mine == [claim |-> c, order |-> order'[t].id, target |-> DistrictOf[c]]
      <4>1. order'[t].id \in OrderId
        <5>1. /\ orderSeq + 1 \in OrderId
              /\ order'[t] = [id |-> orderSeq + 1, target |-> DistrictOf[c], task |-> "verify"]
          BY <2>1, <2>2, <3>1, DispatchFacts
        <5> QED BY <5>1
      <4>2. mine \in Job
        BY <2>1, <4>1 DEF Job
      <4>3. Targeting(t, c) = [job EXCEPT ![t] = mine]
        BY <3>1 DEF Targeting
      <4> HIDE DEF mine
      <4> QED BY <1>2, <4>2, <4>3
    <3>2. CASE ~Accepted
      BY <1>2, <3>2 DEF Targeting
    <3> QED BY <3>1, <3>2
  <2> QED BY <1>1, <2>2, <2>3, <2>4, CommandShows
<1>5. CASE Advance
  BY <1>1, <1>5, AdvanceShows
<1>6. CASE Resume
  BY <1>6, ResumeShows
<1>7. ASSUME NEW c \in Claim, Assess(c) PROVE ShowInv'
  BY <1>7, AssessShows
<1>8. CASE UNCHANGED hubVars
  BY <1>8 DEF hubVars, engineVars, bridgeVars, ShowInv, BridgeTypeOK, Filed, OwnTeams,
              TerminalEventIsLast, RunCompletedLast, CompletedStaysLast
<1> QED BY <1>3, <1>4, <1>5, <1>6, <1>7, <1>8 DEF HubNext

(* A new session shows the engine's first state. *)
LEMMA InitShows ==
  ASSUME HubInit
  PROVE  ShowInv
<1>1. /\ view = Started /\ pushed = <<>> /\ phase = "running" /\ delivered = <<>>
      /\ claims = [c \in Claim |-> NoClaim] /\ pending = [o \in Obs |-> Unseen]
  BY DEF HubInit, Init, BridgeInit
<1>2. BridgeTypeOK
  BY <1>1 DEF BridgeTypeOK
<1>3. view \in Showing(phase, OwnTeams, closed, claims)
  BY <1>1 DEF Started, Showing, OwnTeams
<1>4. TerminalEventIsLast
  BY <1>1 DEF TerminalEventIsLast, RunCompletedLast, CompletedStaysLast
<1> QED BY <1>1, <1>2, <1>3, <1>4 DEF ShowInv

(* The server keeps its inductive invariant. *)
THEOREM HubInvariant == HubSpec => []HubInv
<1>1. HubInit => IInv /\ JobInv /\ ShowInv
  BY InitInvariant, InitJobs, InitShows DEF HubInit
<1>2. IInv /\ JobInv /\ ShowInv /\ [HubNext]_hubVars => (IInv /\ JobInv /\ ShowInv)'
  BY HandlersStepEngine, NextInvariant, NextJobs, NextShows
<1>3. IInv /\ JobInv /\ ShowInv => HubInv
  BY DEF JobInv, ShowInv, HubInv, HubTypeOK
<1> QED BY <1>1, <1>2, <1>3, PTL DEF HubSpec

(* What the players are shown is the engine's and the bridge's state, at   *)
(* every moment between requests, although it is rebuilt from the pushed   *)
(* events alone (mirrorOperationalPublicState, makeBridge).                *)
THEOREM MirrorsEngine == HubSpec => []PublicMirrorsEngine
<1>1. HubInv => PublicMirrorsEngine
  <2>1. HubInv => view \in Showing(phase, OwnTeams, closed, claims)
    BY DEF HubInv, HubTypeOK
  <2> QED BY <2>1 DEF Showing, OwnTeams, PublicMirrorsEngine
<1> QED BY <1>1, HubInvariant, PTL

(* RunCompleted is the last player event of a run, and no handler adds     *)
(* anything behind it (publishTruthDelta, rpc.ts).                         *)
THEOREM TerminalIsLast == HubSpec => []TerminalEventIsLast
<1>1. HubInv => TerminalEventIsLast
  BY DEF HubInv
<1> QED BY <1>1, HubInvariant, PTL
=============================================================================
