-------------------------- MODULE TeamOrders_proofs --------------------------
(***************************************************************************)
(* Proofs about the engine's teams and orders, for every scenario, every   *)
(* number of teams, districts and roads and every length of run.           *)
(***************************************************************************)
EXTENDS TeamOrders, FiniteSetTheorems, TLAPS

(* A session starts in the invariant. *)
LEMMA InitInvariant == Init => IInv
<1> SUFFICES ASSUME Init PROVE IInv
  OBVIOUS
<1>1. TypeOK
  BY ScenarioAssumption, BoundAssumption DEF Init, TypeOK
<1>2. Numbering /\ Underway /\ Punctual
  BY BoundAssumption DEF Init, Numbering, Underway, Punctual, OrderId
<1>3. StatusMatchesOrder /\ HeldOrderIsLatest /\ ExecutedOnce
  BY DEF Init, StatusMatchesOrder, StatusFits, HeldOrderIsLatest, LatestOf, ExecutedOnce
<1> QED
  BY <1>1, <1>2, <1>3 DEF IInv

(* Teams hold orders that were issued. *)
LEMMA HeldIds ==
  ASSUME IInv
  PROVE  \A t \in Team : order[t] # NoOrder => order[t] \in Order /\ order[t].id \in 1 .. orderSeq
  BY DEF IInv, TypeOK, HeldOrderIsLatest, LatestOf, Order, OrderId

(* A refused or repeated command changes nothing the invariant speaks of   *)
(* but the command counter.                                                *)
LEMMA RejectInvariant ==
  ASSUME IInv, NEW k, NEW b, Issue, Reject(k, b)
  PROVE  IInv'
<1> USE DEF Issue, Reject, clockVars, teamVars, wasteVars, orderHist
<1>1. TypeOK'
  BY BoundAssumption DEF IInv, TypeOK
<1>2. Numbering'
  BY BoundAssumption DEF IInv, TypeOK, Numbering
<1>3. StatusMatchesOrder' /\ HeldOrderIsLatest'
  BY DEF IInv, StatusMatchesOrder, StatusFits, HeldOrderIsLatest, LatestOf, Due
<1>4. Underway' /\ Punctual'
  BY DEF IInv, Underway, InHand, Punctual, OnTime, Holds, Due
<1>5. ExecutedOnce'
  BY DEF IInv, ExecutedOnce
<1> QED
  BY <1>1, <1>2, <1>3, <1>4, <1>5 DEF IInv

(* Opening and closing roads touches no order, travelling or not. *)
LEMMA RouteInvariant ==
  ASSUME IInv, NEW r \in Route, NEW close \in BOOLEAN, NEW k \in Key,
         SetRouteClosed(r, close, k)
  PROVE  IInv'
<1>1. CASE Issue /\ Reject(k, (r \in closed) # close)
  BY <1>1, RejectInvariant
<1>2. CASE /\ Issue
           /\ (r \in closed) # close
           /\ Accept(k, {[kind |-> "RouteSet"]})
           /\ closed' = IF close THEN closed \cup {r} ELSE closed \ {r}
           /\ UNCHANGED <<teamVars, wasteVars, orderSeq, orderHist>>
  <2> USE <1>2 DEF Issue, Accept, clockVars, teamVars, wasteVars, orderHist
  <2>1. TypeOK'
    BY BoundAssumption DEF IInv, TypeOK
  <2>2. Numbering'
    BY BoundAssumption DEF IInv, TypeOK, Numbering
  <2>3. StatusMatchesOrder' /\ HeldOrderIsLatest'
    BY DEF IInv, StatusMatchesOrder, StatusFits, HeldOrderIsLatest, LatestOf, Due
  <2>4. Underway' /\ Punctual'
    BY DEF IInv, Underway, InHand, Punctual, OnTime, Holds, Due
  <2>5. ExecutedOnce'
    BY DEF IInv, TypeOK, ExecutedOnce
  <2> QED
    BY <2>1, <2>2, <2>3, <2>4, <2>5 DEF IInv
<1> QED
  BY <1>1, <1>2 DEF SetRouteClosed

(* A dispatch gives the team, and no other, the next order number.         *)
LEMMA DispatchInvariant ==
  ASSUME IInv, NEW t \in Team, NEW d \in District, NEW task \in Task, NEW k \in Key,
         DispatchTeam(t, d, task, k)
  PROVE  IInv'
<1> DEFINE eta == tick + Travel[closed][location[t]][d]
           o == orderSeq + 1
<1>1. CASE Issue /\ Reject(k, CanDispatch(t, d, task))
  BY <1>1, RejectInvariant
<1>2. CASE /\ Issue
           /\ CanDispatch(t, d, task)
           /\ Accept(k, {[kind |-> "TeamDispatched", team |-> t]})
           /\ StartTravel(t, d, task, eta)
           /\ UNCHANGED <<location, wasteVars, closed, arrivedAt, cancelledAt>>
  <2> USE <1>2
  <2>1. /\ orderSeq \in Nat /\ commandSeq \in Nat /\ MaxCommands \in Nat
        /\ orderSeq <= commandSeq /\ commandSeq < MaxCommands
        /\ orderSeq' = o /\ commandSeq' = commandSeq + 1
    BY BoundAssumption DEF IInv, TypeOK, Numbering, Issue, StartTravel
  <2>2. o \in OrderId
    BY <2>1 DEF OrderId
  <2>3. tick \in Nat /\ eta \in Nat /\ eta >= tick
    <3>1. Travel[closed][location[t]][d] \in Nat
      BY ScenarioAssumption DEF IInv, TypeOK, CanDispatch
    <3>2. tick \in Nat
      BY BoundAssumption DEF IInv, TypeOK
    <3> QED
      BY <3>1, <3>2
  <2>4. /\ tick' = tick /\ phase' = phase /\ arrivedAt' = arrivedAt
        /\ cancelledAt' = cancelledAt /\ location' = location
        /\ wastedTicks' = wastedTicks /\ totalWasted' = totalWasted /\ closed' = closed
    BY DEF Issue, clockVars, wasteVars
  <2>5. /\ status' = [status EXCEPT ![t] = "transit"]
        /\ etaTick' = [etaTick EXCEPT ![t] = eta]
        /\ order' = [order EXCEPT ![t] = [id |-> o, target |-> d, task |-> task]]
        /\ dispatched' = [dispatched EXCEPT ![o] =
                            [team |-> t, target |-> d, at |-> tick, eta |-> eta]]
    BY DEF StartTravel
  <2>6. TypeOK'
    <3>1. [team |-> t, target |-> d, at |-> tick, eta |-> eta] \in Dispatch
      BY <2>3 DEF Dispatch
    <3>2. [id |-> o, target |-> d, task |-> task] \in Order
      BY <2>2 DEF Order
    <3>3. usedKeys' \subseteq Key /\ executions' \in [Key -> Nat]
      BY DEF IInv, TypeOK, Accept
    <3>4. commandSeq' \in 0 .. MaxCommands /\ orderSeq' \in 0 .. MaxCommands
      BY <2>1
    <3> QED
      BY <2>2, <2>3, <2>4, <2>5, <3>1, <3>2, <3>3, <3>4 DEF IInv, TypeOK
  <2>7. dispatched[o] = NoOrder /\ arrivedAt[o] = NoTick /\ cancelledAt[o] = NoTick
    BY <2>1, <2>2 DEF IInv, Numbering
  <2>8. \A p \in OrderId : p # o => dispatched'[p] = dispatched[p]
    BY <2>2, <2>5 DEF IInv, TypeOK
  <2>9. dispatched'[o] = [team |-> t, target |-> d, at |-> tick, eta |-> eta]
    BY <2>2, <2>5 DEF IInv, TypeOK
  <2>10. Numbering'
    <3>1. [team |-> t, target |-> d, at |-> tick, eta |-> eta] \in Dispatch
      BY <2>3 DEF Dispatch
    <3> QED
      BY <2>1, <2>2, <2>3, <2>4, <2>7, <2>8, <2>9, <3>1 DEF IInv, Numbering, OrderId
  <2>11. \A u \in Team : u # t => /\ order'[u] = order[u]
                                 /\ status'[u] = status[u]
                                 /\ etaTick'[u] = etaTick[u]
    BY <2>5 DEF IInv, TypeOK
  <2>12. /\ order'[t] = [id |-> o, target |-> d, task |-> task]
         /\ status'[t] = "transit" /\ etaTick'[t] = eta
    BY <2>5 DEF IInv, TypeOK
  <2>13. \A u \in Team : order[u] # NoOrder => order[u].id \in 1 .. orderSeq
    BY HeldIds
  <2>14. \A p \in 1 .. orderSeq : p \in OrderId /\ p # o
    BY <2>1 DEF OrderId
  <2>15. order'[t] # NoOrder
    BY <2>2, <2>12, NullAssumption
  <2>16. StatusMatchesOrder'
    <3> SUFFICES ASSUME NEW u \in Team PROVE StatusFits(u)'
      BY DEF StatusMatchesOrder
    <3> USE DEF StatusFits, Due
    <3>1. CASE u = t
      BY <2>3, <2>4, <2>7, <2>9, <2>12, <2>15, <3>1, NullAssumption 
    <3>2. CASE u # t
      BY <2>4, <2>8, <2>11, <2>13, <2>14, <3>2 DEF IInv, StatusMatchesOrder
    <3> QED
      BY <3>1, <3>2
  <2>17. HeldOrderIsLatest'
    <3> SUFFICES ASSUME NEW u \in Team, order'[u] # NoOrder
                 PROVE  LatestOf(u, order[u].id)'
      BY DEF HeldOrderIsLatest
    <3> USE DEF LatestOf
    <3>1. CASE u = t
      BY <2>1, <2>4, <2>7, <2>9, <2>12, <3>1
    <3>2. CASE u # t
      <4>1. order[u] # NoOrder /\ order'[u] = order[u] /\ order[u].id \in 1 .. orderSeq
        BY <2>11, <2>13, <3>2
      <4>2. \A p \in order[u].id + 1 .. orderSeq' :
              p = o \/ (p \in OrderId /\ p # o /\ p \in order[u].id + 1 .. orderSeq)
        BY <2>1, <4>1 DEF OrderId
      <4> QED
        BY <2>1, <2>4, <2>8, <2>9, <2>14, <3>2, <4>1, <4>2 DEF IInv, HeldOrderIsLatest
    <3> QED
      BY <3>1, <3>2
  <2>18. \A p \in 1 .. orderSeq' : p = o \/ p \in 1 .. orderSeq
    BY <2>1
  <2>19. Underway'
    <3> SUFFICES ASSUME NEW p \in 1 .. orderSeq', arrivedAt[p] = NoTick, cancelledAt[p] = NoTick
                 PROVE  InHand(p)'
      BY <2>4 DEF Underway, InHand
    <3> USE DEF InHand
    <3>1. CASE p = o
      BY <2>9, <2>12, <2>15, <3>1 DEF Holds
    <3>2. CASE p \in 1 .. orderSeq
      <4> DEFINE u == dispatched[p].team
      <4> HIDE DEF u
      <4>1. p \in OrderId /\ p <= orderSeq /\ p # o /\ InHand(p)
        BY <2>1, <2>14, <3>2 DEF IInv, Underway
      <4>2. u \in Team
        BY <4>1 DEF u, IInv, Numbering, Dispatch
      <4>3. Holds(u, p) /\ status[u] = "transit" /\ dispatched'[p].team = u
        BY <2>8, <4>1 DEF u
      <4>4. u # t
        BY <4>3 DEF CanDispatch
      <4> QED
        BY <2>11, <4>2, <4>3, <4>4 DEF Holds
    <3> QED
      BY <2>18, <3>1, <3>2
  <2>20. Punctual'
    <3> SUFFICES ASSUME NEW p \in 1 .. orderSeq' PROVE OnTime(p)'
      BY DEF Punctual
    <3> USE DEF OnTime
    <3>1. CASE p = o
      BY <2>3, <2>4, <2>7, <2>9, <3>1 DEF Due
    <3>2. CASE p \in 1 .. orderSeq
      BY <2>4, <2>8, <2>14, <3>2 DEF IInv, Punctual, Due
    <3> QED
      BY <2>18, <3>1, <3>2
  <2>21. ExecutedOnce'
    BY DEF IInv, TypeOK, ExecutedOnce, Accept
  <2> QED
    BY <2>6, <2>10, <2>16, <2>17, <2>19, <2>20, <2>21 DEF IInv
<1> QED
  BY <1>1, <1>2 DEF DispatchTeam

(* Two teams never hold the same order. *)
LEMMA OneHolder ==
  ASSUME IInv, NEW t \in Team, NEW u \in Team, NEW o, Holds(t, o), Holds(u, o)
  PROVE  t = u
  BY DEF IInv, HeldOrderIsLatest, LatestOf, Holds

(* A cancellation frees the one team that holds the order. *)
LEMMA CancelInvariant ==
  ASSUME IInv, NEW o \in OrderId, NEW k \in Key, CancelOrder(o, k)
  PROVE  IInv'
<1>1. CASE Issue /\ Reject(k, \E t \in Team : Holds(t, o))
  BY <1>1, RejectInvariant
<1>2. ASSUME Issue, NEW t \in Team, Holds(t, o),
             Accept(k, IF status[t] = "working" THEN {[kind |-> "OrderCancelled"]} ELSE {}),
             Release(t),
             totalWasted' = totalWasted + Waste(t),
             wastedTicks' = [wastedTicks EXCEPT ![t] = @ + Waste(t)],
             cancelledAt' = [cancelledAt EXCEPT ![o] = tick],
             UNCHANGED <<location, closed, orderSeq, dispatched, arrivedAt>>
      PROVE  IInv'
  <2> USE <1>2
  <2>1. /\ tick' = tick /\ phase' = phase /\ commandSeq' = commandSeq + 1
        /\ phase = "running" /\ commandSeq < MaxCommands
        /\ location' = location /\ closed' = closed /\ orderSeq' = orderSeq
        /\ dispatched' = dispatched /\ arrivedAt' = arrivedAt
    BY DEF Issue, clockVars
  <2>2. /\ order[t] # NoOrder /\ order[t].id = o /\ o \in 1 .. orderSeq
        /\ tick \in Nat /\ etaTick[t] \in Nat \cup {NoTick}
    BY BoundAssumption, HeldIds DEF Holds, IInv, TypeOK
  <2>3. Waste(t) \in Nat
    BY <2>2 DEF Waste
  <2>4. /\ order'[t] = NoOrder /\ status'[t] = "idle" /\ etaTick'[t] = NoTick
        /\ \A u \in Team : u # t => /\ order'[u] = order[u]
                                    /\ status'[u] = status[u]
                                    /\ etaTick'[u] = etaTick[u]
    BY DEF Release, IInv, TypeOK
  <2>5. /\ cancelledAt'[o] = tick
        /\ \A p \in OrderId : p # o => cancelledAt'[p] = cancelledAt[p]
    BY DEF IInv, TypeOK
  <2>6. \A p \in 1 .. orderSeq : p \in OrderId
    BY BoundAssumption DEF IInv, TypeOK, OrderId
  <2>7. TypeOK'
    <3>1. usedKeys' \subseteq Key /\ executions' \in [Key -> Nat]
      BY DEF IInv, TypeOK, Accept
    <3>2. commandSeq' \in 0 .. MaxCommands
      BY <2>1, BoundAssumption DEF IInv, TypeOK
    <3> QED
      BY <2>1, <2>2, <2>3, <3>1, <3>2 DEF IInv, TypeOK, Release
  <2>8. Numbering'
    <3>1. orderSeq \in Nat /\ commandSeq \in Nat
      BY BoundAssumption DEF IInv, TypeOK
    <3> QED
      BY <2>1, <2>2, <2>5, <3>1 DEF IInv, Numbering, OrderId
  <2>9. StatusMatchesOrder'
    BY <2>1, <2>4 DEF IInv, StatusMatchesOrder, StatusFits, Due
  <2>10. HeldOrderIsLatest'
    <3> SUFFICES ASSUME NEW u \in Team, order'[u] # NoOrder
                 PROVE  LatestOf(u, order[u].id)'
      BY DEF HeldOrderIsLatest
    <3>1. u # t /\ order'[u] = order[u] /\ order[u] # NoOrder
      BY <2>4
    <3>2. order[u].id # o /\ order[u].id \in OrderId
      BY <2>2, <2>6, <3>1, OneHolder, HeldIds DEF Holds
    <3> QED
      BY <2>1, <2>5, <3>1, <3>2 DEF IInv, HeldOrderIsLatest, LatestOf
  <2>11. Underway'
    <3> SUFFICES ASSUME NEW p \in 1 .. orderSeq, arrivedAt[p] = NoTick, cancelledAt'[p] = NoTick
                 PROVE  InHand(p)'
      BY <2>1 DEF Underway, InHand
    <3>1. p # o
      BY <2>2, <2>5, NullAssumption
    <3>2. /\ cancelledAt[p] = NoTick /\ dispatched[p].team \in Team
          /\ Holds(dispatched[p].team, p) /\ status[dispatched[p].team] = "transit"
      BY <2>5, <2>6, <3>1 DEF IInv, Underway, InHand, Numbering, Dispatch
    <3>3. dispatched[p].team # t
      BY <2>2, <3>1, <3>2 DEF Holds
    <3> QED
      BY <2>1, <2>4, <3>2, <3>3 DEF InHand, Holds
  <2>12. Punctual'
    <3> SUFFICES ASSUME NEW p \in 1 .. orderSeq PROVE OnTime(p)'
      BY <2>1 DEF Punctual
    <3>1. OnTime(p)
      BY DEF IInv, Punctual
    <3>2. CASE p = o
      <4>1. (arrivedAt[o] = Due(o) /\ Due(o) <= tick) \/ (arrivedAt[o] = NoTick /\ tick < Due(o))
        BY <2>2, <3>1, <3>2 DEF OnTime, IInv, HeldOrderIsLatest, LatestOf
      <4> QED
        BY <2>1, <2>2, <2>5, <3>2, <4>1, NullAssumption DEF OnTime, Due
    <3>3. CASE p # o
      BY <2>1, <2>5, <2>6, <3>1, <3>3 DEF OnTime, Due
    <3> QED
      BY <3>2, <3>3
  <2>13. ExecutedOnce'
    BY DEF IInv, TypeOK, ExecutedOnce, Accept
  <2> QED
    BY <2>7, <2>8, <2>9, <2>10, <2>11, <2>12, <2>13 DEF IInv
<1> QED
  BY <1>1, <1>2 DEF CancelOrder

(* A clock step delivers every order that is due, and no other.            *)
LEMMA StepInvariant ==
  ASSUME IInv, Step
  PROVE  IInv'
<1>1. /\ tick \in Nat /\ tick < TotalTicks /\ TotalTicks \in Nat /\ tick' = tick + 1
      /\ orderSeq \in Nat
  BY BoundAssumption DEF Step, CanStep, IInv, TypeOK
<1>2. /\ order' = order /\ orderSeq' = orderSeq /\ dispatched' = dispatched
      /\ cancelledAt' = cancelledAt /\ usedKeys' = usedKeys /\ executions' = executions
      /\ commandSeq' = commandSeq /\ wastedTicks' = wastedTicks
      /\ totalWasted' = totalWasted /\ closed' = closed
  BY DEF Step, wasteVars, intakeVars
<1>3. phase' \in {"running", "completed"} /\ (phase' = "running" => tick' < TotalTicks)
  BY <1>1 DEF Step, CanStep, FinalTick
<1>4. \A p \in 1 .. orderSeq : p \in OrderId
  BY BoundAssumption DEF IInv, TypeOK, OrderId
<1>5. ASSUME NEW t \in Arriving
      PROVE  /\ t \in Team /\ status[t] = "transit" /\ order[t] # NoOrder
             /\ order[t] \in Order /\ order[t].id \in 1 .. orderSeq
             /\ etaTick[t] = dispatched[order[t].id].eta /\ etaTick[t] <= tick + 1
             /\ arrivedAt[order[t].id] = NoTick /\ tick < Due(order[t].id)
             /\ cancelledAt[order[t].id] = NoTick
  <2>1. t \in Team /\ status[t] = "transit" /\ etaTick[t] <= tick + 1
    BY DEF Arriving
  <2>2. order[t] # NoOrder /\ StatusFits(t)
    BY <2>1 DEF IInv, StatusMatchesOrder, StatusFits
  <2> QED
    BY <2>1, <2>2, HeldIds DEF IInv, StatusFits, HeldOrderIsLatest, LatestOf
<1>6. \A t \in Team :
        /\ t \in Arriving => /\ status'[t] = "working" /\ etaTick'[t] = NoTick
                              /\ location'[t] = order[t].target
        /\ t \notin Arriving => /\ status'[t] = status[t] /\ etaTick'[t] = etaTick[t]
                                 /\ location'[t] = location[t]
  BY DEF Step, Arrive
<1>7. \A p \in OrderId :
        /\ (\E t \in Arriving : Holds(t, p)) => arrivedAt'[p] = tick + 1
        /\ ~(\E t \in Arriving : Holds(t, p)) => arrivedAt'[p] = arrivedAt[p]
  BY DEF Step, Arrive
<1>8. ASSUME NEW p \in 1 .. orderSeq
      PROVE  dispatched[p].at \in Nat /\ dispatched[p].eta \in Nat /\ Due(p) \in Nat
             /\ dispatched[p].at <= tick
    BY <1>4 DEF IInv, Numbering, Dispatch, Due
<1>9. ASSUME NEW p \in 1 .. orderSeq, NEW t \in Arriving, Holds(t, p)
      PROVE  Due(p) = tick + 1
  <2>1. order[t].id = p
    BY <1>9 DEF Holds
  <2> QED
    BY <1>1, <1>5, <1>8, <2>1 DEF Due
<1>10. TypeOK'
  <2>1. tick' \in 0 .. TotalTicks
    BY <1>1
  <2>2. /\ status' \in [Team -> {"idle", "transit", "working"}]
        /\ etaTick' \in [Team -> Nat \cup {NoTick}]
    BY DEF Step, Arrive, IInv, TypeOK
  <2>3. location' \in [Team -> District]
    BY <1>5 DEF Step, Arrive, IInv, TypeOK, Order
  <2>4. arrivedAt' \in [OrderId -> Nat \cup {NoTick}]
    BY <1>1 DEF Step, Arrive, IInv, TypeOK
  <2> QED
    BY <1>2, <1>3, <2>1, <2>2, <2>3, <2>4 DEF IInv, TypeOK
<1>11. Numbering'
  <2>1. ASSUME NEW p \in OrderId, p > orderSeq
        PROVE  arrivedAt'[p] = NoTick
    <3>1. \A t \in Arriving : ~Holds(t, p)
      BY <1>1, <1>5, <2>1 DEF Holds
    <3> QED
      BY <1>7, <2>1, <3>1 DEF IInv, Numbering
  <2>2. ASSUME NEW p \in OrderId, p <= orderSeq
        PROVE  dispatched[p].at \in Nat /\ (cancelledAt[p] # NoTick => cancelledAt[p] \in Nat)
    BY <2>2 DEF IInv, TypeOK, Numbering, Dispatch
  <2> QED
    BY <1>1, <1>2, <1>3, <2>1, <2>2 DEF IInv, Numbering
<1>12. StatusMatchesOrder'
  <2> SUFFICES ASSUME NEW t \in Team PROVE StatusFits(t)'
    BY DEF StatusMatchesOrder
  <2>1. StatusFits(t)
    BY DEF IInv, StatusMatchesOrder
  <2>2. CASE t \in Arriving
    <3>1. Holds(t, order[t].id) /\ order[t].id \in OrderId
      BY <1>4, <1>5, <2>2 DEF Holds
    <3>2. arrivedAt'[order[t].id] = tick + 1
      BY <1>7, <2>2, <3>1
    <3> QED
      BY <1>1, <1>2, <1>5, <1>6, <2>2, <3>2, NullAssumption DEF StatusFits
  <2>3. CASE t \notin Arriving
    <3>1. status'[t] = status[t] /\ etaTick'[t] = etaTick[t] /\ location'[t] = location[t]
      BY <1>6, <2>3
    <3>2. CASE order[t] = NoOrder
      BY <1>2, <2>1, <3>1, <3>2 DEF StatusFits
    <3>3. CASE order[t] # NoOrder
      <4>1. Holds(t, order[t].id) /\ order[t].id \in OrderId /\ order[t].id \in 1 .. orderSeq
        BY <1>4, <3>3, HeldIds DEF Holds
      <4>2. ~ \E u \in Arriving : Holds(u, order[t].id)
        BY <1>5, <2>3, <4>1, OneHolder
      <4>3. arrivedAt'[order[t].id] = arrivedAt[order[t].id]
        BY <1>7, <4>1, <4>2
      <4>4. status[t] = "transit" => tick + 1 < Due(order[t].id)
        BY <1>1, <1>8, <2>1, <2>3, <4>1 DEF Arriving, StatusFits, Due
      <4> QED
        BY <1>1, <1>2, <2>1, <3>1, <4>3, <4>4 DEF StatusFits, Due
    <3> QED
      BY <3>2, <3>3
  <2> QED
    BY <2>2, <2>3
<1>13. HeldOrderIsLatest'
  BY <1>2 DEF IInv, HeldOrderIsLatest, LatestOf
<1>14. Underway'
  <2> SUFFICES ASSUME NEW p \in 1 .. orderSeq, arrivedAt'[p] = NoTick, cancelledAt[p] = NoTick
               PROVE  InHand(p)'
    BY <1>2 DEF Underway, InHand
  <2>1. arrivedAt[p] = NoTick /\ \A t \in Arriving : ~Holds(t, p)
    BY <1>1, <1>4, <1>7, NullAssumption
  <2>2. /\ dispatched[p].team \in Team /\ Holds(dispatched[p].team, p)
        /\ status[dispatched[p].team] = "transit"
    BY <1>4, <2>1 DEF IInv, Underway, InHand, Numbering, Dispatch
  <2>3. dispatched[p].team \notin Arriving
    BY <2>1, <2>2
  <2> QED
    BY <1>2, <1>6, <2>2, <2>3 DEF InHand, Holds
<1>15. Punctual'
  <2> SUFFICES ASSUME NEW p \in 1 .. orderSeq PROVE OnTime(p)'
    BY <1>2 DEF Punctual
  <2>1. OnTime(p) /\ p \in OrderId /\ Due(p)' = Due(p)
    BY <1>2, <1>4 DEF IInv, Punctual, Due
  <2>2. CASE \E t \in Arriving : Holds(t, p)
    BY <1>1, <1>7, <1>9, <2>1, <2>2 DEF OnTime
  <2>3. CASE ~ \E t \in Arriving : Holds(t, p)
    <3>1. arrivedAt'[p] = arrivedAt[p]
      BY <1>7, <2>1, <2>3
    <3>2. CASE arrivedAt[p] = Due(p) /\ Due(p) <= tick
      BY <1>1, <1>8, <2>1, <3>1, <3>2 DEF OnTime
    <3>3. CASE arrivedAt[p] = NoTick /\ cancelledAt[p] # NoTick
      <4>1. cancelledAt[p] \in Nat /\ cancelledAt[p] <= tick
        BY <1>1, <2>1, <3>3 DEF IInv, TypeOK, Numbering
      <4> QED
        BY <1>1, <1>2, <1>8, <2>1, <3>1, <3>3, <4>1 DEF OnTime
    <3>4. CASE arrivedAt[p] = NoTick /\ cancelledAt[p] = NoTick
      <4> DEFINE u == dispatched[p].team
      <4>1. u \in Team /\ Holds(u, p) /\ status[u] = "transit" /\ StatusFits(u)
        BY <2>1, <3>4
        DEF IInv, Underway, InHand, Numbering, Dispatch, StatusMatchesOrder
      <4>2. u \notin Arriving
        BY <2>3, <4>1
      <4>3. tick + 1 < Due(p)
        BY <1>1, <1>8, <4>1, <4>2 DEF Arriving, StatusFits, Due, Holds
      <4> QED
        BY <1>1, <1>2, <2>1, <3>1, <3>4, <4>3 DEF OnTime
    <3> QED
      BY <1>8, <2>1, <3>2, <3>3, <3>4, NullAssumption DEF OnTime
  <2> QED
    BY <2>2, <2>3
<1>16. ExecutedOnce'
  BY <1>2 DEF IInv, ExecutedOnce
<1> QED
  BY <1>10, <1>11, <1>12, <1>13, <1>14, <1>15, <1>16 DEF IInv

(* Every step of the engine keeps the invariant. *)
LEMMA NextInvariant ==
  ASSUME IInv, [Next]_vars
  PROVE  IInv'
<1>1. CASE UNCHANGED vars
  <2> USE <1>1 DEF vars, clockVars, teamVars, wasteVars, intakeVars, orderHist
  <2>1. TypeOK' /\ ExecutedOnce'
    BY DEF IInv, TypeOK, ExecutedOnce
  <2>2. Numbering' /\ Underway' /\ Punctual'
    BY DEF IInv, Numbering, Underway, InHand, Punctual, OnTime, Holds, Due
  <2>3. StatusMatchesOrder' /\ HeldOrderIsLatest'
    BY DEF IInv, StatusMatchesOrder, StatusFits, HeldOrderIsLatest, LatestOf, Due
  <2> QED
    BY <2>1, <2>2, <2>3 DEF IInv
<1>2. CASE Next
  BY <1>2, StepInvariant, DispatchInvariant, CancelInvariant, RouteInvariant DEF Next
<1> QED
  BY <1>1, <1>2

(* Every reachable state satisfies the invariant. *)
THEOREM Invariant == Spec => []IInv
<1>1. Init => IInv
  BY InitInvariant
<1>2. IInv /\ [Next]_vars => IInv'
  BY NextInvariant
<1> QED
  BY <1>1, <1>2, PTL DEF Spec

(* The state of teams, orders and intake keeps its types. *)
THEOREM TypeCorrect == Spec => []TypeOK
<1>1. IInv => TypeOK
  BY DEF IInv
<1> QED
  BY <1>1, Invariant, PTL

(* Every order that is not cancelled on the way arrives exactly when it is *)
(* due, however commands, retries and clock steps are interleaved          *)
(* (processTeams, dispatchTeam, cancelOrder).                              *)
THEOREM PunctualCorrect == Spec => []Punctual
<1>1. IInv => Punctual
  BY DEF IInv
<1> QED
  BY <1>1, Invariant, PTL

(* The order a team holds is the last it was given and was not cancelled. *)
THEOREM HeldOrderCorrect == Spec => []HeldOrderIsLatest
<1>1. IInv => HeldOrderIsLatest
  BY DEF IInv
<1> QED
  BY <1>1, Invariant, PTL

(* Status, ETA, place, order and log of every team agree. *)
THEOREM StatusCorrect == Spec => []StatusMatchesOrder
<1>1. IInv => StatusMatchesOrder
  BY DEF IInv
<1> QED
  BY <1>1, Invariant, PTL

(* No retry under one key executes a command twice (submitCommand). *)
THEOREM ExecutedOnceCorrect == Spec => []ExecutedOnce
<1>1. IInv => ExecutedOnce
  BY DEF IInv
<1> QED
  BY <1>1, Invariant, PTL

----------------------------------------------------------------------------
(***************************************************************************)
(* The sum of a function's values over its finite domain.                  *)
(***************************************************************************)
SumOf(f) == FoldFunction(+, 0, f)

Adding == INSTANCE FoldLaws WITH Op <- LAMBDA p, a, b : a + b

(* The function that a sum goes through, on the sets of at most n elements. *)
Small(S, n) == {T \in SUBSET S : Cardinality(T) <= n}
SumsUp(f, S, iter, n) ==
  iter = [T \in Small(S, n) |->
            IF T = {} THEN 0
            ELSE f[CHOOSE x \in T : TRUE] + iter[T \ {CHOOSE x \in T : TRUE}]]

(* Taking the chosen element out of a set leaves a smaller one. *)
LEMMA SumStep ==
  ASSUME NEW S, IsFiniteSet(S), NEW n \in Nat, NEW T \in Small(S, n + 1), T # {}
  PROVE  /\ (CHOOSE x \in T : TRUE) \in T
         /\ T \ {CHOOSE x \in T : TRUE} \in Small(S, n)
<1> DEFINE x == CHOOSE y \in T : TRUE
<1>1. x \in T
  OBVIOUS
<1>2. IsFiniteSet(T)
  BY FS_Subset DEF Small
<1> HIDE DEF x
<1>3. Cardinality(T \ {x}) = Cardinality(T) - 1 /\ Cardinality(T) \in Nat
  BY <1>1, <1>2, FS_RemoveElement, FS_CardinalityType
<1>4. Cardinality(T \ {x}) <= n
  BY <1>3 DEF Small
<1> QED BY <1>1, <1>4 DEF Small, x

(* There is such a function, for every bound on the number of elements. *)
LEMMA SumExists ==
  ASSUME NEW f, NEW S, IsFiniteSet(S), NEW N \in Nat
  PROVE  \E iter : SumsUp(f, S, iter, N)
<1> DEFINE A == {n \in 0 .. N : \E iter : SumsUp(f, S, iter, n)}
<1>1. 0 \in A
  <2>1. ASSUME NEW T \in Small(S, 0) PROVE T = {}
    <3>1. IsFiniteSet(T) /\ Cardinality(T) \in Nat /\ Cardinality(T) <= 0
      BY FS_Subset, FS_CardinalityType DEF Small
    <3>2. Cardinality(T) = 0
      BY <3>1
    <3> QED BY <3>1, <3>2, FS_EmptySet
  <2>2. SumsUp(f, S, [T \in Small(S, 0) |-> 0], 0)
    BY <2>1 DEF SumsUp
  <2> QED BY <2>2
<1>2. ASSUME NEW n \in 0 .. N - 1, n \in A PROVE n + 1 \in A
  <2>1. PICK g : SumsUp(f, S, g, n)
    BY <1>2
  <2> DEFINE c(T) == CHOOSE x \in T : TRUE
             h == [T \in Small(S, n + 1) |->
                     IF T \in Small(S, n) THEN g[T] ELSE f[c(T)] + g[T \ {c(T)}]]
  <2>2. ASSUME NEW T \in Small(S, n + 1)
        PROVE  h[T] = IF T = {} THEN 0 ELSE f[c(T)] + h[T \ {c(T)}]
    <3>0. n \in Nat
      OBVIOUS
    <3>1. T # {} => T \ {c(T)} \in Small(S, n)
      BY <3>0, SumStep
    <3>2. \A U \in Small(S, n) : U \in Small(S, n + 1)
      <4> SUFFICES ASSUME NEW U \in Small(S, n) PROVE U \in Small(S, n + 1)
        OBVIOUS
      <4>1. U \in SUBSET S /\ Cardinality(U) \in Nat /\ Cardinality(U) <= n
        BY FS_Subset, FS_CardinalityType DEF Small
      <4> QED BY <3>0, <4>1 DEF Small
    <3>3. T # {} => h[T \ {c(T)}] = g[T \ {c(T)}]
      <4> HIDE DEF c
      <4> QED BY <3>1, <3>2
    <3>4. CASE T \in Small(S, n)
      <4>1. h[T] = g[T]
        <5> HIDE DEF c
        <5> QED BY <3>4
      <4>2. g[T] = IF T = {} THEN 0 ELSE f[c(T)] + g[T \ {c(T)}]
        <5> HIDE DEF h
        <5> QED BY <2>1, <3>4 DEF SumsUp
      <4> HIDE DEF h, c
      <4> QED BY <3>3, <4>1, <4>2
    <3>5. CASE T \notin Small(S, n)
      <4>1. T # {}
        <5>1. Cardinality({}) = 0
          BY FS_EmptySet
        <5>2. {} \in Small(S, n)
          BY <3>0, <5>1 DEF Small
        <5> QED BY <3>5, <5>2
      <4>2. h[T] = f[c(T)] + g[T \ {c(T)}]
        <5> HIDE DEF c
        <5> QED BY <3>5
      <4> HIDE DEF h, c
      <4> QED BY <3>3, <4>1, <4>2
    <3> QED BY <3>4, <3>5
  <2>3. SumsUp(f, S, h, n + 1)
    <3>1. h = [T \in Small(S, n + 1) |-> IF T = {} THEN 0 ELSE f[c(T)] + h[T \ {c(T)}]]
      <4> HIDE DEF c
      <4>1. DOMAIN h = Small(S, n + 1) /\ h = [T \in Small(S, n + 1) |-> h[T]]
        OBVIOUS
      <4> HIDE DEF h
      <4> QED BY <2>2, <4>1
    <3> HIDE DEF h
    <3> QED BY <3>1 DEF SumsUp
  <2> QED BY <2>3
<1>3. \A n \in 0 .. N : n \in A
  <2> HIDE DEF A
  <2> QED BY <1>1, <1>2, Adding!UpTo
<1> QED BY <1>3

AnyOf(T) == CHOOSE x \in T : TRUE

(* The partial sums over the subsets of a set. *)
PartialSums(f, S, iter) ==
  \A T \in SUBSET S : iter[T] = IF T = {} THEN 0 ELSE f[AnyOf(T)] + iter[T \ {AnyOf(T)}]

(* The sum over a set, through its subsets. *)
LEMMA SumGoesThrough ==
  ASSUME NEW S, IsFiniteSet(S), NEW f, DOMAIN f = S
  PROVE  \E iter : SumOf(f) = iter[S] /\ PartialSums(f, S, iter)
<1> DEFINE iter == CHOOSE h : SumsUp(f, S, h, Cardinality(S))
<1>1. Small(S, Cardinality(S)) = SUBSET S
  BY FS_Subset DEF Small
<1>2. SumsUp(f, S, iter, Cardinality(S))
  BY FS_CardinalityType, SumExists
<1>3. SumOf(f) = iter[S]
  BY <1>1, Zenon DEF SumOf, FoldFunction, FoldFunctionOnSet, MapThenFoldSet, SumsUp
<1> HIDE DEF iter
<1>4. ASSUME NEW T \in SUBSET S
      PROVE  iter[T] = IF T = {} THEN 0
                       ELSE f[AnyOf(T)] + iter[T \ {AnyOf(T)}]
  BY <1>1, <1>2, Zenon DEF SumsUp, AnyOf
<1> QED BY <1>3, <1>4 DEF PartialSums

(* What holds of no elements, and of a set when it holds of the set without *)
(* its chosen element, holds of every subset of a finite set.              *)
LEMMA SubsetsByOne ==
  ASSUME NEW S, IsFiniteSet(S), NEW G, {} \in G,
         \A T \in SUBSET S : T # {} /\ T \ {AnyOf(T)} \in G => T \in G
  PROVE  S \in G
<1> DEFINE A == {n \in Nat : Small(S, n) \subseteq G}
<1>1. 0 \in A
  <2>1. ASSUME NEW T \in Small(S, 0) PROVE T = {}
    <3>1. IsFiniteSet(T) /\ Cardinality(T) \in Nat /\ Cardinality(T) <= 0
      BY FS_Subset, FS_CardinalityType DEF Small
    <3>2. Cardinality(T) = 0
      BY <3>1
    <3> QED BY <3>1, <3>2, FS_EmptySet
  <2> QED BY <2>1
<1>2. ASSUME NEW n \in Nat, n \in A PROVE n + 1 \in A
  <2> SUFFICES ASSUME NEW T \in Small(S, n + 1), T # {} PROVE T \in G
    OBVIOUS
  <2>1. T \ {AnyOf(T)} \in Small(S, n) /\ T \in SUBSET S
    BY SumStep DEF AnyOf, Small
  <2> QED BY <1>2, <2>1
<1>3. Cardinality(S) \in Nat /\ S \in Small(S, Cardinality(S))
  BY FS_CardinalityType DEF Small
<1>4. \A n \in 0 .. Cardinality(S) : n \in A
  <2> HIDE DEF A
  <2>1. \A n \in 0 .. Cardinality(S) - 1 : n \in A => n + 1 \in A
    BY <1>2
  <2> QED BY <1>1, <1>3, <2>1, Adding!UpTo
<1>5. Cardinality(S) \in A
  <2> HIDE DEF A
  <2> QED BY <1>3, <1>4
<1> QED BY <1>3, <1>5

(* Changing one summand changes the sum by the difference. *)
LEMMA SumChange ==
  ASSUME NEW S, IsFiniteSet(S), NEW f \in [S -> Int], NEW g \in [S -> Int], NEW a \in S,
         \A x \in S : x # a => g[x] = f[x]
  PROVE  SumOf(f) \in Int /\ SumOf(g) = SumOf(f) + (g[a] - f[a])
<1>0. DOMAIN f = S /\ DOMAIN g = S
  OBVIOUS
<1>1. PICK i : SumOf(f) = i[S] /\ PartialSums(f, S, i)
  BY <1>0, SumGoesThrough
<1>2. PICK j : SumOf(g) = j[S] /\ PartialSums(g, S, j)
  BY <1>0, SumGoesThrough
<1> DEFINE gain(T) == IF a \in T THEN g[a] - f[a] ELSE 0
           G == {T \in SUBSET S : i[T] \in Int /\ j[T] = i[T] + gain(T)}
<1>3. {} \in G
  <2>1. i[{}] = 0 /\ j[{}] = 0
    BY <1>1, <1>2 DEF PartialSums
  <2>2. gain({}) = 0
    OBVIOUS
  <2> HIDE DEF gain
  <2> QED BY <2>1, <2>2
<1>4. ASSUME NEW T \in SUBSET S, T # {}, T \ {AnyOf(T)} \in G PROVE T \in G
  <2> DEFINE x == AnyOf(T)
             U == T \ {x}
  <2>1. x \in T /\ x \in S
    BY <1>4 DEF AnyOf
  <2>2. i[U] \in Int /\ j[U] = i[U] + gain(U)
    BY <1>4
  <2>3. i[T] = f[x] + i[U] /\ j[T] = g[x] + j[U]
    BY <1>1, <1>2, <1>4 DEF PartialSums
  <2>4. f[x] \in Int /\ g[x] \in Int /\ f[a] \in Int /\ g[a] \in Int
    <3> HIDE DEF x
    <3> QED BY <2>1
  <2>5. IF x = a THEN gain(U) = 0 /\ gain(T) = g[a] - f[a]
        ELSE gain(U) = gain(T) /\ gain(T) \in Int /\ g[x] = f[x]
    <3> HIDE DEF x
    <3> QED BY <2>1, <2>4
  <2>6. i[T] \in Int /\ j[T] = i[T] + gain(T)
    <3> HIDE DEF x, U, gain
    <3> QED BY <2>2, <2>3, <2>4, <2>5
  <2> HIDE DEF gain
  <2> QED BY <2>6
<1>5. S \in G
  <2> HIDE DEF G
  <2> QED BY <1>3, <1>4, SubsetsByOne
<1> QED BY <1>1, <1>2, <1>5

(* A sum of nothing but zeros. *)
LEMMA SumZero ==
  ASSUME NEW S, IsFiniteSet(S), NEW f \in [S -> {0}]
  PROVE  SumOf(f) = 0
<1>0. DOMAIN f = S /\ \A x \in S : f[x] = 0
  OBVIOUS
<1>1. PICK i : SumOf(f) = i[S] /\ PartialSums(f, S, i)
  BY <1>0, SumGoesThrough
<1> DEFINE G == {T \in SUBSET S : i[T] = 0}
<1>2. {} \in G
  BY <1>1 DEF PartialSums
<1>3. ASSUME NEW T \in SUBSET S, T # {}, T \ {AnyOf(T)} \in G PROVE T \in G
  <2>1. i[T] = f[AnyOf(T)] + i[T \ {AnyOf(T)}] /\ i[T \ {AnyOf(T)}] = 0
    BY <1>1, <1>3 DEF PartialSums
  <2>2. AnyOf(T) \in S
    BY <1>3 DEF AnyOf
  <2> QED BY <1>0, <2>1, <2>2
<1>4. S \in G
  <2> HIDE DEF G
  <2> QED BY <1>2, <1>3, SubsetsByOne
<1> QED BY <1>1, <1>4

(* Larger summands have the larger sum. *)
LEMMA SumMonotone ==
  ASSUME NEW S, IsFiniteSet(S), NEW f \in [S -> Int], NEW g \in [S -> Int],
         \A x \in S : f[x] <= g[x]
  PROVE  SumOf(f) \in Int /\ SumOf(g) \in Int /\ SumOf(f) <= SumOf(g)
<1>0. DOMAIN f = S /\ DOMAIN g = S
  OBVIOUS
<1>1. PICK i : SumOf(f) = i[S] /\ PartialSums(f, S, i)
  BY <1>0, SumGoesThrough
<1>2. PICK j : SumOf(g) = j[S] /\ PartialSums(g, S, j)
  BY <1>0, SumGoesThrough
<1> DEFINE G == {T \in SUBSET S : i[T] \in Int /\ j[T] \in Int /\ i[T] <= j[T]}
<1>3. {} \in G
  BY <1>1, <1>2 DEF PartialSums
<1>4. ASSUME NEW T \in SUBSET S, T # {}, T \ {AnyOf(T)} \in G PROVE T \in G
  <2> DEFINE x == AnyOf(T)
             U == T \ {x}
  <2>1. x \in S
    BY <1>4 DEF AnyOf
  <2>2. f[x] \in Int /\ g[x] \in Int /\ f[x] <= g[x]
    <3> HIDE DEF x
    <3> QED BY <2>1
  <2>3. i[U] \in Int /\ j[U] \in Int /\ i[U] <= j[U]
    BY <1>4
  <2>4. i[T] = f[x] + i[U] /\ j[T] = g[x] + j[U]
    BY <1>1, <1>2, <1>4 DEF PartialSums
  <2>5. i[T] \in Int /\ j[T] \in Int /\ i[T] <= j[T]
    <3> HIDE DEF x, U
    <3> QED BY <2>2, <2>3, <2>4
  <2> QED BY <2>5
<1>5. S \in G
  <2> HIDE DEF G
  <2> QED BY <1>3, <1>4, SubsetsByOne
<1> QED BY <1>1, <1>2, <1>5

(* Summands of at most M add up to at most M for each that is not zero. *)
LEMMA SumBound ==
  ASSUME NEW S, IsFiniteSet(S), NEW M \in Nat, NEW f \in [S -> 0 .. M]
  PROVE  SumOf(f) \in Nat /\ SumOf(f) <= M * Cardinality({x \in S : f[x] # 0})
<1>0. DOMAIN f = S
  OBVIOUS
<1>1. PICK i : SumOf(f) = i[S] /\ PartialSums(f, S, i)
  BY <1>0, SumGoesThrough
<1> DEFINE count(T) == Cardinality({x \in T : f[x] # 0})
           G == {T \in SUBSET S : i[T] \in Nat /\ i[T] <= M * count(T)}
<1>2. ASSUME NEW T \in SUBSET S
      PROVE  IsFiniteSet({x \in T : f[x] # 0}) /\ count(T) \in Nat
  BY FS_Subset, FS_CardinalityType
<1>3. {} \in G
  <2>1. i[{}] = 0
    BY <1>1 DEF PartialSums
  <2>2. count({}) \in Nat
    BY <1>2
  <2>3. M * count({}) >= 0
    <3> HIDE DEF count
    <3> QED BY <2>2
  <2> HIDE DEF count
  <2> QED BY <2>1, <2>3
<1>4. ASSUME NEW T \in SUBSET S, T # {}, T \ {AnyOf(T)} \in G PROVE T \in G
  <2> DEFINE x == AnyOf(T)
             U == T \ {x}
  <2>1. x \in T /\ x \in S
    BY <1>4 DEF AnyOf
  <2>2. f[x] \in 0 .. M
    <3> HIDE DEF x
    <3> QED BY <2>1
  <2>3. i[U] \in Nat /\ i[U] <= M * count(U) /\ U \in SUBSET S
    BY <1>4
  <2>4. i[T] = f[x] + i[U]
    BY <1>1, <1>4 DEF PartialSums
  <2>5. count(U) \in Nat /\ count(T) \in Nat
    BY <1>2
  <2>6. IF f[x] = 0 THEN count(T) = count(U) ELSE count(T) = count(U) + 1
    <3> DEFINE A == {y \in U : f[y] # 0}
               B == {y \in T : f[y] # 0}
    <3>1. IF f[x] = 0 THEN B = A ELSE B = A \cup {x} /\ x \notin A
      <4> HIDE DEF x
      <4> QED BY <2>1
    <3>2. IsFiniteSet(A)
      BY <1>2
    <3> HIDE DEF x, A, B
    <3>3. IF f[x] = 0 THEN Cardinality(B) = Cardinality(A)
          ELSE Cardinality(B) = Cardinality(A) + 1
      BY <3>1, <3>2, FS_AddElement
    <3> QED BY <3>3 DEF A, B
  <2>7. i[T] \in Nat /\ i[T] <= M * count(T)
    <3> HIDE DEF x, U, count
    <3>1. M * (count(U) + 1) = M * count(U) + M /\ M * count(U) \in Nat
      BY <2>5
    <3> QED BY <2>2, <2>3, <2>4, <2>5, <2>6, <3>1
  <2> HIDE DEF count
  <2> QED BY <2>7
<1>5. S \in G
  <2> HIDE DEF G
  <2> QED BY <1>3, <1>4, SubsetsByOne
<1> QED BY <1>1, <1>5

----------------------------------------------------------------------------
(***************************************************************************)
(* The two sums of the wasted travel.                                      *)
(***************************************************************************)
\* The sum of a function is what the fold by addition computes.
LEMMA SumIsFold ==
  ASSUME NEW f
  PROVE  FoldFunction(+, 0, f) = SumOf(f)
BY DEF SumOf

\* The waste property in the terms of the laws about sums.
LEMMA WasteAsSums ==
  /\ WasteIsCancelledTravel <=> /\ totalWasted = SumOf(AbandonedTravel)
                                /\ totalWasted = SumOf(wastedTicks)
  /\ WasteIsCancelledTravel' <=> /\ totalWasted' = SumOf(AbandonedTravel')
                                 /\ totalWasted' = SumOf(wastedTicks')
<1>1. WasteIsCancelledTravel' <=> /\ totalWasted' = FoldFunction(+, 0, AbandonedTravel')
                                  /\ totalWasted' = FoldFunction(+, 0, wastedTicks')
  BY DEF WasteIsCancelledTravel, FoldFunction, FoldFunctionOnSet, MapThenFoldSet
<1> QED BY <1>1, SumIsFold DEF WasteIsCancelledTravel

(* Abandoned travel is a number of ticks; only issued orders have any. *)
LEMMA AbandonedType ==
  ASSUME IInv
  PROVE  /\ AbandonedTravel \in [OrderId -> Int]
         /\ wastedTicks \in [Team -> Int]
         /\ IsFiniteSet(OrderId) /\ IsFiniteSet(Team)
<1>1. ASSUME NEW o \in OrderId, cancelledAt[o] # NoTick
      PROVE  dispatched[o].eta - cancelledAt[o] \in Int
  <2>1. o \in Nat /\ orderSeq \in Nat /\ cancelledAt[o] \in Nat
    BY <1>1, BoundAssumption DEF IInv, TypeOK, OrderId
  <2>2. dispatched[o] \in Dispatch
    BY <1>1, <2>1 DEF IInv, Numbering
  <2> QED BY <2>1, <2>2 DEF Dispatch
<1>2. IsFiniteSet(OrderId) /\ IsFiniteSet(Team)
  BY BoundAssumption, TeamAssumption, FS_Interval DEF OrderId
<1>3. wastedTicks \in [Team -> Int]
  BY DEF IInv, TypeOK
<1> QED BY <1>1, <1>2, <1>3 DEF AbandonedTravel

\* Unfinished travel is a number in the next state, too.
LEMMA AbandonedTypeNext ==
  ASSUME IInv'
  PROVE  AbandonedTravel' \in [OrderId -> Int] /\ wastedTicks' \in [Team -> Int]
<1>1. (IInv => AbandonedTravel \in [OrderId -> Int] /\ wastedTicks \in [Team -> Int])'
  BY AbandonedType, PTL
<1> QED BY <1>1

(* Nothing is wasted before the first command. *)
LEMMA InitWaste == Init => WasteIsCancelledTravel
<1> SUFFICES ASSUME Init PROVE WasteIsCancelledTravel
  OBVIOUS
<1>1. wastedTicks = [t \in Team |-> 0] /\ totalWasted = 0
  BY DEF Init
<1>2. AbandonedTravel = [o \in OrderId |-> 0]
  BY DEF Init, AbandonedTravel
<1>3. IsFiniteSet(OrderId) /\ IsFiniteSet(Team)
  BY BoundAssumption, TeamAssumption, FS_Interval DEF OrderId
<1>4. wastedTicks \in [Team -> {0}] /\ AbandonedTravel \in [OrderId -> {0}]
  BY <1>1, <1>2
<1>5. SumOf(wastedTicks) = 0 /\ SumOf(AbandonedTravel) = 0
  BY <1>3, <1>4, SumZero
<1> QED BY <1>1, <1>5, WasteAsSums

(* A step that changes no order's abandoned travel keeps the sums. *)
LEMMA SameWaste ==
  ASSUME WasteIsCancelledTravel, UNCHANGED wasteVars, UNCHANGED AbandonedTravel
  PROVE  WasteIsCancelledTravel'
BY WasteAsSums DEF wasteVars

(* A new order starts with nothing abandoned. *)
LEMMA DispatchWaste ==
  ASSUME IInv, NEW t \in Team, NEW d \in District, NEW task \in Task, NEW k \in Key,
         DispatchTeam(t, d, task, k)
  PROVE  UNCHANGED wasteVars /\ UNCHANGED AbandonedTravel
<1>1. CASE Reject(k, CanDispatch(t, d, task))
  BY <1>1 DEF Reject, wasteVars, orderHist, AbandonedTravel
<1>2. CASE /\ Issue
           /\ StartTravel(t, d, task, tick + Travel[closed][location[t]][d])
           /\ UNCHANGED <<location, wasteVars, closed, arrivedAt, cancelledAt>>
  <2>1. orderSeq \in Nat /\ MaxCommands \in Nat /\ orderSeq < MaxCommands
    BY <1>2, BoundAssumption DEF IInv, TypeOK, Numbering, Issue
  <2>2. cancelledAt[orderSeq + 1] = NoTick
    BY <2>1 DEF IInv, Numbering, OrderId
  <2>3. \A o \in OrderId : o # orderSeq + 1 => dispatched'[o] = dispatched[o]
    BY <1>2 DEF StartTravel, IInv, TypeOK
  <2> QED BY <1>2, <2>2, <2>3 DEF AbandonedTravel
<1> QED BY <1>1, <1>2 DEF DispatchTeam

(* Arriving orders were not cancelled. *)
LEMMA StepWaste ==
  ASSUME IInv, Step
  PROVE  UNCHANGED wasteVars /\ UNCHANGED AbandonedTravel
<1>1. /\ UNCHANGED <<wasteVars, dispatched, cancelledAt>>
      /\ arrivedAt' = [o \in OrderId |-> IF \E t \in Arriving : Holds(t, o)
                                         THEN tick + 1 ELSE arrivedAt[o]]
  BY DEF Step, Arrive
<1>2. ASSUME NEW o \in OrderId, \E t \in Arriving : Holds(t, o)
      PROVE  cancelledAt[o] = NoTick
  BY <1>2 DEF IInv, HeldOrderIsLatest, LatestOf, Holds, Arriving
<1> QED BY <1>1, <1>2 DEF AbandonedTravel

(* A cancellation books, in both sums, the travel its order abandons. *)
LEMMA CancelWaste ==
  ASSUME IInv, IInv', WasteIsCancelledTravel, NEW o \in OrderId, NEW k \in Key,
         CancelOrder(o, k)
  PROVE  WasteIsCancelledTravel'
<1>1. CASE Reject(k, \E t \in Team : Holds(t, o))
  BY <1>1, SameWaste DEF Reject, wasteVars, orderHist, AbandonedTravel
<1>2. ASSUME NEW t \in Team, Holds(t, o),
             totalWasted' = totalWasted + Waste(t),
             wastedTicks' = [wastedTicks EXCEPT ![t] = @ + Waste(t)],
             cancelledAt' = [cancelledAt EXCEPT ![o] = tick],
             UNCHANGED <<dispatched, arrivedAt>>
      PROVE  WasteIsCancelledTravel'
  <2> DEFINE old == AbandonedTravel
             new == AbandonedTravel'
  <2>1. /\ order[t] # NoOrder /\ order[t].id = o /\ o \in 1 .. orderSeq
        /\ tick \in Nat /\ LatestOf(t, o) /\ StatusFits(t)
    BY <1>2, BoundAssumption, HeldIds
    DEF Holds, IInv, TypeOK, HeldOrderIsLatest, StatusMatchesOrder
  <2>2. dispatched[o] \in Dispatch /\ dispatched[o].at <= tick
        /\ dispatched[o].at <= dispatched[o].eta
    BY <2>1 DEF IInv, Numbering
  <2>3. old[o] = 0
    BY <2>1 DEF LatestOf, AbandonedTravel
  <2>4. \A p \in OrderId : p # o => new[p] = old[p]
    BY <1>2 DEF AbandonedTravel, IInv, TypeOK
  <2>5. new[o] = IF arrivedAt[o] = NoTick THEN dispatched[o].eta - tick ELSE 0
    <3>1. cancelledAt'[o] = tick /\ tick # NoTick
      BY <1>2, <2>1, NullAssumption DEF IInv, TypeOK
    <3> QED BY <1>2, <3>1 DEF AbandonedTravel
  <2>6. new[o] = Waste(t) /\ Waste(t) \in Int
    <3>1. CASE status[t] = "transit"
      <4>1. etaTick[t] = dispatched[o].eta /\ arrivedAt[o] = NoTick /\ tick < Due(o)
        BY <2>1, <3>1 DEF StatusFits
      <4>2. dispatched[o].eta \in Nat /\ dispatched[o].at \in Nat
        BY <2>2 DEF Dispatch
      <4> QED BY <2>1, <2>2, <2>5, <4>1, <4>2, NullAssumption DEF Waste, Due
    <3>2. CASE status[t] # "transit"
      <4>1. status[t] = "working" /\ etaTick[t] = NoTick /\ arrivedAt[o] # NoTick
        BY <2>1, <3>2 DEF StatusFits, IInv, TypeOK
      <4> QED BY <2>5, <4>1 DEF Waste
    <3> QED BY <3>1, <3>2
  <2>7. /\ old \in [OrderId -> Int] /\ new \in [OrderId -> Int] /\ o \in OrderId
        /\ wastedTicks \in [Team -> Int] /\ wastedTicks' \in [Team -> Int]
        /\ IsFiniteSet(OrderId) /\ IsFiniteSet(Team)
    <3>1. IInv => /\ old \in [OrderId -> Int] /\ wastedTicks \in [Team -> Int]
                  /\ IsFiniteSet(OrderId) /\ IsFiniteSet(Team)
      BY AbandonedType
    <3>2. IInv' => new \in [OrderId -> Int] /\ wastedTicks' \in [Team -> Int]
      BY AbandonedTypeNext
    <3> QED BY <3>1, <3>2
  <2>8. SumOf(new) = SumOf(old) + Waste(t)
    <3> HIDE DEF old, new
    <3>1. SumOf(old) \in Int /\ SumOf(new) = SumOf(old) + (new[o] - old[o])
      BY <2>4, <2>7, SumChange
    <3> QED BY <2>3, <2>6, <3>1
  <2>9. SumOf(wastedTicks') = SumOf(wastedTicks) + Waste(t)
    <3>1. \A u \in Team : u # t => wastedTicks'[u] = wastedTicks[u]
      BY <1>2 DEF IInv, TypeOK
    <3>2. wastedTicks'[t] = wastedTicks[t] + Waste(t) /\ wastedTicks[t] \in Int
      BY <1>2 DEF IInv, TypeOK
    <3>3. /\ SumOf(wastedTicks) \in Int
          /\ SumOf(wastedTicks') = SumOf(wastedTicks) + (wastedTicks'[t] - wastedTicks[t])
      BY <2>7, <3>1, SumChange
    <3> QED BY <2>6, <3>2, <3>3
  <2> QED BY <1>2, <2>8, <2>9, WasteAsSums
<1> QED BY <1>1, <1>2 DEF CancelOrder

\* Every step keeps the two accounts of the waste equal.
LEMMA NextWaste ==
  ASSUME IInv, IInv', WasteIsCancelledTravel, [Next]_vars
  PROVE  WasteIsCancelledTravel'
<1>1. CASE UNCHANGED vars
  BY <1>1, SameWaste DEF vars, wasteVars, orderHist, AbandonedTravel
<1>2. CASE Step
  BY <1>2, StepWaste, SameWaste
<1>3. ASSUME NEW k \in Key, NEW t \in Team, NEW d \in District, NEW task \in Task,
             DispatchTeam(t, d, task, k)
      PROVE  WasteIsCancelledTravel'
  BY <1>3, DispatchWaste, SameWaste
<1>4. ASSUME NEW k \in Key, NEW o \in OrderId, CancelOrder(o, k)
      PROVE  WasteIsCancelledTravel'
  BY <1>4, CancelWaste
<1>5. ASSUME NEW k \in Key, NEW r \in Route, NEW close \in BOOLEAN, SetRouteClosed(r, close, k)
      PROVE  WasteIsCancelledTravel'
  BY <1>5, SameWaste DEF SetRouteClosed, Reject, wasteVars, orderHist, AbandonedTravel
<1> QED BY <1>1, <1>2, <1>3, <1>4, <1>5 DEF Next

(* The travel wasted, in the engine's total and in the teams' counters, is *)
(* exactly the unfinished travel of the orders cancelled on the way        *)
(* (cancelOrder), whatever commands, retries and clock steps came between. *)
THEOREM WasteCorrect == Spec => []WasteIsCancelledTravel
<1>1. Init => WasteIsCancelledTravel
  BY InitWaste
<1>2. IInv /\ IInv' /\ WasteIsCancelledTravel /\ [Next]_vars => WasteIsCancelledTravel'
  BY NextWaste
<1> QED BY <1>1, <1>2, Invariant, PTL DEF Spec

----------------------------------------------------------------------------
(***************************************************************************)
(* The engine implements the life cycle of orders: every command and every *)
(* clock step of TeamOrders is a step of OrderLifecycle or changes no      *)
(* order's stage.                                                          *)
(***************************************************************************)

(* Which stage an order is in, read from the team that holds it. *)
LEMMA StageOfHeld ==
  ASSUME IInv, NEW o \in OrderId, NEW t \in Team, Holds(t, o)
  PROVE  /\ o <= orderSeq
         /\ dispatched[o] \in Dispatch /\ dispatched[o] # NoOrder
         /\ dispatched[o].team = t /\ Assigned(o) = t
         /\ Stage(o) = IF status[t] = "transit" THEN "travelling" ELSE "working"
<1>1. LatestOf(t, o)
  BY DEF IInv, HeldOrderIsLatest, Holds
<1>2. o <= orderSeq /\ dispatched[o].team = t
  BY <1>1 DEF LatestOf
<1>3. dispatched[o] \in Dispatch /\ dispatched[o] # NoOrder
  BY <1>2, NullAssumption DEF IInv, Numbering, Dispatch
<1>4. Holder(o) = {t}
  BY OneHolder DEF Holder
<1> QED
  BY <1>2, <1>3, <1>4 DEF Stage, Assigned

(* An order nobody holds was not issued yet or is closed. *)
LEMMA StageOfFree ==
  ASSUME IInv, NEW o \in OrderId, \A t \in Team : ~Holds(t, o)
  PROVE  Stage(o) = IF o <= orderSeq THEN "closed" ELSE "unissued"
<1>1. o \in Nat /\ orderSeq \in Nat
  BY BoundAssumption DEF IInv, TypeOK, OrderId
<1>2. Holder(o) = {}
  BY DEF Holder
<1>3. CASE o <= orderSeq
  BY <1>2, <1>3, NullAssumption DEF IInv, Numbering, Dispatch, Stage
<1>4. CASE ~(o <= orderSeq)
  BY <1>1, <1>4 DEF IInv, Numbering, Stage
<1> QED
  BY <1>3, <1>4

\* Exactly the order numbers beyond the counter are unissued.
LEMMA Unissued ==
  ASSUME IInv, NEW o \in OrderId
  PROVE  /\ Stage(o) = "unissued" <=> o > orderSeq
         /\ o > orderSeq => Assigned(o) = NoOrder
<1>1. o \in Nat /\ orderSeq \in Nat
  BY BoundAssumption DEF IInv, TypeOK, OrderId
<1>2. o > orderSeq => Assigned(o) = NoOrder
  BY DEF IInv, Numbering, Assigned
<1>3. CASE \E t \in Team : Holds(t, o)
  <2>1. PICK t \in Team : Holds(t, o)
    BY <1>3
  <2>2. o <= orderSeq /\ Stage(o) # "unissued"
    BY <2>1, StageOfHeld
  <2> QED
    BY <1>1, <1>2, <2>2
<1>4. CASE \A t \in Team : ~Holds(t, o)
  <2>1. Stage(o) = IF o <= orderSeq THEN "closed" ELSE "unissued"
    BY <1>4, StageOfFree
  <2> QED
    BY <1>1, <1>2, <2>1
<1> QED
  BY <1>3, <1>4

(* Stages depend on the teams' orders, their status and the log alone. *)
LEMMA SameStages ==
  ASSUME order' = order, status' = status, dispatched' = dispatched
  PROVE  Stages' = Stages /\ Assignments' = Assignments
<1>1. ASSUME NEW o \in OrderId PROVE Stage(o)' = Stage(o) /\ Assigned(o)' = Assigned(o)
  BY DEF Stage, Assigned, Holder, Holds
<1> QED
  BY <1>1 DEF Stages, Assignments

\* A new run starts as the life cycle does.
LEMMA InitRefines == Init => Lifecycle!Init
<1> SUFFICES ASSUME Init PROVE Lifecycle!Init
  OBVIOUS
<1>1. ASSUME NEW o \in OrderId PROVE Stage(o) = "unissued" /\ Assigned(o) = NoOrder
  BY DEF Init, Stage, Assigned
<1> QED
  BY <1>1 DEF Lifecycle!Init, Stages, Assignments

(* Sending a team away issues the next order and closes the one it worked on. *)
LEMMA DispatchRefines ==
  ASSUME IInv, IInv', NEW t \in Team, NEW d \in District, NEW task \in Task, NEW k \in Key,
         DispatchTeam(t, d, task, k)
  PROVE  Lifecycle!Next \/ UNCHANGED <<Stages, Assignments>>
<1>1. CASE Reject(k, CanDispatch(t, d, task))
  BY <1>1, SameStages DEF Reject, teamVars, orderHist
<1>2. CASE /\ Issue
           /\ CanDispatch(t, d, task)
           /\ StartTravel(t, d, task, tick + Travel[closed][location[t]][d])
  <2>1. /\ commandSeq \in 0 .. MaxCommands /\ orderSeq \in 0 .. MaxCommands
        /\ orderSeq <= commandSeq /\ commandSeq < MaxCommands
        /\ MaxCommands \in Nat
    BY <1>2, BoundAssumption DEF IInv, TypeOK, Numbering, Issue
  <2>2. PICK new \in OrderId : new = orderSeq + 1
    BY <2>1 DEF OrderId
  <2>3. /\ order' = [order EXCEPT ![t] = [id |-> new, target |-> d, task |-> task]]
        /\ status' = [status EXCEPT ![t] = "transit"]
        /\ dispatched' = [dispatched EXCEPT ![new] =
             [team |-> t, target |-> d, at |-> tick,
              eta |-> tick + Travel[closed][location[t]][d]]]
        /\ orderSeq' = new
    BY <1>2, <2>2 DEF StartTravel
  <2>4. order' \in [Team -> Order \cup {NoOrder}] /\ order'[t] = [id |-> new, target |-> d, task |-> task]
    BY <2>3 DEF IInv, TypeOK
  <2>5. order'[t] # NoOrder
    BY <2>2, <2>4, NullAssumption
  <2>6. Holds(t, new)' /\ status'[t] = "transit"
    <3>1. status'[t] = "transit"
      BY <2>3 DEF IInv, TypeOK
    <3>2. order'[t].id = new
      BY <2>4
    <3> QED
      BY <2>5, <3>1, <3>2 DEF Holds
  <2>7. \A u \in Team \ {t} : \A o \in OrderId : Holds(u, o)' <=> Holds(u, o)
    BY <2>3 DEF Holds, IInv, TypeOK
  <2>8. \A u \in Team \ {t} : status'[u] = status[u]
    BY <2>3 DEF IInv, TypeOK
  <2>9. Stage(new)' = "travelling" /\ Assigned(new)' = t
    <3>1. dispatched'[new] \in Dispatch /\ dispatched'[new] # NoOrder
      BY <2>1, <2>2, <2>3, NullAssumption DEF IInv, Numbering, Dispatch
    <3>2. dispatched'[new].team = t
      BY <2>2, <2>3 DEF IInv, TypeOK
    <3>3. t \in Holder(new)'
      BY <2>6 DEF Holder
    <3> QED
      BY <2>6, <3>1, <3>2, <3>3 DEF Stage, Assigned
  <2>10. status[t] # "transit"
    BY <1>2 DEF CanDispatch
  <2>11. ASSUME NEW o \in OrderId, o # new
         PROVE  /\ Stage(o)' = IF Assigned(o) = t /\ Stage(o) = "working" THEN "closed" ELSE Stage(o)
                /\ Assigned(o)' = Assigned(o)
    <3>0. dispatched'[o] = dispatched[o]
      BY <2>3, <2>11 DEF IInv, TypeOK
    <3>1. Assigned(o)' = Assigned(o)
      BY <3>0 DEF Assigned
    <3>2. ~Holds(t, o)'
      BY <2>4, <2>11 DEF Holds
    <3>3. CASE Holds(t, o)
      <4>1. Stage(o) = "working" /\ Assigned(o) = t /\ dispatched[o] # NoOrder
        BY <2>10, <3>3, StageOfHeld
      <4>2. \A u \in Team : ~Holds(u, o)'
        BY <2>7, <3>2, <3>3, OneHolder
      <4>3. Holder(o)' = {}
        BY <4>2 DEF Holder
      <4>4. Stage(o)' = "closed"
        BY <4>1, <4>3, <3>0 DEF Stage
      <4> QED
        BY <3>1, <4>1, <4>4
    <3>4. CASE ~Holds(t, o)
      <4>1. Holder(o)' = Holder(o) /\ t \notin Holder(o)
        BY <2>7, <3>2, <3>4 DEF Holder
      <4>2. Stage(o)' = Stage(o)
        BY <2>8, <3>0, <4>1 DEF Stage, Holder
      <4>3. ~(Assigned(o) = t /\ Stage(o) = "working")
        <5>1. CASE \A u \in Team : ~Holds(u, o)
          BY <5>1, StageOfFree
        <5>2. CASE \E u \in Team : Holds(u, o)
          BY <3>4, <5>2, StageOfHeld
        <5> QED
          BY <5>1, <5>2
      <4> QED
        BY <3>1, <4>2, <4>3
    <3> QED
      BY <3>3, <3>4
  <2>12. \A p \in OrderId : Stages[p] = "unissued" <=> p >= new
    BY <2>1, <2>2, Unissued DEF Stages, OrderId
  <2>13. \A p \in OrderId : Assignments[p] = t => Stages[p] # "travelling"
    <3> SUFFICES ASSUME NEW p \in OrderId, Assigned(p) = t PROVE Stage(p) # "travelling"
      BY DEF Stages, Assignments
    <3>1. CASE \A u \in Team : ~Holds(u, p)
      BY <3>1, StageOfFree
    <3>2. CASE \E u \in Team : Holds(u, p)
      BY <2>10, <3>2, StageOfHeld
    <3> QED
      BY <3>1, <3>2
  <2>14. Stages' = [p \in OrderId |->
                 IF p = new THEN "travelling"
                 ELSE IF Assignments[p] = t /\ Stages[p] = "working" THEN "closed" ELSE Stages[p]]
    BY <2>9, <2>11 DEF Stages, Assignments
  <2>15. Assignments' = [Assignments EXCEPT ![new] = t]
    BY <2>2, <2>9, <2>11 DEF Assignments
  <2>16. Stages[new] = "unissued"
    BY <2>1, <2>2, <2>12 DEF OrderId
  <2>17. Lifecycle!Issue(new, t)
    BY <2>12, <2>13, <2>14, <2>15, <2>16 DEF Lifecycle!Issue
  <2> QED
    BY <2>2, <2>17 DEF Lifecycle!Next
<1> QED
  BY <1>1, <1>2 DEF DispatchTeam

(* Cancelling closes the one order. *)
LEMMA CancelRefines ==
  ASSUME IInv, NEW o \in OrderId, NEW k \in Key, CancelOrder(o, k)
  PROVE  Lifecycle!Next \/ UNCHANGED <<Stages, Assignments>>
<1>1. CASE Reject(k, \E t \in Team : Holds(t, o))
  BY <1>1, SameStages DEF Reject, teamVars, orderHist
<1>2. ASSUME NEW t \in Team, Holds(t, o), Release(t), UNCHANGED dispatched
      PROVE  Lifecycle!Cancel(o)
  <2>1. /\ order' = [order EXCEPT ![t] = NoOrder]
        /\ status' = [status EXCEPT ![t] = "idle"]
    BY <1>2 DEF Release
  <2>2. \A p \in OrderId : ~Holds(t, p)'
    BY <2>1 DEF Holds, IInv, TypeOK
  <2>3. \A u \in Team \ {t} : status'[u] = status[u] /\ \A p \in OrderId : Holds(u, p)' <=> Holds(u, p)
    BY <2>1 DEF Holds, IInv, TypeOK
  <2>4. Stage(o) \in {"travelling", "working"} /\ dispatched[o] # NoOrder
    BY <1>2, StageOfHeld
  <2>5. Stage(o)' = "closed"
    <3>1. Holder(o)' = {}
      BY <1>2, <2>2, <2>3, OneHolder DEF Holder
    <3> QED
      BY <1>2, <2>4, <3>1 DEF Stage
  <2>6. ASSUME NEW p \in OrderId, p # o PROVE Stage(p)' = Stage(p)
    <3>1. ~Holds(t, p)
      BY <1>2, <2>6 DEF Holds
    <3>2. Holder(p)' = Holder(p) /\ t \notin Holder(p)
      BY <2>2, <2>3, <3>1 DEF Holder
    <3> QED
      BY <1>2, <2>3, <3>2 DEF Stage, Holder
  <2>7. Stages' = [Stages EXCEPT ![o] = "closed"] /\ Stages[o] \in {"travelling", "working"}
    BY <2>4, <2>5, <2>6 DEF Stages
  <2>8. Assignments' = Assignments
    BY <1>2 DEF Assignments, Assigned
  <2> QED
    BY <2>7, <2>8 DEF Lifecycle!Cancel, Lifecycle!Open
<1>3. CASE \E t \in Team : Holds(t, o) /\ Release(t) /\ UNCHANGED dispatched
  BY <1>2, <1>3 DEF Lifecycle!Next
<1> QED
  BY <1>1, <1>3 DEF CancelOrder

(* A clock step ends the travel of the orders whose teams arrive. *)
LEMMA StepRefines ==
  ASSUME IInv, Step
  PROVE  Lifecycle!Next \/ UNCHANGED <<Stages, Assignments>>
<1> DEFINE S == {o \in OrderId : \E t \in Arriving : Holds(t, o)}
<1>1. /\ order' = order /\ dispatched' = dispatched
      /\ status' = [t \in Team |-> IF t \in Arriving THEN "working" ELSE status[t]]
      /\ \A t \in Arriving : t \in Team /\ status[t] = "transit"
  BY DEF Step, Arrive, Arriving
<1>2. ASSUME NEW o \in OrderId PROVE Holder(o)' = Holder(o) /\ Assigned(o)' = Assigned(o)
  BY <1>1 DEF Holder, Holds, Assigned
<1>3. ASSUME NEW o \in S PROVE Stage(o) = "travelling" /\ Stage(o)' = "working"
  <2>1. PICK t \in Arriving : Holds(t, o)
    BY <1>3
  <2>2. Stage(o) = "travelling" /\ dispatched[o] # NoOrder
    BY <1>1, <2>1, StageOfHeld
  <2>3. Holder(o) = {t}
    BY <1>1, <2>1, OneHolder DEF Holder
  <2>4. status'[t] = "working"
    BY <1>1, <2>1
  <2> QED
    BY <1>1, <1>2, <2>2, <2>3, <2>4 DEF Stage
<1>4. ASSUME NEW o \in OrderId, o \notin S PROVE Stage(o)' = Stage(o)
  <2>1. \A t \in Holder(o) : status'[t] = status[t]
    BY <1>1, <1>4 DEF Holder
  <2> QED
    BY <1>1, <1>2, <2>1 DEF Stage
<1>5. Stages' = [o \in OrderId |-> IF o \in S THEN "working" ELSE Stages[o]]
  BY <1>3, <1>4 DEF Stages
<1>6. Assignments' = Assignments
  BY <1>2 DEF Assignments
<1>7. S \in SUBSET Lifecycle!Travelling
  BY <1>3 DEF Lifecycle!Travelling, Stages
<1> QED
  BY <1>5, <1>6, <1>7 DEF Lifecycle!Next, Lifecycle!Arrive

\* Every step of the engine is one of the life cycle or none.
LEMMA NextRefines ==
  ASSUME IInv, IInv', [Next]_vars
  PROVE  [Lifecycle!Next]_<<Stages, Assignments>>
<1>1. CASE UNCHANGED vars
  BY <1>1, SameStages DEF vars, teamVars, orderHist
<1>2. CASE Step
  BY <1>2, StepRefines
<1>3. ASSUME NEW k \in Key, NEW t \in Team, NEW d \in District, NEW task \in Task,
             DispatchTeam(t, d, task, k)
      PROVE  [Lifecycle!Next]_<<Stages, Assignments>>
  BY <1>3, DispatchRefines
<1>4. ASSUME NEW k \in Key, NEW o \in OrderId, CancelOrder(o, k)
      PROVE  [Lifecycle!Next]_<<Stages, Assignments>>
  BY <1>4, CancelRefines
<1>5. ASSUME NEW k \in Key, NEW r \in Route, NEW close \in BOOLEAN, SetRouteClosed(r, close, k)
      PROVE  [Lifecycle!Next]_<<Stages, Assignments>>
  BY <1>5, SameStages DEF SetRouteClosed, Reject, teamVars, orderHist
<1> QED
  BY <1>1, <1>2, <1>3, <1>4, <1>5 DEF Next

(* No command or clock step moves an order backwards, revives a closed one *)
(* or gives a travelling team another (dispatchTeam, cancelOrder,          *)
(* processTeams): the engine implements the abstract life cycle.           *)
THEOREM LifecycleImplemented == Spec => ImplementsLifecycle
<1>1. Init => Lifecycle!Init
  BY InitRefines
<1>2. IInv /\ IInv' /\ [Next]_vars => [Lifecycle!Next]_<<Stages, Assignments>>
  BY NextRefines
<1> QED
  BY <1>1, <1>2, Invariant, PTL DEF Spec, ImplementsLifecycle, Lifecycle!Spec

(* The life cycle itself keeps the orders of a team apart: an order that   *)
(* is issued finds its team without an open one, or closes the one it      *)
(* works on.                                                               *)
THEOREM OneOpenOrderAlways == Lifecycle!Spec => []Lifecycle!OneOpenOrder
<1> DEFINE Inv == Lifecycle!TypeOK /\ Lifecycle!OneOpenOrder
<1>1. Lifecycle!Init => Inv
  BY DEF Lifecycle!Init, Lifecycle!TypeOK, Lifecycle!OneOpenOrder, Lifecycle!Open
<1>2. ASSUME Inv, [Lifecycle!Next]_<<Stages, Assignments>> PROVE Inv'
  <2>1. ASSUME NEW o \in OrderId, NEW t \in Team, Lifecycle!Issue(o, t) PROVE Inv'
    <3>1. Lifecycle!TypeOK'
      BY <1>2, <2>1 DEF Lifecycle!Issue, Lifecycle!TypeOK, Lifecycle!Open
    <3>2. ASSUME NEW p \in OrderId, p # o, Stages'[p] \in Lifecycle!Open
          PROVE  Stages[p] \in Lifecycle!Open /\ Assignments'[p] = Assignments[p]
                 /\ Assignments[p] # t
      BY <1>2, <2>1, <3>2 DEF Lifecycle!Issue, Lifecycle!TypeOK, Lifecycle!Open
    <3>3. Assignments'[o] = t
      BY <1>2, <2>1 DEF Lifecycle!Issue, Lifecycle!TypeOK
    <3> QED
      BY <1>2, <3>1, <3>2, <3>3 DEF Lifecycle!OneOpenOrder
  <2>2. ASSUME NEW S \in SUBSET Lifecycle!Travelling, Lifecycle!Arrive(S) PROVE Inv'
    <3>1. Lifecycle!TypeOK'
      BY <1>2, <2>2 DEF Lifecycle!Arrive, Lifecycle!TypeOK, Lifecycle!Open
    <3>2. ASSUME NEW p \in OrderId
          PROVE  Stages'[p] \in Lifecycle!Open => Stages[p] \in Lifecycle!Open
      BY <1>2, <2>2 DEF Lifecycle!Arrive, Lifecycle!Travelling, Lifecycle!TypeOK, Lifecycle!Open
    <3> QED
      BY <1>2, <2>2, <3>1, <3>2 DEF Lifecycle!Arrive, Lifecycle!OneOpenOrder
  <2>3. ASSUME NEW o \in OrderId, Lifecycle!Cancel(o) PROVE Inv'
    <3>1. Lifecycle!TypeOK'
      BY <1>2, <2>3 DEF Lifecycle!Cancel, Lifecycle!TypeOK, Lifecycle!Open
    <3>2. ASSUME NEW p \in OrderId
          PROVE  Stages'[p] \in Lifecycle!Open => Stages[p] \in Lifecycle!Open
      BY <1>2, <2>3 DEF Lifecycle!Cancel, Lifecycle!TypeOK, Lifecycle!Open
    <3> QED
      BY <1>2, <2>3, <3>1, <3>2 DEF Lifecycle!Cancel, Lifecycle!OneOpenOrder
  <2>4. CASE UNCHANGED <<Stages, Assignments>>
    BY <1>2, <2>4 DEF Lifecycle!TypeOK, Lifecycle!OneOpenOrder
  <2> QED
    BY <1>2, <2>1, <2>2, <2>3, <2>4 DEF Lifecycle!Next
<1>3. Inv => Lifecycle!OneOpenOrder
  OBVIOUS
<1> QED
  BY <1>1, <1>2, <1>3, PTL DEF Lifecycle!Spec

(* So the engine's orders of a team never overlap: the refinement carries  *)
(* the abstract invariant over (dispatchTeam releases a working team's     *)
(* order before it issues the next).                                       *)
THEOREM EngineOneOpenOrder == Spec => []Lifecycle!OneOpenOrder
BY LifecycleImplemented, OneOpenOrderAlways, PTL DEF ImplementsLifecycle
===============================================================================
