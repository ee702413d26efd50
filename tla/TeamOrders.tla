------------------------------ MODULE TeamOrders ------------------------------
(***************************************************************************)
(* Response teams, their orders, the road network and the command intake   *)
(* of the simulation engine (packages/simulation/src/engine.ts).           *)
(*                                                                         *)
(* The engine is single-threaded: a command handler or a clock step runs   *)
(* to its end before the next one starts, so each is one action here.      *)
(* What is concurrent is the ORDER in which clients' commands, their       *)
(* retries and the clock steps reach the engine; Next leaves it open.      *)
(*                                                                         *)
(* A completed engine answers every call without touching its state: those *)
(* calls are stuttering steps and have no action.                          *)
(***************************************************************************)
EXTENDS Integers, FiniteSets, Functions

CONSTANTS
  Team,           \* teams of the scenario
  District,       \* districts of the scenario
  Route,          \* roads of the scenario
  Key,            \* idempotency keys the clients use
  TeamType,       \* [Team -> type name]
  Home,           \* [Team -> District], where a team starts
  Reschedulable,  \* the teams that may be sent elsewhere while they work
  Task,           \* the tasks clients ask for
  Travel,         \* Travel[closed][from][to]: ticks of the shortest open path
  NoPath,         \* what Travel gives when no open path exists
  NoOrder,        \* "order: null" of a team
  NoTick,         \* "etaTick: null", and a moment that has not come
  TotalTicks,     \* length of the run
  MaxCommands     \* bound on the commands submitted to a running session

(* TASK_COMPATIBILITY: which team types may carry which tasks. *)
Compatible ==
  [power_repair    |-> {"power"},
   comms_repair    |-> {"communications"},
   hazard_control  |-> {"fire"},
   medical_support |-> {"medical"},
   water_restore   |-> {"power", "fire"},
   verify          |-> {"verification"}]

OrderId == 1 .. MaxCommands

ASSUME TeamAssumption == IsFiniteSet(Team)

ASSUME ScenarioAssumption ==
  /\ Home \in [Team -> District]
  /\ Reschedulable \subseteq Team
  /\ Task \subseteq DOMAIN Compatible
  /\ Travel \in [SUBSET Route -> [District -> [District -> Nat \cup {NoPath}]]]

ASSUME BoundAssumption ==
  /\ TotalTicks \in Nat \ {0}
  /\ MaxCommands \in Nat

ASSUME NullAssumption ==
  /\ NoTick \notin Nat
  /\ NoPath \notin Nat
  /\ NoOrder \notin [id : OrderId, target : District, task : Task]
  /\ NoOrder \notin [team : Team, target : District, at : Nat, eta : Nat]

VARIABLES
  tick,         \* clock and world.tick
  phase,        \* world.phase
  status,       \* TeamState.status, per team
  etaTick,      \* TeamState.etaTick
  order,        \* TeamState.order
  location,     \* TeamState.location
  wastedTicks,  \* TeamState.wastedTicks
  totalWasted,  \* totalWastedTicks, the engine's own sum for the score
  closed,       \* the routes with closed = true
  usedKeys,     \* idempotencyKeys
  commandSeq,   \* commandSeq
  orderSeq,     \* orderSeq
  emitted       \* truth events of the last handler (the tail of eventLog)

(***************************************************************************)
(* History: what the append-only event log records of each order and of    *)
(* each key.  No handler reads these.                                      *)
(***************************************************************************)
VARIABLES
  dispatched,   \* [OrderId -> TeamDispatched payload], NoOrder before it
  arrivedAt,    \* [OrderId -> tick of TeamArrived]
  cancelledAt,  \* [OrderId -> tick of the accepted CANCEL_ORDER]
  executions    \* [Key -> number of commands accepted under that key]

clockVars   == <<tick, phase>>
teamVars    == <<status, etaTick, order, location>>
wasteVars   == <<wastedTicks, totalWasted>>
orderHist   == <<dispatched, arrivedAt, cancelledAt>>
intakeVars  == <<usedKeys, commandSeq, executions>>
vars == <<clockVars, teamVars, wasteVars, closed, intakeVars, orderSeq,
          emitted, orderHist>>

Order    == [id : OrderId, target : District, task : Task]
Dispatch == [team : Team, target : District, at : Nat, eta : Nat]

TypeOK ==
  /\ tick \in 0 .. TotalTicks
  /\ phase \in {"running", "completed"}
  /\ status \in [Team -> {"idle", "transit", "working"}]
  /\ etaTick \in [Team -> Nat \cup {NoTick}]
  /\ order \in [Team -> Order \cup {NoOrder}]
  /\ location \in [Team -> District]
  /\ wastedTicks \in [Team -> Nat]
  /\ totalWasted \in Nat
  /\ closed \subseteq Route
  /\ usedKeys \subseteq Key
  /\ commandSeq \in 0 .. MaxCommands
  /\ orderSeq \in 0 .. MaxCommands
  /\ dispatched \in [OrderId -> Dispatch \cup {NoOrder}]
  /\ arrivedAt \in [OrderId -> Nat \cup {NoTick}]
  /\ cancelledAt \in [OrderId -> Nat \cup {NoTick}]
  /\ executions \in [Key -> Nat]

Init ==
  /\ tick = 0
  /\ phase = "running"
  /\ status = [t \in Team |-> "idle"]
  /\ etaTick = [t \in Team |-> NoTick]
  /\ order = [t \in Team |-> NoOrder]
  /\ location = Home
  /\ wastedTicks = [t \in Team |-> 0]
  /\ totalWasted = 0
  /\ closed = {}
  /\ usedKeys = {}
  /\ commandSeq = 0
  /\ orderSeq = 0
  /\ emitted = {[kind |-> "ScenarioStarted"]}
  /\ dispatched = [o \in OrderId |-> NoOrder]
  /\ arrivedAt = [o \in OrderId |-> NoTick]
  /\ cancelledAt = [o \in OrderId |-> NoTick]
  /\ executions = [k \in Key |-> 0]

----------------------------------------------------------------------------
(***************************************************************************)
(* The command intake: submitCommand around each command.                  *)
(***************************************************************************)

(* What submitCommand does for every command of a running session. *)
Issue ==
  /\ phase = "running"
  /\ commandSeq < MaxCommands
  /\ commandSeq' = commandSeq + 1
  /\ UNCHANGED clockVars

\* Faulty: the remembered keys are never consulted.
AcceptAgain(k, events) ==
  /\ usedKeys' = usedKeys \cup {k}
  /\ executions' = [executions EXCEPT ![k] = @ + 1]
  /\ emitted' = events \cup {[kind |-> "CommandIssued"], [kind |-> "CommandAccepted"]}

(* The accepted path: the key is remembered, CommandAccepted follows the *)
(* command's own events.                                                 *)
Accept(k, events) ==
  /\ k \notin usedKeys
  /\ usedKeys' = usedKeys \cup {k}
  /\ executions' = [executions EXCEPT ![k] = @ + 1]
  /\ emitted' = events \cup {[kind |-> "CommandIssued"], [kind |-> "CommandAccepted"]}

(* The rejected path: a repeated key or a refused command.  Only the two   *)
(* events; in particular the key of a refused command stays unused.        *)
Reject(k, accepted) ==
  /\ k \in usedKeys \/ ~accepted
  /\ emitted' = {[kind |-> "CommandIssued"], [kind |-> "CommandRejected"]}
  /\ UNCHANGED <<usedKeys, executions, teamVars, wasteVars, closed, orderSeq, orderHist>>

----------------------------------------------------------------------------
\* Faulty: a travelling team may be sent elsewhere.
CanDispatchInTransit(t, d, task) ==
  /\ TeamType[t] \in Compatible[task]
  /\ status[t] = "working" => t \in Reschedulable
  /\ Travel[closed][location[t]][d] # NoPath

(* dispatchTeam's early returns, in one conjunction: the order of the tests *)
(* only decides the error code.                                             *)
CanDispatch(t, d, task) ==
  /\ TeamType[t] \in Compatible[task]
  /\ status[t] # "transit"
  /\ status[t] = "working" => t \in Reschedulable
  /\ Travel[closed][location[t]][d] # NoPath

StartTravel(t, d, task, eta) ==
  /\ orderSeq' = orderSeq + 1
  /\ status' = [status EXCEPT ![t] = "transit"]
  /\ etaTick' = [etaTick EXCEPT ![t] = eta]
  /\ order' = [order EXCEPT ![t] = [id |-> orderSeq + 1, target |-> d, task |-> task]]
  /\ dispatched' = [dispatched EXCEPT ![orderSeq + 1] =
                      [team |-> t, target |-> d, at |-> tick, eta |-> eta]]

(* DISPATCH_TEAM, and REQUEST_VERIFICATION and INSPECT_DISTRICT with task  *)
(* "verify".                                                               *)
DispatchTeam(t, d, task, k) ==
  /\ Issue
  /\ \/ /\ CanDispatch(t, d, task)
        /\ Accept(k, {[kind |-> "TeamDispatched", team |-> t]})
        /\ StartTravel(t, d, task, tick + Travel[closed][location[t]][d])
        /\ UNCHANGED <<location, wasteVars, closed, arrivedAt, cancelledAt>>
     \/ Reject(k, CanDispatch(t, d, task))

Holds(t, o) == order[t] # NoOrder /\ order[t].id = o

\* Faulty: the tick of the cancellation counts as travelled.
WasteOffByOne(t) ==
  IF etaTick[t] # NoTick /\ etaTick[t] > tick THEN etaTick[t] - (tick + 1) ELSE 0

(* Travel still ahead of the team, thrown away by a cancellation. *)
Waste(t) == IF etaTick[t] # NoTick /\ etaTick[t] > tick THEN etaTick[t] - tick ELSE 0

\* Faulty: the team stops but keeps the cancelled order.
ReleaseKeepsOrder(t) ==
  /\ status' = [status EXCEPT ![t] = "idle"]
  /\ etaTick' = [etaTick EXCEPT ![t] = NoTick]
  /\ UNCHANGED order

Release(t) ==
  /\ status' = [status EXCEPT ![t] = "idle"]
  /\ etaTick' = [etaTick EXCEPT ![t] = NoTick]
  /\ order' = [order EXCEPT ![t] = NoOrder]

(* CANCEL_ORDER.  The team stays where it was when it was dispatched, or   *)
(* where it works.                                                         *)
CancelOrder(o, k) ==
  /\ Issue
  /\ \/ \E t \in Team :
          /\ Holds(t, o)
          /\ Accept(k, IF status[t] = "working" THEN {[kind |-> "OrderCancelled"]} ELSE {})
          /\ Release(t)
          /\ totalWasted' = totalWasted + Waste(t)
          /\ wastedTicks' = [wastedTicks EXCEPT ![t] = @ + Waste(t)]
          /\ cancelledAt' = [cancelledAt EXCEPT ![o] = tick]
          /\ UNCHANGED <<location, closed, orderSeq, dispatched, arrivedAt>>
     \/ Reject(k, \E t \in Team : Holds(t, o))

(* CLOSE_ROUTE and REOPEN_ROUTE. *)
SetRouteClosed(r, close, k) ==
  /\ Issue
  /\ \/ /\ (r \in closed) # close
        /\ Accept(k, {[kind |-> "RouteSet"]})
        /\ closed' = IF close THEN closed \cup {r} ELSE closed \ {r}
        /\ UNCHANGED <<teamVars, wasteVars, orderSeq, orderHist>>
     \/ Reject(k, (r \in closed) # close)

----------------------------------------------------------------------------
(***************************************************************************)
(* One tick: step(), with processTeams.  The phases of step that concern   *)
(* other state (incidents, effects, observations) are in other modules.    *)
(***************************************************************************)
\* Faulty: arrival one tick after the ETA.
ArrivingLate == {t \in Team : status[t] = "transit" /\ etaTick[t] < tick + 1}

Arriving == {t \in Team : status[t] = "transit" /\ etaTick[t] <= tick + 1}

\* Faulty: the ETA survives the arrival.
ArriveKeepsEta(now) ==
  /\ status' = [t \in Team |-> IF t \in Arriving THEN "working" ELSE status[t]]
  /\ location' = [t \in Team |-> IF t \in Arriving THEN order[t].target ELSE location[t]]
  /\ arrivedAt' = [o \in OrderId |-> IF \E t \in Arriving : Holds(t, o)
                                     THEN now ELSE arrivedAt[o]]
  /\ UNCHANGED etaTick

Arrive(now) ==
  /\ status' = [t \in Team |-> IF t \in Arriving THEN "working" ELSE status[t]]
  /\ etaTick' = [t \in Team |-> IF t \in Arriving THEN NoTick ELSE etaTick[t]]
  /\ location' = [t \in Team |-> IF t \in Arriving THEN order[t].target ELSE location[t]]
  /\ arrivedAt' = [o \in OrderId |-> IF \E t \in Arriving : Holds(t, o)
                                     THEN now ELSE arrivedAt[o]]

FinalTick == tick + 1 = TotalTicks

CanStep == phase = "running" /\ tick < TotalTicks

Step ==
  /\ CanStep
  /\ tick' = tick + 1
  /\ Arrive(tick + 1)
  /\ phase' = IF FinalTick THEN "completed" ELSE phase
  /\ emitted' = [kind : {"TeamArrived"}, team : Arriving]
                  \cup {[kind |-> "SystemStateChanged"]}
                  \cup (IF FinalTick THEN {[kind |-> "ScenarioCompleted"]} ELSE {})
  /\ UNCHANGED <<order, wasteVars, closed, intakeVars, orderSeq, dispatched, cancelledAt>>

Next ==
  \/ Step
  \/ \E k \in Key :
       \/ \E t \in Team, d \in District, task \in Task : DispatchTeam(t, d, task, k)
       \/ \E o \in OrderId : CancelOrder(o, k)
       \/ \E r \in Route, close \in BOOLEAN : SetRouteClosed(r, close, k)

Spec == Init /\ [][Next]_vars

----------------------------------------------------------------------------
(***************************************************************************)
(* Properties.                                                             *)
(***************************************************************************)

(* The tick a dispatched order must arrive at: its ETA, and the next step  *)
(* when there is nothing to travel (a team sent to where it stands).       *)
Due(o) == IF dispatched[o].eta > dispatched[o].at THEN dispatched[o].eta ELSE dispatched[o].at + 1

(* Every dispatched order arrives exactly at its due tick unless it was    *)
(* cancelled before; no cancellation, re-dispatch or road closure in       *)
(* between makes another order late, early or forgotten (processTeams).    *)
OnTime(o) ==
  \/ arrivedAt[o] = Due(o) /\ Due(o) <= tick
  \/ /\ arrivedAt[o] = NoTick
     /\ tick < Due(o) \/ (cancelledAt[o] # NoTick /\ cancelledAt[o] < Due(o))
Punctual == \A o \in 1 .. orderSeq : OnTime(o)

(* The order a team holds is the last one issued to it and was never       *)
(* cancelled: a cancelled or replaced order does not come back, and two    *)
(* teams never hold one order (CANCEL_ORDER looks for "the" team of an     *)
(* order id, and the server binds verification work to it).                *)
LatestOf(t, o) ==
  /\ o <= orderSeq
  /\ dispatched[o].team = t
  /\ dispatched[o].target = order[t].target
  /\ cancelledAt[o] = NoTick
  /\ \A p \in o + 1 .. orderSeq : dispatched[p].team # t
HeldOrderIsLatest == \A t \in Team : order[t] # NoOrder => LatestOf(t, order[t].id)

(* A team's status agrees with its order, its ETA, its place and the log:  *)
(* travelling means due in the future, working means arrived and on site.  *)
StatusFits(t) ==
  /\ status[t] = "idle" <=> order[t] = NoOrder
  /\ status[t] = "transit" <=> etaTick[t] # NoTick
  /\ status[t] = "transit" => /\ etaTick[t] = dispatched[order[t].id].eta
                              /\ arrivedAt[order[t].id] = NoTick
                              /\ tick < Due(order[t].id)
  /\ status[t] = "working" => /\ location[t] = order[t].target
                              /\ arrivedAt[order[t].id] # NoTick
StatusMatchesOrder == \A t \in Team : StatusFits(t)

(* The waste that costs score is exactly the unfinished travel of orders   *)
(* cancelled on the way, whichever sum is read: cancelOrder adds to a      *)
(* team's counter and to the engine's.                                     *)
AbandonedTravel ==
  [o \in OrderId |-> IF cancelledAt[o] # NoTick /\ arrivedAt[o] = NoTick
                     THEN dispatched[o].eta - cancelledAt[o] ELSE 0]
WasteIsCancelledTravel ==
  /\ totalWasted = FoldFunction(+, 0, AbandonedTravel)
  /\ totalWasted = FoldFunction(+, 0, wastedTicks)

(* No retry executes a command twice, and a refused command leaves its key *)
(* free: the keys remembered are exactly those executed, once each (the    *)
(* promise of submitCommand's comment).                                    *)
ExecutedOnce == \A k \in Key : executions[k] = IF k \in usedKeys THEN 1 ELSE 0

(* An order's progress is never undone: each order moves through the       *)
(* abstract life cycle of OrderLifecycle.                                  *)
Holder(o) == {t \in Team : Holds(t, o)}
Stage(o) ==
  IF dispatched[o] = NoOrder THEN "unissued"
  ELSE IF \E t \in Holder(o) : status[t] = "transit" THEN "travelling"
  ELSE IF Holder(o) # {} THEN "working"
  ELSE "closed"
Assigned(o) == IF dispatched[o] = NoOrder THEN NoOrder ELSE dispatched[o].team
Stages == [o \in OrderId |-> Stage(o)]
Assignments == [o \in OrderId |-> Assigned(o)]
Lifecycle == INSTANCE OrderLifecycle WITH
  stage <- Stages, team <- Assignments, NoTeam <- NoOrder
ImplementsLifecycle == Lifecycle!Spec
----------------------------------------------------------------------------
(***************************************************************************)
(* The inductive invariant of TeamOrders_proofs.                           *)
(***************************************************************************)

(* Order numbers are issued in sequence and the log knows nothing of an    *)
(* order before it is issued; a run that is not over has a tick left.      *)
Numbering ==
  /\ orderSeq <= commandSeq
  /\ phase = "running" => tick < TotalTicks
  /\ \A o \in OrderId :
       /\ o > orderSeq => /\ dispatched[o] = NoOrder
                          /\ arrivedAt[o] = NoTick
                          /\ cancelledAt[o] = NoTick
       /\ o <= orderSeq => /\ dispatched[o] \in Dispatch
                           /\ dispatched[o].at <= tick
                           /\ dispatched[o].at <= dispatched[o].eta
                           /\ cancelledAt[o] # NoTick => cancelledAt[o] <= tick

(* An order that has neither arrived nor been cancelled is the one its     *)
(* team is travelling for: a travelling team cannot be given another one.  *)
InHand(o) ==
  arrivedAt[o] = NoTick /\ cancelledAt[o] = NoTick =>
    /\ Holds(dispatched[o].team, o)
    /\ status[dispatched[o].team] = "transit"
Underway == \A o \in 1 .. orderSeq : InHand(o)

IInv ==
  /\ TypeOK
  /\ Numbering
  /\ StatusMatchesOrder
  /\ HeldOrderIsLatest
  /\ Underway
  /\ Punctual
  /\ ExecutedOnce
===============================================================================
