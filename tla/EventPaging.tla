----------------------------- MODULE EventPaging ------------------------------
(***************************************************************************)
(* An agent reads a session's player events page by page through the       *)
(* get_events tool (packages/mcp-server/src/tools.ts, limits.ts), which    *)
(* asks the SDK (packages/sdk/src/session.ts), which asks session.events   *)
(* (packages/server/src/rpc.ts, packages/epistemics/src/store.ts).         *)
(*                                                                         *)
(* An event is its sequence number.  The session goes on while the agent   *)
(* pages, so the log may grow between two calls; the agent does what the   *)
(* tool's description tells it: the next call starts from the last event's *)
(* sequence.                                                               *)
(***************************************************************************)
EXTENDS Integers, FiniteSetsExt

CONSTANTS
  MaxEvents,    \* bound on the length of the log
  Limits,       \* the limits the agent asks for
  MaxListItems  \* MAX_LIST_ITEMS, the ceiling of one reply

ASSUME PagingAssumption ==
  /\ MaxEvents \in Nat \ {0}
  /\ Limits \subseteq Nat \ {0}
  /\ MaxListItems \in Nat \ {0}

VARIABLES
  log,        \* store.length: the log holds the events 0 .. log - 1
  after,      \* afterSequence of the agent's next call
  read        \* history: all events the agent was ever shown

vars == <<log, after, read>>

Init ==
  /\ log \in 1 .. MaxEvents
  /\ after = 0
  /\ read = {}

(* Another client's command or advance appends to the log. *)
LogGrows ==
  /\ log < MaxEvents
  /\ log' = log + 1
  /\ UNCHANGED <<after, read>>

\* Faulty: what the tool's description says, strictly after the sequence.
SinceStrictly(s) == {e \in 0 .. log - 1 : e > s}

(* store.since *)
Since(s) == {e \in 0 .. log - 1 : e >= s}

Capped(limit) == Max({1, Min({limit, MaxListItems})})

(* bound: the first Capped(limit) events. *)
Bound(S, limit) == {e \in S : Cardinality({x \in S : x < e}) < Capped(limit)}

(* nextAfterSequence *)
NextAfter(items) == IF items = {} THEN after ELSE Max(items)

GetEvents(limit) ==
  LET items == Bound(Since(after), limit)
  IN  /\ after' = NextAfter(items)
      /\ read' = read \cup items
      /\ UNCHANGED log

Next == LogGrows \/ \E limit \in Limits : GetEvents(limit)

(* The agent goes on paging; nothing makes the session go on. *)
Spec == Init /\ [][Next]_vars /\ WF_vars(\E limit \in Limits : GetEvents(limit))

----------------------------------------------------------------------------
(* Paging as the tool describes it shows the agent every event.            *)
EveryEventRead == \A e \in 0 .. MaxEvents - 1 : log > e ~> e \in read
===============================================================================
