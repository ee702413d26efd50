------------------------------ MODULE RouteGraph ------------------------------
(***************************************************************************)
(* Travel times over the open roads: shortestTravelPath of                 *)
(* packages/simulation/src/graph.ts, Dijkstra's algorithm with the loop    *)
(* bound and the early exits of the code, and the reference it is checked  *)
(* against.  A road network is a function from roads to                    *)
(* [from, to, ticks] records.                                              *)
(***************************************************************************)
EXTENDS Integers, SequencesExt

CONSTANT NoPath   \* the result null

(* The edges of the adjacency map: every open road, both ways. *)
Edges(roads, closed) ==
  {[from |-> roads[r].from, to |-> roads[r].to, ticks |-> roads[r].ticks] :
     r \in DOMAIN roads \ closed}
  \cup {[from |-> roads[r].to, to |-> roads[r].from, ticks |-> roads[r].ticks] :
     r \in DOMAIN roads \ closed}

(* The costs at which a road leads from one district to the next.          *)
StepCosts(d, e, edges) == {x.ticks : x \in {y \in edges : y.from = d /\ y.to = e}}

Frontier(s) == DOMAIN s.dist \ s.visited
Closest(s) == CHOOSE d \in Frontier(s) : \A e \in Frontier(s) : s.dist[d] <= s.dist[e]
Neighbours(c, edges) == {e.to : e \in {x \in edges : x.from = c}}
Relaxed(s, c, d, edges) ==
  Min({s.dist[c] + x : x \in StepCosts(c, d, edges)} \cup {s.dist[e] : e \in DOMAIN s.dist \cap {d}})

\* Faulty: a district once reached keeps its first distance.
SettleFirstOffer(s, to, edges) ==
  LET next == Closest(s)
  IN  IF Frontier(s) = {} \/ next = to
      THEN s
      ELSE [visited |-> s.visited \cup {next},
            dist |-> [d \in DOMAIN s.dist \cup Neighbours(next, edges) |->
                        IF d \in DOMAIN s.dist THEN s.dist[d] ELSE Relaxed(s, next, d, edges)]]

(* One pass of the while loop.  s.dist holds the tentative distances of    *)
(* the districts reached so far; the pass settles the closest of them, or  *)
(* breaks off when none is left or when it is the destination.             *)
Settle(s, to, edges) ==
  LET next == Closest(s)
  IN  IF Frontier(s) = {} \/ next = to
      THEN s
      ELSE [visited |-> s.visited \cup {next},
            dist |-> [d \in DOMAIN s.dist \cup Neighbours(next, edges) |-> Relaxed(s, next, d, edges)]]

(* visited.size < graph.size + 1, where graph has the districts with an    *)
(* open road: each pass settles one district, so the loop makes at most    *)
(* that many passes.                                                       *)
Passes(edges) == Cardinality({e.from : e \in edges}) + 1

ShortestTravel(from, to, roads, closed) ==
  LET edges == Edges(roads, closed)
      start == [visited |-> {}, dist |-> [d \in {from} |-> 0]]
      loop[n \in 0 .. Passes(edges)] ==
        IF n = 0 THEN start ELSE Settle(loop[n - 1], to, edges)
      dist == loop[Passes(edges)].dist
  IN  IF from = to THEN 0
      ELSE IF to \in DOMAIN dist THEN dist[to] ELSE NoPath

(* Travel times as TeamOrders takes them. *)
TravelTable(districts, roads) ==
  [closed \in SUBSET DOMAIN roads |->
     [from \in districts |->
        [to \in districts |-> ShortestTravel(from, to, roads, closed)]]]

(* What the algorithm is checked against: the least total over all routes  *)
(* with no more stops than there are districts, and NoPath when there is   *)
(* none.                                                                   *)
Walks(from, to, districts, edges) ==
  {w \in UNION {[1 .. n -> districts] : n \in 1 .. Cardinality(districts)} :
     /\ w[1] = from /\ w[Len(w)] = to
     /\ \A i \in 1 .. Len(w) - 1 : StepCosts(w[i], w[i + 1], edges) # {}}
WalkTicks(w, edges) ==
  LET after[i \in DOMAIN w] ==
        IF i = 1 THEN 0 ELSE after[i - 1] + Min(StepCosts(w[i - 1], w[i], edges))
  IN  after[Len(w)]
ReferenceTravel(from, to, districts, edges) ==
  LET walks == Walks(from, to, districts, edges)
  IN  IF walks = {} THEN NoPath ELSE Min({WalkTicks(w, edges) : w \in walks})
===============================================================================
