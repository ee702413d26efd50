------------------------------ MODULE EventFeed -------------------------------
(***************************************************************************)
(* How a session's player events reach the browsers: the append-only log   *)
(* of a session, the WebSocket subscription with its hello, the REST       *)
(* replies that carry the same events, and the browser's reducer           *)
(* (packages/server/src/hub.ts, ws.ts, epistemics/src/store.ts;            *)
(* apps/command-center/src/api/ws.ts, state/sessionReducer.ts and          *)
(* routes/CommandCenterPage.tsx).                                          *)
(*                                                                         *)
(* An event is its sequence number, a batch the interval of numbers it     *)
(* carries.  A socket delivers in order; REST replies travel on other      *)
(* connections, in any order among themselves and with the socket.         *)
(***************************************************************************)
EXTENDS Integers, Sequences, FiniteSetsExt, SequencesExt

CONSTANTS
  Browser,     \* pages showing the session
  Operator,    \* those that also send commands over REST
  MaxEvents,   \* bound on the length of the log
  MaxBatch,    \* bound on the events of one handler
  MaxDrops     \* bound on lost sockets and lost replies

ASSUME FeedAssumption ==
  /\ Operator \subseteq Browser
  /\ MaxEvents \in Nat /\ MaxBatch \in Nat /\ MaxDrops \in Nat

VARIABLES
  log,        \* store.length: the log holds the events 0 .. log - 1
  page,       \* the page's load: "loading", "requested", "ready", "failed"
  socket,     \* "down"; "joined": subscribed, hello on its way; "greeted"
  queue,      \* [Browser -> batches on the socket, oldest first]
  replies,    \* [Browser -> the batches of REST replies on their way]
  last,       \* lastAppliedSequence
  applied,    \* the events the reducer applied, in that order
  drops,      \* sockets and replies lost so far
  joinedAt    \* history: length of the log when the socket was last opened

feedVars == <<log, page, socket, queue, replies, last, applied, drops, joinedAt>>

\* The events from .. to, in the order a batch carries them.
Run(from, to) == [i \in 1 .. to - from + 1 |-> from + i - 1]

\* The log of a new session holds SessionStarted.
FeedInit ==
  /\ log = 1
  /\ page = [b \in Browser |-> "loading"]
  /\ socket = [b \in Browser |-> "down"]
  /\ queue = [b \in Browser |-> <<>>]
  /\ replies = [b \in Browser |-> {}]
  /\ last = [b \in Browser |-> -1]
  /\ applied = [b \in Browser |-> <<>>]
  /\ drops = 0
  /\ joinedAt = [b \in Browser |-> 0]

----------------------------------------------------------------------------
(***************************************************************************)
(* The server.                                                             *)
(***************************************************************************)
New(n) == [from |-> log, to |-> log + n - 1]

(* A handler broadcasts its n events in one message, or in more: one per   *)
(* tick of an advance, and the CommandResult of a command by itself.       *)
Messages(n, k) ==
  IF k = n THEN <<New(n)>>
  ELSE <<[from |-> log, to |-> log + k - 1], [from |-> log + k, to |-> log + n - 1]>>

\* Faulty: a slow client is skipped instead of dropped.
BroadcastUnlessBusy(messages) ==
  queue' = [b \in Browser |-> IF socket[b] # "down" /\ queue[b] = <<>>
                              THEN messages ELSE queue[b]]

(* broadcast: every subscriber, whether or not it has said hello. *)
Broadcast(messages) ==
  queue' = [b \in Browser |-> IF socket[b] # "down" THEN queue[b] \o messages ELSE queue[b]]

(* A handler appends n events on behalf of someone else: another client's  *)
(* command, advance or assessment.                                         *)
Publish(n) ==
  /\ log + n <= MaxEvents
  /\ log' = log + n
  /\ \E k \in 1 .. n : Broadcast(Messages(n, k))
  /\ UNCHANGED <<page, socket, replies, last, applied, drops, joinedAt>>

(* A REST write of this page: the handler broadcasts its events and then   *)
(* returns all of them in the reply as well.                               *)
Write(b, n) ==
  /\ b \in Operator /\ page[b] = "ready"
  /\ log + n <= MaxEvents
  /\ log' = log + n
  /\ \E k \in 1 .. n : Broadcast(Messages(n, k))
  /\ replies' = [replies EXCEPT ![b] = @ \cup {New(n)}]
  /\ UNCHANGED <<page, socket, last, applied, drops, joinedAt>>

(* store.since: from the sequence asked for, inclusive. *)
Since(s) == [from |-> s, to |-> log - 1]

(* hello: the backlog from 0 goes down the socket. *)
Hello(b) ==
  /\ socket[b] = "joined"
  /\ socket' = [socket EXCEPT ![b] = "greeted"]
  /\ queue' = [queue EXCEPT ![b] = Append(@, Since(0))]
  /\ UNCHANGED <<log, page, replies, last, applied, drops, joinedAt>>

----------------------------------------------------------------------------
(***************************************************************************)
(* The browser.                                                            *)
(***************************************************************************)
\* Faulty: the last applied event is applied again.
FreshInclusive(b, batch) == Run(Max({batch.from, last[b]}), batch.to)

(* What the filter of applyNewEvents leaves of a batch: the events above   *)
(* the last one applied.                                                   *)
Fresh(b, batch) == Run(Max({batch.from, last[b] + 1}), batch.to)

(* applyNewEvents *)
ApplyNew(b, batch) ==
  LET fresh == Fresh(b, batch)
  IN  /\ applied' = [applied EXCEPT ![b] = @ \o fresh]
      /\ last' = [last EXCEPT ![b] = Max({@} \cup Range(fresh))]

(* The page's mount: GET events since 0. *)
Load(b) ==
  /\ page[b] = "loading"
  /\ page' = [page EXCEPT ![b] = "requested"]
  /\ replies' = [replies EXCEPT ![b] = @ \cup {Since(0)}]
  /\ UNCHANGED <<log, socket, queue, last, applied, drops, joinedAt>>

(* A reply arrives; the first one is the backlog and lets the page open    *)
(* its socket.                                                             *)
ReceiveReply(b, batch) ==
  /\ batch \in replies[b]
  /\ replies' = [replies EXCEPT ![b] = @ \ {batch}]
  /\ page' = [page EXCEPT ![b] = "ready"]
  /\ ApplyNew(b, batch)
  /\ UNCHANGED <<log, socket, queue, drops, joinedAt>>

(* A reply is lost: a page without its backlog gives up. *)
LoseReply(b, batch) ==
  /\ batch \in replies[b]
  /\ drops < MaxDrops
  /\ drops' = drops + 1
  /\ replies' = [replies EXCEPT ![b] = @ \ {batch}]
  /\ page' = [page EXCEPT ![b] = IF @ = "requested" THEN "failed" ELSE @]
  /\ UNCHANGED <<log, socket, queue, last, applied, joinedAt>>

\* Faulty: the page opens its socket once.
CanConnectOnce(b) == page[b] = "ready" /\ socket[b] = "down" /\ drops = 0

CanConnect(b) == page[b] = "ready" /\ socket[b] = "down"

(* connect, first or after a delay: the upgrade subscribes on the server,  *)
(* and the page's hello is on its way.                                     *)
Connect(b) ==
  /\ CanConnect(b)
  /\ socket' = [socket EXCEPT ![b] = "joined"]
  /\ joinedAt' = [joinedAt EXCEPT ![b] = log]
  /\ UNCHANGED <<log, page, queue, replies, last, applied, drops>>

ReceiveSocket(b) ==
  /\ queue[b] # <<>>
  /\ queue' = [queue EXCEPT ![b] = Tail(@)]
  /\ ApplyNew(b, Head(queue[b]))
  /\ UNCHANGED <<log, page, socket, replies, drops, joinedAt>>

(* The socket breaks, or the server drops a slow client: what is on it is  *)
(* lost.                                                                   *)
Disconnect(b) ==
  /\ socket[b] # "down"
  /\ drops < MaxDrops
  /\ drops' = drops + 1
  /\ socket' = [socket EXCEPT ![b] = "down"]
  /\ queue' = [queue EXCEPT ![b] = <<>>]
  /\ UNCHANGED <<log, page, replies, last, applied, joinedAt>>

FeedNext ==
  \/ \E n \in 1 .. MaxBatch : Publish(n) \/ \E b \in Browser : Write(b, n)
  \/ \E b \in Browser :
       \/ Load(b) \/ Connect(b) \/ Hello(b) \/ ReceiveSocket(b) \/ Disconnect(b)
       \/ \E batch \in replies[b] : ReceiveReply(b, batch) \/ LoseReply(b, batch)

(* What is sent arrives unless it is lost, and the page keeps reconnecting *)
(* (scheduleReconnect); nobody has to write, and nothing has to be lost.   *)
Fairness ==
  \A b \in Browser :
    /\ WF_feedVars(Load(b))
    /\ WF_feedVars(Connect(b))
    /\ WF_feedVars(Hello(b))
    /\ WF_feedVars(ReceiveSocket(b))
    /\ WF_feedVars(\E batch \in replies[b] : ReceiveReply(b, batch))

FeedSpec == FeedInit /\ [][FeedNext]_feedVars /\ Fairness

----------------------------------------------------------------------------
(* No event is applied twice or after a later one, although the socket and *)
(* the replies carry copies of the same events (applyNewEvents).           *)
AppliedOnceInOrder ==
  \A b \in Browser : \A i, j \in DOMAIN applied[b] : i < j => applied[b][i] < applied[b][j]

(* A page that only watches misses no event published while its socket is *)
(* up, hello and backlog included: what is missing below the last applied  *)
(* event was published before the socket was opened (broadcast, send).     *)
WatcherMissesOnlyWhileAway ==
  \A b \in Browser \ Operator : \A s \in joinedAt[b] .. last[b] : Contains(applied[b], s)

----------------------------------------------------------------------------
(***************************************************************************)
(* Why: what every step keeps of the pages, and of those that only watch.  *)
(***************************************************************************)
(* Batches of events the log holds. *)
Published == {b \in [from : Nat, to : Nat] : b.from <= b.to /\ b.to < log}

(* Types, and of each page that its last applied event is the last of its  *)
(* applied events at most, and one of the log.                             *)
PagesInv ==
  /\ log \in Nat /\ log >= 1
  /\ page \in [Browser -> {"loading", "requested", "ready", "failed"}]
  /\ socket \in [Browser -> {"down", "joined", "greeted"}]
  /\ queue \in [Browser -> Seq(Published)]
  /\ replies \in [Browser -> SUBSET Published]
  /\ last \in [Browser -> Int]
  /\ applied \in [Browser -> Seq(Int)]
  /\ drops \in Nat
  /\ joinedAt \in [Browser -> Nat]
  /\ \A b \in Browser : -1 <= last[b] /\ last[b] < log
  /\ \A b \in Browser : \A i \in DOMAIN applied[b] : applied[b][i] <= last[b]

(* Before its backlog a watching page has nothing, and the backlog is the  *)
(* only reply it ever asks for.                                            *)
WatcherWaits(b) ==
  /\ page[b] \in {"loading", "requested"} =>
       socket[b] = "down" /\ last[b] = -1 /\ applied[b] = <<>> /\ joinedAt[b] = 0
  /\ page[b] # "requested" => replies[b] = {}
  /\ \A r, q \in replies[b] : r = q /\ r.from = 0

(* Whoever applied the first i messages of page b's queue has no gap below *)
(* event s but what was published before the socket was opened.            *)
Reached(b, i, s) ==
  \/ s <= joinedAt[b] \/ s <= last[b] + 1
  \/ \E j \in 1 .. i : s <= queue[b][j].to + 1

(* The socket of a watching page carries every event from its opening on.  *)
SocketGapless(b) ==
  /\ socket[b] = "down" => queue[b] = <<>>
  /\ \A i \in DOMAIN queue[b] : Reached(b, i - 1, queue[b][i].from)
  /\ socket[b] # "down" => Reached(b, Len(queue[b]), log)

FeedInv ==
  /\ PagesInv
  /\ AppliedOnceInOrder
  /\ \A b \in Browser \ Operator : WatcherWaits(b) /\ SocketGapless(b)
  /\ WatcherMissesOnlyWhileAway

----------------------------------------------------------------------------
(* Every page that got its backlog reaches the end of the log, whatever    *)
(* was lost on the way.                                                    *)
CatchesUp ==
  \A b \in Browser : \A n \in 1 .. MaxEvents :
    (page[b] = "ready" /\ log = n) ~> last[b] >= n - 1

(* What the command center's decision record says of merging by sequence:  *)
(* the page's state is the one rebuilt from the whole stream.  Once all    *)
(* is delivered, every event of the log has been applied.                  *)
RebuildsFromStream ==
  \A b \in Browser :
    socket[b] = "greeted" /\ queue[b] = <<>> /\ replies[b] = {} =>
      applied[b] = [i \in 1 .. log |-> i - 1]
===============================================================================
