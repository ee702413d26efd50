------------------------------- MODULE SdkCalls -------------------------------
(***************************************************************************)
(* The SDK's calls over HTTP to one session (packages/sdk/src: rest.ts,    *)
(* session.ts; packages/server/src: http.ts, rpc.ts): attempts, timeouts   *)
(* and retries, and a server that may execute a request long after its     *)
(* caller gave it up.                                                      *)
(*                                                                         *)
(* A call is made at a time, as its callers await each.  What a command or *)
(* an assessment does to the city is not modelled here; of a session's log *)
(* an entry is kept for each request that appended to it.  A reply that is *)
(* lost, late, cut off or a 5xx is the same to the caller: the attempt     *)
(* failed.  An answer beyond the byte bound or off the schema fails the    *)
(* call without a retry and is left out, as the server sends none.         *)
(***************************************************************************)
EXTENDS Integers, SequencesExt, FiniteSetsExt

CONSTANTS
  MaxAttempts,  \* maxRetries + 1
  TotalTicks,   \* length of the run; a call of advance is a tick
  NoCall, NoAnswer

ASSUME CallAssumption == MaxAttempts \in Nat \ {0} /\ TotalTicks \in Nat \ {0}

VARIABLES
  call,    \* the call being awaited: [n, op, key, attempt], n = 0 for reads
  answer,  \* the reply to its current attempt, on its way
  wire,    \* requests the server has not executed yet, also given-up ones
  made,    \* number of calls made that are no reads
  server   \* [exists, tick, log]

callVars == <<call, answer, wire, made, server>>

Read == {"state", "events", "summary"}

\* Faulty: whatever timed out is sent again.
RetryableAnyway(op) == TRUE

(* Retryability: reads always, a command by its idempotency key; creating, *)
(* assessing and advancing never.                                          *)
Retryable(op) == op \in Read \cup {"command"}
Attempts(op) == IF Retryable(op) THEN MaxAttempts ELSE 1

Completed == server.tick = TotalTicks
Executed(key) == \E e \in ToSet(server.log) : e.op = "command" /\ e.key = key /\ e.effect

----------------------------------------------------------------------------
(***************************************************************************)
(* The server: what a request changes, and its result.                     *)
(***************************************************************************)
Logged(r, effect) ==
  [server EXCEPT !.log = Append(@, [n |-> r.n, op |-> r.op, key |-> r.key, effect |-> effect])]

Replied(result, after) ==
  [after |-> after,
   reply |-> [result |-> result, completed |-> after.tick = TotalTicks, events |-> Len(after.log)]]

(* createSession: an id that exists is a conflict. *)
CreateReply(r) ==
  IF server.exists THEN {Replied("conflict", server)}
  ELSE {Replied("ok", [server EXCEPT !.exists = TRUE])}

(* sessionCommand: a completed run answers without an entry; otherwise the *)
(* result is one, and the engine, which knows the key, may refuse.         *)
CommandReply(r) ==
  IF Completed THEN {Replied("rejected", server)}
  ELSE IF Executed(r.key) THEN {Replied("duplicate", Logged(r, FALSE))}
  ELSE {Replied("accepted", Logged(r, TRUE)), Replied("rejected", Logged(r, FALSE))}

(* sessionAssess: refused for an unknown claim and after completion. *)
AssessReply(r) ==
  {Replied("refused", server)} \cup IF Completed THEN {} ELSE {Replied("ok", Logged(r, TRUE))}

(* sessionAdvance: nothing to do once completed, which is no error. *)
AdvanceReply(r) ==
  IF Completed THEN {Replied("ok", server)}
  ELSE {Replied("ok", [Logged(r, TRUE) EXCEPT !.tick = @ + 1])}

Replies(r) ==
  CASE r.op = "create"  -> CreateReply(r)
    [] r.op = "command" -> CommandReply(r)
    [] r.op = "assess"  -> AssessReply(r)
    [] r.op = "advance" -> AdvanceReply(r)
    [] r.op \in {"state", "events"} -> {Replied("ok", server)}
    [] r.op = "summary" -> {Replied(IF Completed THEN "ok" ELSE "not_completed", server)}

(* The reply reaches the caller only if it still waits for this attempt. *)
Serve(r) ==
  /\ r \in wire
  /\ \E done \in Replies(r) :
       /\ server' = done.after
       /\ answer' = IF r = call THEN done.reply ELSE answer
  /\ wire' = wire \ {r}
  /\ UNCHANGED <<call, made>>

----------------------------------------------------------------------------
(***************************************************************************)
(* The caller.                                                             *)
(***************************************************************************)
Begin(op, key) ==
  LET n == IF op \in Read THEN 0 ELSE made + 1
      c == [n |-> n, op |-> op, key |-> key, attempt |-> 1]
  IN  /\ call = NoCall
      /\ call' = c /\ made' = Max({n, made}) /\ wire' = wire \cup {c}
      /\ UNCHANGED <<answer, server>>

\* Faulty: reading waits as long as it takes.
GivesUpWrites == call # NoCall /\ call.op \notin Read

(* sendOnce ends every attempt after timeoutMs. *)
GivesUp == call # NoCall

(* What is given up may have been executed, may be executed later, or     *)
(* stays on the wire for ever.  Nothing waits for a read any more.         *)
Abandoned == wire \ IF call.op \in Read THEN {call} ELSE {}

(* An attempt that is not the last is made again. *)
Retry ==
  /\ GivesUp
  /\ call.attempt < Attempts(call.op)
  /\ LET again == [call EXCEPT !.attempt = @ + 1]
     IN  /\ call' = again
         /\ wire' = Abandoned \cup {again}
  /\ answer' = NoAnswer
  /\ UNCHANGED <<made, server>>

(* The call ends, with its reply or with none after the last attempt. *)
Returned ==
  /\ call # NoCall /\ answer # NoAnswer
  /\ UNCHANGED <<wire, made, server>>
  /\ call' = NoCall /\ answer' = NoAnswer
Failed ==
  /\ GivesUp
  /\ call.attempt = Attempts(call.op)
  /\ wire' = Abandoned
  /\ call' = NoCall /\ answer' = NoAnswer
  /\ UNCHANGED <<made, server>>

CallInit ==
  /\ call = NoCall /\ answer = NoAnswer /\ wire = {} /\ made = 0
  /\ server = [exists |-> FALSE, tick |-> 0, log |-> <<>>]
===============================================================================
