----------------------------- MODULE BenchmarkRun -----------------------------
(***************************************************************************)
(* runOne of packages/benchmark/src/runner.ts: a policy plays one session  *)
(* through the SDK, and a record is made of what came back.                *)
(*                                                                         *)
(* A decision is the operations it asks for, [op, key] each, commands      *)
(* before assessments; a command may repeat a key.  The run's deadline is  *)
(* a choice at each turn of the loop.  The policy's reset and close are    *)
(* taken to return: the code puts only decide under a timeout.             *)
(***************************************************************************)
EXTENDS SdkCalls, FiniteSetsExt

CONSTANTS
  Decisions,       \* what a policy may decide: [commands, assessments], sequences of keys and of claims
  MaxPerDecision,  \* MAX_COMMANDS_PER_DECISION, MAX_ASSESSMENTS_PER_DECISION
  NoKey            \* of an operation without idempotency key

(* The keys commands are sent with, and what travels between caller and    *)
(* server.                                                                 *)
Keys      == {NoKey} \cup UNION {ToSet(d.commands) : d \in Decisions}
Claims    == UNION {ToSet(d.assessments) : d \in Decisions}
Operation == {"create", "command", "assess", "advance"} \cup Read
Request   == [n : Nat, op : Operation, key : Keys, attempt : Nat]
Result    == {"ok", "conflict", "accepted", "duplicate", "rejected", "refused", "not_completed"}
Reply     == [result : Result, completed : BOOLEAN, events : Nat]

ASSUME RunAssumption ==
  /\ MaxPerDecision \in Nat
  /\ Decisions \subseteq [commands : Seq(Keys), assessments : Seq(Claims)]
  /\ NoCall \notin Request /\ NoAnswer \notin Reply

VARIABLES
  pc,       \* what runOne does next
  todo,     \* what is left of the decision
  errors,   \* phases of the errors that no report tells of
  reports,  \* what each write came back with, as the SDK tells it
  record    \* of the RunRecord: the number of events and the phase

runVars == <<callVars, pc, todo, errors, reports, record>>

\* Faulty: a failed advance ends the loop like a completed run.
NotedUnlessAdvance(phase) == errors \cup ({phase} \ {"advance"})

Noted(phase) == errors \cup {phase}
Bounded(s) == SubSeq(s, 1, Min({Len(s), MaxPerDecision}))
Operations(d) ==
  [i \in 1..Len(Bounded(d.commands)) |-> [op |-> "command", key |-> Bounded(d.commands)[i]]]
  \o [i \in 1..Len(Bounded(d.assessments)) |-> [op |-> "assess", key |-> NoKey]]
Idle == [commands |-> <<>>, assessments |-> <<>>]

----------------------------------------------------------------------------
(* The next call of the run. *)
NextCall ==
  \/ pc \in {"create", "state", "advance", "events", "summary"} /\ Begin(pc, NoKey)
  \/ pc = "act" /\ todo # <<>> /\ Begin(Head(todo).op, Head(todo).key)
Send == NextCall /\ UNCHANGED <<pc, todo, errors, reports, record>>

(* The loop's own check; the timeout of a run is no error of a call. *)
PastDeadline ==
  /\ pc = "state" /\ call = NoCall
  /\ pc' = "events" /\ errors' = Noted("advance")
  /\ UNCHANGED <<callVars, todo, reports, record>>

(* decide: it may time out or throw, and then nothing is decided. *)
Decided(d) == todo' = Operations(d) /\ pc' = "act" /\ UNCHANGED <<callVars, reports, record>>
Decide ==
  /\ pc = "decide"
  /\ \/ \E d \in Decisions : Decided(d) /\ UNCHANGED errors
     \/ Decided(Idle) /\ errors' = Noted("decide")

Acted ==
  /\ pc = "act" /\ todo = <<>>
  /\ pc' = "advance"
  /\ UNCHANGED <<callVars, todo, errors, reports, record>>

(* What the run does with an answer: an ApiError is thrown as a failure is. *)
Threw(result) == result \in {"conflict", "refused"}
AfterAnswer ==
  CASE call.op = "create"  -> IF Threw(answer.result) THEN "failed" ELSE "state"
    [] call.op = "state"   -> "decide"
    [] call.op \in {"command", "assess"} -> "act"
    [] call.op = "advance" -> IF answer.completed THEN "events" ELSE "state"
    [] call.op = "events"  -> "summary"
    [] call.op = "summary" -> "done"

(* A failed command, assessment or advance is recorded, anything else ends *)
(* the run with the exception.                                             *)
AfterFailure ==
  CASE call.op \in {"command", "assess"} -> "act"
    [] call.op = "advance" -> "events"
    [] OTHER -> "failed"

Reported(outcome) ==
  reports' = IF call.op \in {"command", "assess", "advance"}
             THEN [n \in DOMAIN reports \cup {call.n} |->
                     IF n = call.n THEN [op |-> call.op, key |-> call.key, outcome |-> outcome]
                     ELSE reports[n]]
             ELSE reports
Consumed == todo' = IF call.op \in {"command", "assess"} THEN Tail(todo) ELSE todo

Answered ==
  /\ Returned
  /\ pc' = AfterAnswer
  /\ Consumed /\ Reported(answer.result)
  /\ UNCHANGED errors
  /\ record' = CASE call.op = "events"  -> [events |-> answer.events, completed |-> answer.completed]
                 [] call.op = "summary" -> [record EXCEPT !.completed = @ \/ answer.result = "ok"]
                 [] OTHER -> record

Unanswered ==
  /\ Failed
  /\ pc' = AfterFailure
  /\ Consumed /\ Reported("error")
  /\ errors' = IF call.op = "advance" THEN Noted("advance") ELSE errors
  /\ UNCHANGED record

Again == Retry /\ UNCHANGED <<pc, todo, errors, reports, record>>
Server == (\E r \in wire : Serve(r)) /\ UNCHANGED <<pc, todo, errors, reports, record>>

Finished == pc \in {"done", "failed"} /\ UNCHANGED runVars

RunInit ==
  /\ CallInit
  /\ pc = "create" /\ todo = <<>> /\ errors = {} /\ reports = <<>>
  /\ record = [events |-> 0, completed |-> FALSE]

RunNext ==
  \/ Send \/ PastDeadline \/ Decide \/ Acted
  \/ Answered \/ Unanswered \/ Again
  \/ Server
  \/ Finished

(* The runner's own steps are taken; the server owes nothing, and a timer  *)
(* ends each attempt it does not answer.                                   *)
RunFairness ==
  /\ WF_runVars(Send) /\ WF_runVars(Decide) /\ WF_runVars(Acted)
  /\ WF_runVars(Answered \/ Unanswered \/ Again)
RunSpec == RunInit /\ [][RunNext]_runVars /\ RunFairness

----------------------------------------------------------------------------
(***************************************************************************)
(* Properties.                                                             *)
(***************************************************************************)
Effects == {i \in DOMAIN server.log : server.log[i].effect}

(* A call reported accepted has an effect, one told to be a duplicate was  *)
(* executed.                                                               *)
Backed(n, key, outcome) ==
  /\ outcome \in {"accepted", "ok"} => \E i \in Effects : server.log[i].n = n
  /\ outcome = "duplicate" => Executed(key)

(* Whatever is lost, late or sent again, a call has at most one effect on  *)
(* the session and a key at most one command; what was reported accepted   *)
(* did happen, and a command told to be a duplicate had been executed      *)
(* (rest.ts:13-21).                                                        *)
CallsTakeEffectOnce ==
  /\ \A i, j \in Effects :
       LET e == server.log[i]
           f == server.log[j]
       IN  (e.n = f.n \/ (e.op = "command" /\ f.op = "command" /\ e.key = f.key)) => i = j
  /\ \A n \in DOMAIN reports : Backed(n, reports[n].key, reports[n].outcome)

(* A run with no error of phase "advance" in its record is of a completed  *)
(* session and its events are the whole log: calls still on their way      *)
(* cannot add to it any more (runner.ts:176-195).                          *)
RecordIsTrue ==
  (pc = "done" /\ "advance" \notin errors) => record = [events |-> Len(server.log), completed |-> TRUE]

(* A run ends, whatever the policy decides and even if the server never    *)
(* answers (runner.ts:107-182).                                            *)
RunEnds == <>(pc \in {"done", "failed"})

----------------------------------------------------------------------------
(***************************************************************************)
(* Why: what every step keeps of the requests on the wire, the log, the    *)
(* answer on its way and the place the run has reached.                    *)
(***************************************************************************)
Stage == {"create", "state", "decide", "act", "advance", "events", "summary", "done", "failed"}
Entry == [n : Nat, op : Operation, key : Keys, effect : BOOLEAN]
SessionState == [exists : BOOLEAN, tick : 0 .. TotalTicks, log : Seq(Entry)]

RunTypes ==
  /\ call \in Request \cup {NoCall} /\ answer \in Reply \cup {NoAnswer}
  /\ wire \subseteq Request /\ made \in Nat
  /\ server \in SessionState
  /\ pc \in Stage
  /\ todo \in Seq([op : {"command", "assess"}, key : Keys])
  /\ DOMAIN reports \subseteq 1 .. made
  /\ record \in [events : Nat, completed : BOOLEAN]

InFlight == wire \cup ({call} \ {NoCall})

(* Requests and entries of one number are of one operation and key; only   *)
(* what may be sent again is on the wire when it was executed already.     *)
Numbered ==
  /\ \A r \in InFlight : /\ r.n <= made /\ (r.n = 0 <=> r.op \in Read)
                         /\ r.attempt \in 1 .. Attempts(r.op)
  /\ call # NoCall => call.n \in {0, made}
  /\ \A r, q \in InFlight : r.n = q.n /\ r.n # 0 => r.op = q.op /\ r.key = q.key
  /\ \A i \in DOMAIN server.log :
       /\ server.log[i].n \in 1 .. made
       /\ \A r \in InFlight :
            server.log[i].n = r.n => server.log[i].op = r.op /\ server.log[i].key = r.key
       /\ \A r \in wire : ~Retryable(r.op) => server.log[i].n # r.n

(* The call awaited is the one the run is at; an advance is on the wire    *)
(* only while it is awaited or was given up, which ends the loop.          *)
Sequential ==
  /\ call # NoCall =>
       \/ pc \in {"create", "state", "advance", "events", "summary"} /\ call.op = pc
       \/ pc = "act" /\ todo # <<>> /\ call.op = Head(todo).op
  /\ "advance" \in errors => pc \in {"events", "summary", "done", "failed"}
  /\ \A r \in wire : r.op = "advance" => r = call \/ "advance" \in errors

(* An answer tells of what was done. *)
AnswerIsTrue ==
  answer # NoAnswer =>
    /\ call # NoCall /\ call \notin wire
    /\ call.op \in {"command", "assess", "advance"} => Backed(call.n, call.key, answer.result)
    /\ pc = "advance" => (answer.completed <=> Completed)
    /\ pc = "events" /\ "advance" \notin errors =>
         answer.events = Len(server.log) /\ answer.completed

(* The loop goes on only in a session that is not complete, and the run    *)
(* leaves it without an error only when it is.                             *)
Outlasted ==
  /\ Completed => \/ pc \in {"events", "summary", "done", "failed"}
                  \/ pc = "advance" /\ answer # NoAnswer
  /\ pc \in {"events", "summary", "done"} /\ "advance" \notin errors => Completed
  /\ pc \in {"summary", "done"} /\ "advance" \notin errors =>
       record = [events |-> Len(server.log), completed |-> TRUE]

RunInv ==
  /\ RunTypes
  /\ Numbered
  /\ Sequential
  /\ AnswerIsTrue
  /\ Outlasted
  /\ CallsTakeEffectOnce
===============================================================================
