--------------------------- MODULE Callers_proofs -----------------------------
(***************************************************************************)
(* Proofs about those who call the server from outside.  First a benchmark *)
(* run over a connection that loses, delays and repeats: calls take effect *)
(* once, and the record is the run's, for any policy, any number of        *)
(* attempts and any length of run.  Then an agent that pages through a     *)
(* session's claims while the list changes under it, for any page sizes,   *)
(* any ceiling and any claims.                                             *)
(***************************************************************************)
EXTENDS BenchmarkRun, ClaimPaging, SequenceTheorems, FiniteSetTheorems, TLAPS

Write == {"command", "assess", "advance"}

(* The larger and the smaller of two numbers. *)
LEMMA MaxOfTwo ==
  ASSUME NEW a \in Nat, NEW b \in Nat
  PROVE  Max({a, b}) = IF a <= b THEN b ELSE a
<1> DEFINE m == IF a <= b THEN b ELSE a
           IsMax(x) == x \in {a, b} /\ \A y \in {a, b} : x >= y
<1>1. IsMax(m)
  OBVIOUS
<1>2. \A x : IsMax(x) => x = m
  OBVIOUS
<1>3. Max({a, b}) = CHOOSE x \in {a, b} : \A y \in {a, b} : x >= y
  BY DEF Max
<1>4. (CHOOSE x \in {a, b} : \A y \in {a, b} : x >= y) = m
  BY <1>1, <1>2
<1> QED BY <1>3, <1>4

LEMMA MinOfTwo ==
  ASSUME NEW a \in Nat, NEW b \in Nat
  PROVE  Min({a, b}) = IF a <= b THEN a ELSE b
<1> DEFINE m == IF a <= b THEN a ELSE b
           IsMin(x) == x \in {a, b} /\ \A y \in {a, b} : x <= y
<1>1. IsMin(m)
  OBVIOUS
<1>2. \A x : IsMin(x) => x = m
  OBVIOUS
<1>3. Min({a, b}) = CHOOSE x \in {a, b} : \A y \in {a, b} : x <= y
  BY DEF Min
<1>4. (CHOOSE x \in {a, b} : \A y \in {a, b} : x <= y) = m
  BY <1>1, <1>2
<1> QED BY <1>3, <1>4

(* What a decision asks for is a sequence of operations with known keys.   *)
LEMMA OperationsTyped ==
  ASSUME NEW d \in Decisions \cup {Idle}
  PROVE  Operations(d) \in Seq([op : {"command", "assess"}, key : Keys])
<1> DEFINE Op == [op : {"command", "assess"}, key : Keys]
<1>1. /\ d.commands \in Seq(Keys) /\ d.assessments \in Seq(Claims)
      /\ MaxPerDecision \in Nat /\ NoKey \in Keys
  <2>1. NoKey \in Keys
    BY DEF Keys
  <2>2. Decisions \subseteq [commands : Seq(Keys), assessments : Seq(Claims)] /\ MaxPerDecision \in Nat
    BY RunAssumption
  <2>3. Idle \in [commands : Seq(Keys), assessments : Seq(Claims)]
    BY DEF Idle
  <2> QED BY <2>1, <2>2, <2>3
<1>2. ASSUME NEW S, NEW s \in Seq(S) PROVE Bounded(s) \in Seq(S)
  <2>1. Len(s) \in Nat
    BY <1>2
  <2>2. Min({Len(s), MaxPerDecision}) \in 0 .. Len(s)
    BY <1>1, <2>1, MinOfTwo
  <2> DEFINE n == Min({Len(s), MaxPerDecision})
  <2>5. n \in 0 .. Len(s)
    BY <2>2
  <2> HIDE DEF n
  <2>3. n \in Int /\ \A i \in 1 .. n : s[i] \in S
    BY <1>2, <2>1, <2>5
  <2>4. SubSeq(s, 1, n) \in Seq(S)
    BY <2>3, SubSeqProperties
  <2> QED BY <2>4 DEF Bounded, n
<1> DEFINE c == Bounded(d.commands)
           a == Bounded(d.assessments)
<1>3. c \in Seq(Keys) /\ a \in Seq(Claims)
  BY <1>1, <1>2
<1> HIDE DEF c, a
<1>4. [i \in 1 .. Len(c) |-> [op |-> "command", key |-> c[i]]] \in Seq(Op)
  BY <1>3
<1>5. [i \in 1 .. Len(a) |-> [op |-> "assess", key |-> NoKey]] \in Seq(Op)
  BY <1>1, <1>3
<1> QED BY <1>4, <1>5 DEF Operations, c, a

----------------------------------------------------------------------------
(***************************************************************************)
(* The server.                                                             *)
(***************************************************************************)

(* It appends an entry for request r, *)
Added(r, effect) ==
  /\ server'.log = Append(server.log, [n |-> r.n, op |-> r.op, key |-> r.key, effect |-> effect])
  /\ r.op \in Write /\ ~Completed
  /\ effect /\ r.op = "command" => ~Executed(r.key)
  /\ server'.tick = IF r.op = "advance" THEN server.tick + 1 ELSE server.tick

(* or none, *)
Quiet == server'.log = server.log /\ server'.tick = server.tick

(* and says so. *)
Told(r) ==
  /\ answer' \in Reply
  /\ answer'.completed <=> Completed'
  /\ answer'.events = Len(server'.log)
  /\ answer'.result \in {"accepted", "ok"} /\ r.op \in Write =>
       Added(r, TRUE) \/ (r.op = "advance" /\ Completed)
  /\ answer'.result = "duplicate" => Executed(r.key)

LEMMA ServeDoes ==
  ASSUME RunTypes, NEW r, Serve(r)
  PROVE  /\ r \in wire /\ wire' = wire \ {r} /\ UNCHANGED <<call, made>>
         /\ server' \in SessionState
         /\ Quiet \/ \E effect \in BOOLEAN : Added(r, effect)
         /\ IF r = call THEN Told(r) ELSE answer' = answer
<1>1. PICK done \in Replies(r) : /\ server' = done.after
                                 /\ answer' = IF r = call THEN done.reply ELSE answer
  BY DEF Serve
<1>2. /\ r \in wire /\ r \in Request /\ wire' = wire \ {r} /\ UNCHANGED <<call, made>>
      /\ server \in SessionState
      /\ TotalTicks \in Nat \ {0}
  BY CallAssumption DEF Serve, RunTypes
<1> DEFINE Says(result) == answer' = IF r = call
             THEN [result |-> result, completed |-> server'.tick = TotalTicks,
                   events |-> Len(server'.log)]
             ELSE answer
\* What is said has the right form.
<1>3. ASSUME NEW result \in Result, Says(result),
             server' \in SessionState,
             result \in {"accepted", "ok"} /\ r.op \in Write =>
               Added(r, TRUE) \/ (r.op = "advance" /\ Completed),
             result = "duplicate" => Executed(r.key)
      PROVE  IF r = call THEN Told(r) ELSE answer' = answer
  <2>1. Len(server'.log) \in Nat
    BY <1>3 DEF SessionState
  <2> QED BY <1>3, <2>1 DEF Told, Reply, Completed
<1>12. ASSUME NEW result, NEW next, done = Replied(result, next)
       PROVE  server' = next /\ Says(result)
  <2>1. /\ done.after = next
        /\ done.reply = [result |-> result, completed |-> next.tick = TotalTicks,
                         events |-> Len(next.log)]
    BY <1>12 DEF Replied
  <2>2. server' = next
    BY <1>1, <2>1
  <2> QED BY <1>1, <2>1, <2>2
<1> HIDE DEF Says
<1>4. ASSUME NEW result \in Result, done = Replied(result, server),
             result \in {"accepted", "ok"} /\ r.op \in Write => r.op = "advance" /\ Completed,
             result # "duplicate"
      PROVE  /\ server' \in SessionState
             /\ Quiet
             /\ IF r = call THEN Told(r) ELSE answer' = answer
  <2>1. server' = server /\ Says(result)
    BY <1>4, <1>12
  <2> QED BY <1>2, <1>3, <1>4, <2>1 DEF Quiet
<1>5. ASSUME NEW result \in Result, NEW effect \in BOOLEAN, done = Replied(result, Logged(r, effect)),
             r.op \in {"command", "assess"}, ~Completed,
             effect /\ r.op = "command" => ~Executed(r.key),
             result \in {"accepted", "ok"} => effect,
             result = "duplicate" => Executed(r.key)
      PROVE  /\ server' \in SessionState
             /\ Added(r, effect)
             /\ IF r = call THEN Told(r) ELSE answer' = answer
  <2> DEFINE e == [n |-> r.n, op |-> r.op, key |-> r.key, effect |-> effect]
  <2>1. e \in Entry
    BY <1>2 DEF Request, Entry
  <2>2. server' = [server EXCEPT !.log = Append(@, e)] /\ Says(result)
    BY <1>5, <1>12 DEF Logged
  <2> HIDE DEF e
  <2>3. server' \in SessionState
    BY <1>2, <2>1, <2>2 DEF SessionState
  <2>4. Added(r, effect)
    BY <1>2, <1>5, <2>2 DEF Added, Write, e, SessionState
  <2>5. result \in {"accepted", "ok"} => Added(r, TRUE)
    BY <1>5, <2>4
  <2>6. IF r = call THEN Told(r) ELSE answer' = answer
    BY <1>3, <1>5, <2>2, <2>3, <2>5
  <2> QED BY <2>3, <2>4, <2>6
<1>0. {"ok", "conflict", "accepted", "duplicate", "rejected", "refused", "not_completed"} \subseteq Result
  BY DEF Result
<1>6. CASE r.op = "create"
  <2>1. done \in CreateReply(r)
    BY <1>1, <1>6 DEF Replies
  <2>2. CASE server.exists
    <3>1. done = Replied("conflict", server)
      BY <2>1, <2>2 DEF CreateReply
    <3>2. server' \in SessionState /\ Quiet /\ IF r = call THEN Told(r) ELSE answer' = answer
      BY <1>0, <1>4, <3>1
    <3> QED BY <1>2, <3>2
  <2>3. CASE ~server.exists
    <3>1. server' = [server EXCEPT !.exists = TRUE] /\ Says("ok")
      BY <1>12, <2>1, <2>3 DEF CreateReply
    <3>2. server' \in SessionState /\ Quiet
      BY <1>2, <3>1 DEF Quiet, SessionState
    <3> QED BY <1>0, <1>2, <1>3, <1>6, <3>1, <3>2 DEF Write
  <2> QED BY <2>2, <2>3
<1>7. CASE r.op = "command"
  <2>1. done \in CommandReply(r)
    BY <1>1, <1>7 DEF Replies
  <2>2. CASE Completed
    <3>1. done = Replied("rejected", server)
      BY <2>1, <2>2 DEF CommandReply
    <3> QED BY <1>0, <1>2, <1>4, <3>1
  <2>3. CASE ~Completed /\ Executed(r.key)
    <3>1. done = Replied("duplicate", Logged(r, FALSE))
      BY <2>1, <2>3 DEF CommandReply
    <3> QED BY <1>0, <1>2, <1>5, <1>7, <2>3, <3>1
  <2>4. CASE ~Completed /\ ~Executed(r.key)
    <3>1. \/ done = Replied("accepted", Logged(r, TRUE))
          \/ done = Replied("rejected", Logged(r, FALSE))
      BY <2>1, <2>4 DEF CommandReply
    <3> QED BY <1>0, <1>2, <1>5, <1>7, <2>4, <3>1
  <2> QED BY <2>2, <2>3, <2>4
<1>8. CASE r.op = "assess"
  <2>1. \/ done = Replied("refused", server)
        \/ ~Completed /\ done = Replied("ok", Logged(r, TRUE))
    BY <1>1, <1>8 DEF Replies, AssessReply
  <2>2. CASE done = Replied("refused", server)
    <3>1. server' \in SessionState /\ Quiet /\ IF r = call THEN Told(r) ELSE answer' = answer
      BY <1>0, <1>4, <2>2
    <3> QED BY <1>2, <3>1
  <2>3. CASE ~Completed /\ done = Replied("ok", Logged(r, TRUE))
    BY <1>0, <1>2, <1>5, <1>8, <2>3
  <2> QED BY <2>1, <2>2, <2>3
<1>9. CASE r.op = "advance"
  <2>1. done \in AdvanceReply(r)
    BY <1>1, <1>9 DEF Replies
  <2>2. CASE Completed
    <3>1. done = Replied("ok", server)
      BY <2>1, <2>2 DEF AdvanceReply
    <3> QED BY <1>0, <1>2, <1>4, <1>9, <2>2, <3>1
  <2>3. CASE ~Completed
    <3> DEFINE e == [n |-> r.n, op |-> r.op, key |-> r.key, effect |-> TRUE]
    <3>1. e \in Entry
      BY <1>2 DEF Request, Entry
    <3>2. /\ server' = [[server EXCEPT !.log = Append(@, e)] EXCEPT !.tick = @ + 1]
          /\ Says("ok")
      BY <1>12, <2>1, <2>3 DEF AdvanceReply, Logged
    <3> HIDE DEF e
    <3>3. server.tick + 1 \in 0 .. TotalTicks
      BY <1>2, <2>3 DEF Completed, SessionState
    <3>4. server' \in SessionState
      <4>1. Append(server.log, e) \in Seq(Entry)
        BY <1>2, <3>1 DEF SessionState
      <4> QED BY <1>2, <3>2, <3>3, <4>1 DEF SessionState
    <3>5. Added(r, TRUE)
      BY <1>2, <1>9, <2>3, <3>2 DEF Added, Write, e, SessionState
    <3> QED BY <1>0, <1>2, <1>3, <3>2, <3>4, <3>5
  <2> QED BY <2>2, <2>3
<1>10. CASE r.op \in Read
  <2>1. \E result \in {"ok", "not_completed"} : done = Replied(result, server)
    BY <1>1, <1>10 DEF Replies, Read
  <2> QED BY <1>0, <1>2, <1>4, <1>10, <2>1 DEF Read, Write
<1>11. r.op \in Operation
  BY <1>2 DEF Request
<1> QED BY <1>2, <1>6, <1>7, <1>8, <1>9, <1>10, <1>11 DEF Operation

(* The log only grows: what was done stays done. *)
LEMMA EntryLogged ==
  ASSUME RunTypes, Quiet \/ \E r \in wire, effect \in BOOLEAN : Added(r, effect)
  PROVE  /\ \A i \in DOMAIN server.log : i \in DOMAIN server'.log /\ server'.log[i] = server.log[i]
         /\ \A i \in Effects : i \in Effects'
         /\ \A k : Executed(k) => Executed(k)'
         /\ \A n, k, outcome : Backed(n, k, outcome) => Backed(n, k, outcome)'
<1>1. server.log \in Seq(Entry)
  BY DEF RunTypes, SessionState
<1>2. \A i \in DOMAIN server.log : i \in DOMAIN server'.log /\ server'.log[i] = server.log[i]
  <2>1. ASSUME NEW e, server'.log = Append(server.log, e)
        PROVE  \A i \in DOMAIN server.log : i \in DOMAIN server'.log /\ server'.log[i] = server.log[i]
    <3>1. server.log \in Seq(Entry \cup {e}) /\ e \in Entry \cup {e}
      BY <1>1
    <3> QED BY <2>1, <3>1
  <2> QED BY <2>1 DEF Quiet, Added
<1>3. \A i \in Effects : i \in Effects'
  BY <1>2 DEF Effects
<1>4. ASSUME NEW k, Executed(k) PROVE Executed(k)'
  <2>1. PICK i \in DOMAIN server.log : /\ server.log[i].op = "command" /\ server.log[i].key = k
                                       /\ server.log[i].effect
    BY <1>4 DEF Executed, ToSet
  <2> QED BY <1>2, <2>1 DEF Executed, ToSet
<1>5. ASSUME NEW n, NEW k, NEW outcome, Backed(n, k, outcome) PROVE Backed(n, k, outcome)'
  BY <1>2, <1>3, <1>4, <1>5 DEF Backed, Effects
<1> QED BY <1>2, <1>3, <1>4, <1>5

----------------------------------------------------------------------------
(***************************************************************************)
(* The invariant, step by step.                                            *)
(***************************************************************************)

(* Who leaves the server alone leaves what it did.                         *)
LEMMA SameServer ==
  ASSUME UNCHANGED server
  PROVE  /\ Effects' = Effects /\ (Completed' <=> Completed)
         /\ \A n, k, outcome : Backed(n, k, outcome)' <=> Backed(n, k, outcome)
BY DEF Effects, Completed, Backed, Executed

(* The call awaited is a request, and known by its operation.              *)
LEMMA AwaitedCall ==
  ASSUME RunInv, call # NoCall
  PROVE  /\ call \in Request /\ call \in InFlight /\ call.n \in {0, made}
         /\ call.n <= made /\ (call.n = 0 <=> call.op \in Read)
         /\ call.attempt \in 1 .. Attempts(call.op)
         /\ \/ pc \in {"create", "state", "advance", "events", "summary"} /\ call.op = pc
            \/ pc = "act" /\ todo # <<>> /\ call.op = Head(todo).op
               /\ call.op \in {"command", "assess"}
<1>1. call \in Request /\ call \in InFlight
  BY DEF RunInv, RunTypes, InFlight
<1>2. pc = "act" /\ todo # <<>> => Head(todo) \in [op : {"command", "assess"}, key : Keys]
  BY HeadTailProperties DEF RunInv, RunTypes
<1>3. \/ pc \in {"create", "state", "advance", "events", "summary"} /\ call.op = pc
      \/ pc = "act" /\ todo # <<>> /\ call.op = Head(todo).op
  BY DEF RunInv, Sequential
<1>4. /\ call.n \in {0, made} /\ call.n <= made /\ (call.n = 0 <=> call.op \in Read)
      /\ call.attempt \in 1 .. Attempts(call.op)
  BY <1>1 DEF RunInv, Numbered
<1> QED BY <1>1, <1>2, <1>3, <1>4

(* Attempts of a call that is not sent again are one.                      *)
LEMMA SentOnce ==
  ASSUME RunInv, NEW r \in InFlight, NEW q \in InFlight, ~Retryable(r.op), r.n = q.n
  PROVE  r = q
<1>1. r \in Request /\ q \in Request
  BY DEF RunInv, RunTypes, InFlight
<1>2. r.n # 0
  BY DEF RunInv, Numbered, Retryable
<1>3. r.op = q.op /\ r.key = q.key
  BY <1>2 DEF RunInv, Numbered
<1>4. r.attempt = 1 /\ q.attempt = 1
  <2>1. Attempts(r.op) = 1 /\ Attempts(q.op) = 1
    BY <1>3 DEF Attempts
  <2>2. r.attempt \in 1 .. 1 /\ q.attempt \in 1 .. 1
    BY <2>1 DEF RunInv, Numbered
  <2> QED BY <2>2
<1> QED BY <1>1, <1>3, <1>4 DEF Request

(* The server executes a request. *)
LEMMA ServeInv ==
  ASSUME RunInv, NEW r, Serve(r), UNCHANGED <<pc, todo, errors, reports, record>>
  PROVE  RunInv'
<1> USE DEF RunInv
<1>1. /\ r \in wire /\ wire' = wire \ {r} /\ UNCHANGED <<call, made>>
      /\ server' \in SessionState
      /\ Quiet \/ \E effect \in BOOLEAN : Added(r, effect)
      /\ IF r = call THEN Told(r) ELSE answer' = answer
  BY ServeDoes
<1>2. /\ \A i \in DOMAIN server.log : i \in DOMAIN server'.log /\ server'.log[i] = server.log[i]
      /\ \A i \in Effects : i \in Effects'
      /\ \A k : Executed(k) => Executed(k)'
      /\ \A n, k, outcome : Backed(n, k, outcome) => Backed(n, k, outcome)'
  BY <1>1, EntryLogged
<1>3. /\ r \in InFlight /\ r \in Request /\ r # NoCall /\ \A q \in InFlight' : q \in InFlight
      /\ server.log \in Seq(Entry) /\ made \in Nat
  BY <1>1, RunAssumption DEF InFlight, RunTypes, SessionState
<1>4. RunTypes'
  BY <1>1 DEF RunTypes, Told
\* The new entry, if any.
<1> DEFINE e(effect) == [n |-> r.n, op |-> r.op, key |-> r.key, effect |-> effect]
           new == Len(server.log) + 1
<1>5. ASSUME NEW effect \in BOOLEAN, Added(r, effect)
      PROVE  /\ DOMAIN server'.log = DOMAIN server.log \cup {new} /\ new \notin DOMAIN server.log
             /\ server'.log[new].n = r.n /\ server'.log[new].op = r.op
             /\ server'.log[new].key = r.key /\ server'.log[new].effect = effect
             /\ r.n \in 1 .. made
  <2>1. e(effect) \in Entry
    BY <1>3 DEF Entry, Request
  <2>2. server'.log = Append(server.log, e(effect))
    BY <1>5 DEF Added
  <2>3. r.op \notin Read
    BY <1>5 DEF Added, Write, Read
  <2>4. r.n \in 1 .. made
    BY <1>3, <2>3 DEF Numbered, Request
  <2> HIDE DEF e
  <2>5. /\ DOMAIN server'.log = DOMAIN server.log \cup {new} /\ new \notin DOMAIN server.log
        /\ server'.log[new] = e(effect)
    BY <1>3, <2>1, <2>2
  <2> QED BY <2>4, <2>5 DEF e
<1> HIDE DEF new, e
<1>6. Numbered'
  <2>1. ASSUME NEW i \in DOMAIN server'.log
        PROVE  /\ server'.log[i].n \in 1 .. made'
               /\ \A q \in InFlight' :
                    server'.log[i].n = q.n => server'.log[i].op = q.op /\ server'.log[i].key = q.key
               /\ \A q \in wire' : ~Retryable(q.op) => server'.log[i].n # q.n
    <3>1. CASE i \in DOMAIN server.log
      BY <1>1, <1>2, <1>3, <3>1 DEF Numbered
    <3>2. CASE i \notin DOMAIN server.log
      <4>1. PICK effect \in BOOLEAN : Added(r, effect)
        BY <1>1, <2>1, <3>2 DEF Quiet
      <4>2. /\ server'.log[i].n = r.n /\ server'.log[i].op = r.op /\ server'.log[i].key = r.key
            /\ r.n \in 1 .. made
        BY <1>5, <2>1, <3>2, <4>1
      <4>3. ASSUME NEW q \in InFlight', r.n = q.n PROVE r.op = q.op /\ r.key = q.key
        BY <1>3, <4>2, <4>3 DEF Numbered
      <4>4. ASSUME NEW q \in wire', ~Retryable(q.op), r.n = q.n PROVE FALSE
        <5>1. q \in InFlight /\ q # r
          BY <1>1, <4>4 DEF InFlight
        <5> QED BY <1>3, <4>4, <5>1, SentOnce
      <4> QED BY <1>1, <4>2, <4>3, <4>4
    <3> QED BY <3>1, <3>2
  <2>2. \A q \in InFlight' : /\ q.n <= made' /\ (q.n = 0 <=> q.op \in Read)
                             /\ q.attempt \in 1 .. Attempts(q.op)
    BY <1>1, <1>3 DEF Numbered
  <2>3. \A p, q \in InFlight' : p.n = q.n /\ p.n # 0 => p.op = q.op /\ p.key = q.key
    BY <1>3 DEF Numbered
  <2> QED BY <1>1, <2>1, <2>2, <2>3 DEF Numbered
<1>7. Sequential'
  BY <1>1 DEF Sequential
\* An advance is executed while it is awaited or after the loop.
<1>8. r.op = "advance" => \/ r = call /\ pc = "advance" /\ answer = NoAnswer
                          \/ "advance" \in errors /\ pc \in {"events", "summary", "done", "failed"}
  <2>1. CASE r = call
    BY <1>1, <1>3, <2>1, AwaitedCall DEF AnswerIsTrue
  <2>2. CASE r # call
    BY <1>1, <2>2 DEF Sequential
  <2> QED BY <2>1, <2>2
<1>9. /\ Completed => Quiet /\ Completed'
      /\ Completed' => Completed \/ r.op = "advance"
  BY <1>1, CallAssumption DEF Quiet, Added, Completed, RunTypes, SessionState
<1>10. AnswerIsTrue'
  <2>1. CASE r = call
    <3>1. Told(r)
      BY <1>1, <2>1
    <3>2. call.op \in {"command", "assess", "advance"} =>
            /\ answer'.result \in {"accepted", "ok"} => \E i \in Effects' : server'.log[i].n = call.n
            /\ answer'.result = "duplicate" => Executed(call.key)'
      <4>1. ASSUME call.op \in Write, answer'.result \in {"accepted", "ok"}
            PROVE  \E i \in Effects' : server'.log[i].n = call.n
        <5>1. ASSUME Completed, r.op = "advance" PROVE FALSE
          <6>1. call # NoCall /\ call.op = "advance"
            BY <1>3, <2>1, <5>1
          <6>2. pc = "advance"
            BY <6>1, AwaitedCall
          <6>3. answer # NoAnswer
            BY <5>1, <6>2 DEF Outlasted
          <6> QED BY <1>1, <2>1, <6>3 DEF AnswerIsTrue
        <5>2. Added(r, TRUE)
          BY <2>1, <3>1, <4>1, <5>1 DEF Told
        <5>3. new \in DOMAIN server'.log /\ server'.log[new].n = r.n /\ server'.log[new].effect
          BY <1>5, <5>2
        <5> QED BY <2>1, <5>3 DEF Effects
      <4>2. answer'.result = "duplicate" => Executed(call.key)'
        BY <1>1, <1>2, <2>1, <3>1 DEF Told, Executed
      <4> QED BY <4>1, <4>2 DEF Write
    <3>3. pc = "events" /\ "advance" \notin errors =>
            answer'.events = Len(server'.log) /\ answer'.completed
      BY <1>9, <3>1 DEF Told, Outlasted
    <3>4. answer'.completed <=> Completed'
      BY <3>1 DEF Told
    <3>5. call # NoCall /\ call \notin wire'
      BY <1>1, <1>3, <2>1
    <3> QED BY <1>1, <3>2, <3>3, <3>4, <3>5 DEF AnswerIsTrue, Backed
  <2>2. CASE r # call
    <3>1. SUFFICES ASSUME answer' # NoAnswer PROVE AnswerIsTrue'
      BY DEF AnswerIsTrue
    <3>2. answer' = answer /\ answer # NoAnswer /\ call # NoCall /\ call \notin wire
      BY <1>1, <2>2, <3>1 DEF AnswerIsTrue
    <3>3. call.op \in {"command", "assess", "advance"} => Backed(call.n, call.key, answer.result)'
      BY <1>1, <1>2, <3>2 DEF AnswerIsTrue, Backed, Executed
    <3>4. pc = "advance" => (answer.completed <=> Completed')
      BY <1>8, <1>9, <2>2, <3>2 DEF AnswerIsTrue
    <3>5. pc = "events" /\ "advance" \notin errors =>
            answer.events = Len(server'.log) /\ answer.completed
      BY <1>9, <3>2 DEF AnswerIsTrue, Outlasted, Quiet
    <3> QED BY <1>1, <3>2, <3>3, <3>4, <3>5 DEF AnswerIsTrue
  <2> QED BY <2>1, <2>2
<1>11. Outlasted'
  <2>1. Completed' => \/ pc \in {"events", "summary", "done", "failed"}
                      \/ pc = "advance" /\ answer' # NoAnswer
    <3>1. CASE Completed
      <4>1. r = call => answer' # NoAnswer
        BY <1>1, RunAssumption DEF Told
      <4> QED BY <1>1, <3>1, <4>1 DEF Outlasted
    <3>2. CASE ~Completed /\ r.op = "advance"
      <4>1. r = call => answer' # NoAnswer
        BY <1>1, RunAssumption DEF Told
      <4> QED BY <1>8, <3>2, <4>1
    <3> QED BY <1>9, <3>1, <3>2
  <2>2. pc \in {"events", "summary", "done"} /\ "advance" \notin errors => Completed'
    BY <1>9 DEF Outlasted
  <2>3. pc \in {"summary", "done"} /\ "advance" \notin errors =>
          record = [events |-> Len(server'.log), completed |-> TRUE]
    BY <1>9 DEF Outlasted, Quiet
  <2> QED BY <1>1, <2>1, <2>2, <2>3 DEF Outlasted
<1>12. CallsTakeEffectOnce'
  <2>1. \A n \in DOMAIN reports : Backed(n, reports[n].key, reports[n].outcome)'
    BY <1>2 DEF CallsTakeEffectOnce
  <2>2. CASE Quiet
    <3>1. Effects' = Effects
      BY <2>2 DEF Quiet, Effects
    <3> QED BY <1>1, <2>1, <2>2, <3>1 DEF Quiet, CallsTakeEffectOnce
  <2>3. ASSUME NEW effect \in BOOLEAN, Added(r, effect) PROVE CallsTakeEffectOnce'
    \* No earlier effect is of the same call or key.
    <3>1. ASSUME NEW i \in Effects, effect,
                 \/ server.log[i].n = r.n
                 \/ server.log[i].op = "command" /\ r.op = "command" /\ server.log[i].key = r.key
          PROVE  FALSE
      <4>1. i \in DOMAIN server.log /\ server.log[i].effect
        BY <3>1 DEF Effects
      <4>2. r.op = "command" => ~Executed(r.key)
        BY <2>3, <3>1 DEF Added
      <4>3. server.log[i].op = "command" /\ server.log[i].key = r.key => Executed(r.key)
        BY <4>1 DEF Executed, ToSet
      <4>4. server.log[i].n = r.n => server.log[i].op = r.op /\ server.log[i].key = r.key
        BY <1>3, <4>1 DEF Numbered
      <4>5. server.log[i].n = r.n => Retryable(r.op)
        BY <1>1, <4>1 DEF Numbered
      <4>6. Retryable(r.op) => r.op = "command"
        BY <2>3 DEF Added, Write, Retryable, Read
      <4> QED BY <3>1, <4>2, <4>3, <4>4, <4>5, <4>6
    <3>2. /\ \A i \in Effects' : i \in Effects \/ (i = new /\ effect)
          /\ \A i \in Effects : server'.log[i] = server.log[i]
          /\ server'.log[new].n = r.n /\ server'.log[new].op = r.op /\ server'.log[new].key = r.key
      <4>1. \A i \in DOMAIN server'.log : i \in DOMAIN server.log \/ i = new
        BY <1>5, <2>3
      <4>2. ASSUME NEW i \in Effects' PROVE i \in Effects \/ (i = new /\ effect)
        <5>1. i \in DOMAIN server'.log /\ server'.log[i].effect
          BY <4>2 DEF Effects
        <5>2. CASE i \in DOMAIN server.log
          BY <1>2, <5>1, <5>2 DEF Effects
        <5>3. CASE i = new
          BY <1>5, <2>3, <5>1, <5>3
        <5> QED BY <4>1, <5>1, <5>2, <5>3
      <4>3. \A i \in Effects : server'.log[i] = server.log[i]
        BY <1>2 DEF Effects
      <4> QED BY <1>5, <2>3, <4>2, <4>3
    <3>3. ASSUME NEW i \in Effects', NEW j \in Effects',
                 \/ server'.log[i].n = server'.log[j].n
                 \/ /\ server'.log[i].op = "command" /\ server'.log[j].op = "command"
                    /\ server'.log[i].key = server'.log[j].key
          PROVE  i = j
      <4>1. CASE i \in Effects /\ j \in Effects
        BY <3>2, <3>3, <4>1 DEF CallsTakeEffectOnce
      <4>2. CASE i \in Effects /\ j = new /\ effect
        BY <3>1, <3>2, <3>3, <4>2
      <4>3. CASE j \in Effects /\ i = new /\ effect
        BY <3>1, <3>2, <3>3, <4>3
      <4> QED BY <3>2, <4>1, <4>2, <4>3
    <3> QED BY <1>1, <2>1, <3>3 DEF CallsTakeEffectOnce
  <2> QED BY <1>1, <2>2, <2>3
<1> QED BY <1>4, <1>6, <1>7, <1>10, <1>11, <1>12

(* The caller makes a call: a new number, or a read. *)
LEMMA SendInv ==
  ASSUME RunInv, Send
  PROVE  RunInv'
<1> USE DEF RunInv
<1>1. PICK op, key : /\ Begin(op, key)
                     /\ \/ op = pc /\ op \in {"create", "state", "advance", "events", "summary"}
                           /\ key = NoKey
                        \/ pc = "act" /\ todo # <<>> /\ op = Head(todo).op /\ key = Head(todo).key
  BY DEF Send, NextCall
<1> DEFINE n == IF op \in Read THEN 0 ELSE made + 1
           c == [n |-> n, op |-> op, key |-> key, attempt |-> 1]
<1>2. /\ call = NoCall /\ call' = c /\ made' = Max({n, made}) /\ wire' = wire \cup {c}
      /\ UNCHANGED <<answer, server, pc, todo, errors, reports, record>>
  BY <1>1 DEF Begin, Send
<1>3. made \in Nat /\ n \in Nat /\ MaxAttempts \in Nat \ {0}
  BY CallAssumption DEF RunTypes
<1>4. made' \in Nat /\ made' = IF n <= made THEN made ELSE n
  BY <1>2, <1>3, MaxOfTwo
<1>5. op \in Operation /\ key \in Keys
  <2>1. pc = "act" /\ todo # <<>> => Head(todo) \in [op : {"command", "assess"}, key : Keys]
    BY HeadTailProperties DEF RunTypes
  <2>2. NoKey \in Keys
    BY DEF Keys
  <2> QED BY <1>1, <2>1, <2>2 DEF Operation, Read
<1>6. c \in Request /\ c # NoCall
  BY <1>3, <1>5, RunAssumption DEF Request
<1>7. c.n = n /\ c.op = op /\ c.key = key /\ c.attempt = 1
  OBVIOUS
<1> HIDE DEF c
<1>8. /\ answer = NoAnswer /\ wire \subseteq InFlight /\ InFlight' = wire \cup {c}
  BY <1>2, <1>6 DEF AnswerIsTrue, InFlight
<1>9. RunTypes'
  <2>1. DOMAIN reports \subseteq 1 .. made'
    BY <1>3, <1>4 DEF RunTypes
  <2> QED BY <1>2, <1>4, <1>6, <2>1 DEF RunTypes
<1>10. /\ made <= made' /\ n \in {0, made'} /\ (n # 0 => n > made) /\ (n = 0 <=> op \in Read)
       /\ 1 \in 1 .. Attempts(op)
  BY <1>3, <1>4 DEF Attempts
<1> HIDE DEF n
<1>11. Numbered'
  <2>1. ASSUME NEW r \in wire
        PROVE  /\ r.n <= made' /\ (r.n = 0 <=> r.op \in Read) /\ r.attempt \in 1 .. Attempts(r.op)
               /\ r.n = c.n => r.n = 0
    <3>1. r \in InFlight /\ r.n \in Nat
      BY <1>8 DEF RunTypes, Request
    <3>2. /\ r.n <= made /\ (r.n = 0 <=> r.op \in Read) /\ r.attempt \in 1 .. Attempts(r.op)
      BY <3>1 DEF Numbered
    <3> QED BY <1>3, <1>4, <1>7, <1>10, <3>1, <3>2
  <2>2. ASSUME NEW i \in DOMAIN server.log
        PROVE  server.log[i].n \in 1 .. made' /\ server.log[i].n # c.n
    <3>1. server.log[i].n \in 1 .. made
      BY DEF Numbered
    <3> QED BY <1>3, <1>4, <1>7, <1>10, <3>1
  <2>3. \A r, q \in wire : r.n = q.n /\ r.n # 0 => r.op = q.op /\ r.key = q.key
    BY <1>8 DEF Numbered
  <2>4. \A i \in DOMAIN server.log : \A r \in wire :
          /\ server.log[i].n = r.n => server.log[i].op = r.op /\ server.log[i].key = r.key
          /\ ~Retryable(r.op) => server.log[i].n # r.n
    BY <1>8 DEF Numbered
  <2>5. \A r \in InFlight' : /\ r.n <= made' /\ (r.n = 0 <=> r.op \in Read)
                             /\ r.attempt \in 1 .. Attempts(r.op)
    BY <1>4, <1>7, <1>8, <1>10, <2>1
  <2>6. \A r, q \in InFlight' : r.n = q.n /\ r.n # 0 => r.op = q.op /\ r.key = q.key
    BY <1>8, <2>1, <2>3
  <2>7. \A i \in DOMAIN server.log :
          /\ server.log[i].n \in 1 .. made'
          /\ \A r \in InFlight' :
               server.log[i].n = r.n => server.log[i].op = r.op /\ server.log[i].key = r.key
          /\ \A r \in wire' : ~Retryable(r.op) => server.log[i].n # r.n
    BY <1>2, <1>8, <2>2, <2>4
  <2> QED BY <1>2, <1>7, <1>10, <2>5, <2>6, <2>7 DEF Numbered
<1>12. Sequential'
  <2>1. \A r \in wire : r.op = "advance" => "advance" \in errors
    BY <1>2, RunAssumption DEF Sequential, RunTypes
  <2> QED BY <1>1, <1>2, <1>7, <2>1 DEF Sequential
<1>13. AnswerIsTrue' /\ Outlasted' /\ CallsTakeEffectOnce'
  BY <1>2, <1>8, SameServer DEF AnswerIsTrue, Outlasted, CallsTakeEffectOnce, Completed, Backed,
     Executed, Effects
<1> QED BY <1>9, <1>11, <1>12, <1>13

(* The caller makes an attempt again, of a read or a command. *)
LEMMA AgainInv ==
  ASSUME RunInv, Again
  PROVE  RunInv'
<1> USE DEF RunInv
<1> DEFINE c == [call EXCEPT !.attempt = @ + 1]
<1>1. /\ call # NoCall /\ call.attempt < Attempts(call.op)
      /\ call' = c /\ wire' = Abandoned \cup {c} /\ answer' = NoAnswer
      /\ UNCHANGED <<made, server, pc, todo, errors, reports, record>>
  BY DEF Again, Retry, GivesUp
<1>2. /\ call \in Request /\ call \in InFlight /\ call.n \in {0, made}
      /\ call.attempt \in 1 .. Attempts(call.op)
      /\ (pc = "advance" => call.op = "advance")
  BY <1>1, AwaitedCall
<1>3. /\ c \in Request /\ c # NoCall /\ c.n = call.n /\ c.op = call.op /\ c.key = call.key
      /\ c.attempt = call.attempt + 1
  BY <1>2, RunAssumption DEF Request
<1> HIDE DEF c
<1>4. Retryable(call.op) /\ call.op # "advance"
  <2>1. Attempts(call.op) # 1
    BY <1>1, <1>2
  <2> QED BY <2>1 DEF Attempts, Retryable, Read
<1>5. /\ Abandoned \subseteq wire /\ wire \subseteq InFlight /\ wire' \subseteq wire \cup {c}
      /\ InFlight' \subseteq wire \cup {c}
  BY <1>1 DEF Abandoned, InFlight
<1>6. RunTypes'
  BY <1>1, <1>3, <1>5 DEF RunTypes
<1>7. Numbered'
  <2>1. c.attempt \in 1 .. Attempts(c.op)
    BY <1>1, <1>2, <1>3, CallAssumption DEF Attempts
  <2>2. \A r \in InFlight' : /\ r.n <= made /\ (r.n = 0 <=> r.op \in Read)
                             /\ r.attempt \in 1 .. Attempts(r.op)
    BY <1>2, <1>3, <1>5, <2>1 DEF Numbered
  <2>3. \A r, q \in InFlight' : r.n = q.n /\ r.n # 0 => r.op = q.op /\ r.key = q.key
    BY <1>2, <1>3, <1>5 DEF Numbered
  <2>4. \A i \in DOMAIN server.log :
          /\ server.log[i].n \in 1 .. made
          /\ \A r \in InFlight' :
               server.log[i].n = r.n => server.log[i].op = r.op /\ server.log[i].key = r.key
          /\ \A r \in wire' : ~Retryable(r.op) => server.log[i].n # r.n
    BY <1>2, <1>3, <1>4, <1>5 DEF Numbered
  <2> QED BY <1>1, <1>2, <1>3, <2>2, <2>3, <2>4 DEF Numbered
<1>8. Sequential'
  <2>1. \A r \in wire' : r.op = "advance" => "advance" \in errors
    BY <1>3, <1>4, <1>5 DEF Sequential
  <2> QED BY <1>1, <1>3, <2>1 DEF Sequential
<1>9. AnswerIsTrue' /\ Outlasted' /\ CallsTakeEffectOnce'
  BY <1>1, <1>2, <1>4, SameServer DEF AnswerIsTrue, Outlasted, CallsTakeEffectOnce, Completed,
     Backed, Executed, Effects
<1> QED BY <1>6, <1>7, <1>8, <1>9

(* Without the call awaited, what is said of requests stays. *)
LEMMA CallOver ==
  ASSUME RunInv, call' = NoCall, wire' \subseteq wire, UNCHANGED <<made, server>>
  PROVE  Numbered'
BY DEF RunInv, Numbered, InFlight

(* A step that leaves the call, the wire and the server alone.             *)
LEMMA Untouched ==
  ASSUME RunInv, UNCHANGED <<callVars, reports, record>>,
         pc' \in Stage, todo' \in Seq([op : {"command", "assess"}, key : Keys])
  PROVE  RunTypes' /\ Numbered' /\ CallsTakeEffectOnce'
BY DEF RunInv, callVars, RunTypes, Numbered, InFlight, CallsTakeEffectOnce, Effects, Backed, Executed

(* The call ends with its answer. *)
LEMMA AnsweredInv ==
  ASSUME RunInv, Answered
  PROVE  RunInv'
<1> USE DEF RunInv
<1>1. /\ call # NoCall /\ answer # NoAnswer /\ call' = NoCall /\ answer' = NoAnswer
      /\ UNCHANGED <<wire, made, server, errors>>
      /\ pc' = AfterAnswer /\ Consumed /\ Reported(answer.result)
      /\ record' = CASE call.op = "events"  -> [events |-> answer.events, completed |-> answer.completed]
                     [] call.op = "summary" -> [record EXCEPT !.completed = @ \/ answer.result = "ok"]
                     [] OTHER -> record
  BY DEF Answered, Returned
<1>2. /\ call \in Request /\ call.n \in {0, made} /\ (call.n = 0 <=> call.op \in Read)
      /\ \/ pc \in {"create", "state", "advance", "events", "summary"} /\ call.op = pc
         \/ pc = "act" /\ todo # <<>> /\ call.op = Head(todo).op
            /\ call.op \in {"command", "assess"}
  BY <1>1, AwaitedCall
<1>3. /\ answer \in Reply /\ call \notin wire
      /\ call.op \in {"command", "assess", "advance"} => Backed(call.n, call.key, answer.result)
      /\ pc = "advance" => (answer.completed <=> Completed)
      /\ pc = "events" /\ "advance" \notin errors =>
           answer.events = Len(server.log) /\ answer.completed
  BY <1>1 DEF RunTypes, AnswerIsTrue
\* Where the run goes on.
<1>4. /\ pc = "create" => pc' \in {"failed", "state"}
      /\ pc = "state" => pc' = "decide"
      /\ pc = "act" => pc' = "act"
      /\ pc = "advance" => pc' = IF answer.completed THEN "events" ELSE "state"
      /\ pc = "events" => pc' = "summary"
      /\ pc = "summary" => pc' = "done"
  BY <1>1, <1>2 DEF AfterAnswer
<1>5. record' \in [events : Nat, completed : BOOLEAN]
  <2>1. record \in [events : Nat, completed : BOOLEAN]
    BY DEF RunTypes
  <2>2. CASE call.op = "events"
    BY <1>1, <1>3, <2>2 DEF Reply
  <2>3. CASE call.op = "summary"
    <3>1. record' = [record EXCEPT !.completed = @ \/ answer.result = "ok"]
      BY <1>1, <2>3
    <3> QED BY <2>1, <3>1
  <2>4. CASE call.op \notin {"events", "summary"}
    BY <1>1, <2>1, <2>4
  <2> QED BY <2>2, <2>3, <2>4
<1>6. call.op \in Write => call.n \in 1 .. made
  BY <1>2 DEF Write, Read, RunTypes
<1>7. /\ DOMAIN reports' \subseteq 1 .. made
      /\ \A n \in DOMAIN reports' : \/ n \in DOMAIN reports /\ reports'[n] = reports[n]
                                    \/ /\ n = call.n /\ call.op \in Write
                                       /\ reports'[n].key = call.key
                                       /\ reports'[n].outcome = answer.result
  <2>1. \/ call.op \in Write /\ \E report :
             /\ report.key = call.key /\ report.outcome = answer.result
             /\ reports' = [n \in DOMAIN reports \cup {call.n} |->
                              IF n = call.n THEN report ELSE reports[n]]
        \/ reports' = reports
    BY <1>1 DEF Reported, Write
  <2>2. DOMAIN reports \subseteq 1 .. made
    BY DEF RunTypes
  <2> QED BY <1>6, <2>1, <2>2
<1>8. todo' \in Seq([op : {"command", "assess"}, key : Keys])
  <2>1. CASE call.op \in {"command", "assess"}
    BY <1>1, <1>2, <2>1, HeadTailProperties DEF Consumed, RunTypes
  <2>2. CASE call.op \notin {"command", "assess"}
    BY <1>1, <2>2 DEF Consumed, RunTypes
  <2> QED BY <2>1, <2>2
<1>9. RunTypes'
  BY <1>1, <1>2, <1>4, <1>5, <1>7, <1>8 DEF RunTypes, Stage
<1>10. Numbered'
  BY <1>1, CallOver
<1>11. Sequential'
  <2>1. "advance" \in errors => pc' \in {"events", "summary", "done", "failed"}
    BY <1>2, <1>4 DEF Sequential
  <2>2. \A r \in wire : r.op = "advance" => "advance" \in errors
    BY <1>3 DEF Sequential
  <2> QED BY <1>1, <2>1, <2>2 DEF Sequential
<1>12. AnswerIsTrue'
  BY <1>1 DEF AnswerIsTrue
<1>13. Outlasted'
  <2>1. Completed' <=> Completed
    BY <1>1 DEF Completed
  <2>2. Completed => pc' \in {"events", "summary", "done", "failed"}
    BY <1>2, <1>3, <1>4 DEF Outlasted
  <2>3. pc' \in {"events", "summary", "done"} /\ "advance" \notin errors => Completed
    BY <1>2, <1>3, <1>4 DEF Outlasted
  <2>4. pc' \in {"summary", "done"} /\ "advance" \notin errors =>
          record' = [events |-> Len(server.log), completed |-> TRUE]
    <3>1. CASE pc = "events"
      <4>1. record' = [events |-> answer.events, completed |-> answer.completed]
        BY <1>1, <1>2, <3>1
      <4>2. "advance" \notin errors => answer.completed = TRUE
        BY <1>3, <3>1 DEF Reply
      <4> QED BY <1>3, <3>1, <4>1, <4>2
    <3>2. CASE pc = "summary"
      <4>1. record' = [record EXCEPT !.completed = @ \/ answer.result = "ok"]
        BY <1>1, <1>2, <3>2
      <4>2. "advance" \notin errors => record = [events |-> Len(server.log), completed |-> TRUE]
        BY <3>2 DEF Outlasted
      <4>3. ASSUME "advance" \notin errors
            PROVE  record' = [events |-> Len(server.log), completed |-> TRUE]
        <5>1. record.completed = TRUE
          BY <4>2, <4>3
        <5>2. (record.completed \/ answer.result = "ok") = TRUE
          BY <5>1
        <5>3. record' = [record EXCEPT !.completed = TRUE]
          BY <4>1, <5>2
        <5>4. record = [events |-> Len(server.log), completed |-> TRUE]
          BY <4>2, <4>3
        <5> QED BY <5>3, <5>4
      <4> QED BY <4>3
    <3>3. pc \notin {"events", "summary"} => pc' \notin {"summary", "done"}
      BY <1>2, <1>4
    <3> QED BY <3>1, <3>2, <3>3
  <2> QED BY <1>1, <2>1, <2>2, <2>3, <2>4 DEF Outlasted
<1>14. CallsTakeEffectOnce'
  <2>1. \A n \in DOMAIN reports' : Backed(n, reports'[n].key, reports'[n].outcome)
    BY <1>3, <1>7 DEF CallsTakeEffectOnce, Write
  <2> QED BY <1>1, <2>1 DEF CallsTakeEffectOnce, Effects, Backed, Executed
<1> QED BY <1>9, <1>10, <1>11, <1>12, <1>13, <1>14

(* The call ends without one. *)
LEMMA UnansweredInv ==
  ASSUME RunInv, Unanswered
  PROVE  RunInv'
<1> USE DEF RunInv
<1>1. /\ call # NoCall /\ call' = NoCall /\ answer' = NoAnswer /\ wire' = Abandoned
      /\ UNCHANGED <<made, server, record>>
      /\ pc' = AfterFailure /\ Consumed /\ Reported("error")
      /\ errors' = IF call.op = "advance" THEN errors \cup {"advance"} ELSE errors
  BY DEF Unanswered, Failed, GivesUp, Noted
<1>2. /\ call \in Request /\ call.n \in {0, made} /\ (call.n = 0 <=> call.op \in Read)
      /\ \/ pc \in {"create", "state", "advance", "events", "summary"} /\ call.op = pc
         \/ pc = "act" /\ todo # <<>> /\ call.op = Head(todo).op
            /\ call.op \in {"command", "assess"}
  BY <1>1, AwaitedCall
<1>3. wire' \subseteq wire
  BY <1>1 DEF Abandoned
<1>4. /\ pc = "act" => pc' = "act"
      /\ pc = "advance" => pc' = "events"
      /\ pc \notin {"act", "advance"} => pc' = "failed"
  BY <1>1, <1>2 DEF AfterFailure
<1>5. call.op \in Write => call.n \in 1 .. made
  BY <1>2 DEF Write, Read, RunTypes
<1>6. /\ DOMAIN reports' \subseteq 1 .. made
      /\ \A n \in DOMAIN reports' : \/ n \in DOMAIN reports /\ reports'[n] = reports[n]
                                    \/ reports'[n].outcome = "error"
  <2>1. \/ call.op \in Write /\ \E report :
             /\ report.key = call.key /\ report.outcome = "error"
             /\ reports' = [n \in DOMAIN reports \cup {call.n} |->
                              IF n = call.n THEN report ELSE reports[n]]
        \/ reports' = reports
    BY <1>1 DEF Reported, Write
  <2>2. DOMAIN reports \subseteq 1 .. made
    BY DEF RunTypes
  <2> QED BY <1>5, <2>1, <2>2
<1>7. todo' \in Seq([op : {"command", "assess"}, key : Keys])
  <2>1. CASE call.op \in {"command", "assess"}
    BY <1>1, <1>2, <2>1, HeadTailProperties DEF Consumed, RunTypes
  <2>2. CASE call.op \notin {"command", "assess"}
    BY <1>1, <2>2 DEF Consumed, RunTypes
  <2> QED BY <2>1, <2>2
<1>8. RunTypes'
  BY <1>1, <1>2, <1>3, <1>4, <1>6, <1>7 DEF RunTypes, Stage
<1>9. Numbered'
  BY <1>1, <1>3, CallOver
<1>10. Sequential'
  <2>1. "advance" \in errors' => pc' \in {"events", "summary", "done", "failed"}
    BY <1>1, <1>2, <1>4 DEF Sequential
  <2>2. \A r \in wire' : r.op = "advance" => "advance" \in errors'
    BY <1>1, <1>3 DEF Sequential
  <2> QED BY <1>1, <2>1, <2>2 DEF Sequential
<1>11. AnswerIsTrue'
  BY <1>1 DEF AnswerIsTrue
<1>12. Outlasted'
  BY <1>1, <1>2, <1>4 DEF Outlasted, Completed
<1>13. CallsTakeEffectOnce'
  <2>1. \A n \in DOMAIN reports' : Backed(n, reports'[n].key, reports'[n].outcome)
    BY <1>6 DEF CallsTakeEffectOnce, Backed
  <2> QED BY <1>1, <2>1 DEF CallsTakeEffectOnce, Effects, Backed, Executed
<1> QED BY <1>8, <1>9, <1>10, <1>11, <1>12, <1>13

(* The run itself goes on, between its calls. *)
LEMMA TurnInv ==
  ASSUME RunInv, PastDeadline \/ Decide \/ Acted
  PROVE  RunInv'
<1> USE DEF RunInv
<1>1. call = NoCall /\ UNCHANGED <<callVars, reports, record>>
  <2>1. call # NoCall => pc \notin {"decide"} /\ (pc = "act" => todo # <<>>)
    BY DEF Sequential
  <2> QED BY <2>1 DEF PastDeadline, Decide, Decided, Acted
<1>2. todo' \in Seq([op : {"command", "assess"}, key : Keys])
  BY OperationsTyped DEF PastDeadline, Decide, Decided, Acted, RunTypes
<1>3. \/ pc = "state" /\ pc' = "events" /\ errors' = errors \cup {"advance"}
      \/ pc = "decide" /\ pc' = "act" /\ errors' \in {errors, errors \cup {"decide"}}
      \/ pc = "act" /\ pc' = "advance" /\ errors' = errors
  BY DEF PastDeadline, Decide, Decided, Acted, Noted
<1>4. RunTypes' /\ Numbered' /\ CallsTakeEffectOnce'
  <2>1. pc' \in Stage
    BY <1>3 DEF Stage
  <2> QED BY <1>1, <1>2, <2>1, Untouched
<1>5. call' = NoCall /\ answer' = NoAnswer /\ wire' = wire /\ server' = server /\ record' = record
  BY <1>1 DEF callVars, AnswerIsTrue
<1>6. Sequential'
  <2>1. \A r \in wire : r.op = "advance" => "advance" \in errors
    BY <1>1, RunAssumption DEF Sequential, RunTypes
  <2> QED BY <1>3, <1>5, <2>1 DEF Sequential
<1>7. AnswerIsTrue'
  BY <1>5 DEF AnswerIsTrue
<1>8. Outlasted'
  BY <1>1, <1>3, <1>5 DEF Outlasted, Completed, AnswerIsTrue
<1> QED BY <1>4, <1>6, <1>7, <1>8

(* A run begins in the invariant. *)
LEMMA InitInv == RunInit => RunInv
<1> SUFFICES ASSUME RunInit PROVE RunInv
  OBVIOUS
<1> USE CallAssumption DEF RunInit, CallInit
<1>1. RunTypes
  BY DEF RunTypes, SessionState, Stage
<1>2. Numbered /\ Sequential /\ AnswerIsTrue /\ CallsTakeEffectOnce
  BY DEF Numbered, Sequential, AnswerIsTrue, CallsTakeEffectOnce, InFlight, Effects
<1>3. Outlasted
  BY DEF Outlasted, Completed
<1> QED BY <1>1, <1>2, <1>3 DEF RunInv

(* Every step keeps it. *)
LEMMA StepInv ==
  ASSUME RunInv, [RunNext]_runVars
  PROVE  RunInv'
<1>1. ASSUME UNCHANGED runVars PROVE RunInv'
  BY <1>1 DEF runVars, callVars, RunInv, RunTypes, Numbered, Sequential, AnswerIsTrue, Outlasted,
     CallsTakeEffectOnce, InFlight, Effects, Backed, Executed, Completed
<1> QED BY <1>1, SendInv, AgainInv, AnsweredInv, UnansweredInv, TurnInv, ServeInv
        DEF RunNext, Server, Finished

(* Types, the numbering of requests and entries, the order of calls, what  *)
(* an answer tells and how far the session is are an inductive invariant.  *)
THEOREM RunInvariant == RunSpec => []RunInv
<1>1. RunInit => RunInv
  BY InitInv
<1>2. RunInv /\ [RunNext]_runVars => RunInv'
  BY StepInv
<1> QED BY <1>1, <1>2, PTL DEF RunSpec

(* Whatever is lost, late or sent again, for any number of attempts and    *)
(* any keys, a call and a key take effect once (rest.ts:13-21), and what   *)
(* is reported accepted was done.                                          *)
THEOREM CallsTakeEffectOnceCorrect == RunSpec => []CallsTakeEffectOnce
<1>1. RunInv => CallsTakeEffectOnce
  BY DEF RunInv
<1> QED BY <1>1, RunInvariant, PTL

(* A record without an error of phase "advance" is of a completed session  *)
(* and of its whole log, for any policy (runner.ts:176-195).               *)
THEOREM RecordIsTrueCorrect == RunSpec => []RecordIsTrue
<1>1. RunInv => RecordIsTrue
  BY DEF RunInv, Outlasted, RecordIsTrue
<1> QED BY <1>1, RunInvariant, PTL

----------------------------------------------------------------------------
(* Paging through the claims.  What the filter keeps of a list is a fold,  *)
(* so what it keeps of two parts is what it keeps of each.  With every     *)
(* claim held once, a list is taken apart at the claim an event is about;  *)
(* the claims behind the agent are the first of what the filter keeps, and *)
(* taking one claim out, putting it at the end or in its place brings at   *)
(* most one other among them.                                              *)
Filter == INSTANCE FoldLaws WITH Op <- LAMBDA S, kept, c : IF c \in S THEN Append(kept, c) ELSE kept

(* A filtered list is a fold. *)
LEMMA KeptIsFold ==
  ASSUME NEW list, NEW S
  PROVE  Kept(list, S) = Filter!Fold(S, <<>>, list)
BY DEF Kept, Filter!Fold, Filter!Highest, FoldLeft, MapThenFoldSet, Max

(* What is kept of a list is put behind what was kept before. *)
LEMMA KeptBehind ==
  ASSUME NEW T, NEW S, NEW base \in Seq(T), NEW list \in Seq(T)
  PROVE  /\ Kept(list, S) \in Seq(T \cap S)
         /\ Filter!Fold(S, base, list) = base \o Kept(list, S)
<1> DEFINE none == <<>>
           N == Len(list)
<1>1. PICK f : Filter!Through(S, none, list, f) /\ Filter!Fold(S, none, list) = f[N]
  BY Filter!FoldGoesThrough
<1>2. N \in Nat /\ \A k \in 1 .. N : list[k] \in T
  OBVIOUS
<1> HIDE DEF N
<1>3. /\ f[0] = <<>>
      /\ \A k \in 1 .. N : f[k] = IF list[k] \in S THEN Append(f[k - 1], list[k]) ELSE f[k - 1]
  BY <1>1 DEF Filter!Through, N
<1> DEFINE K == T \cap S
           A == {n \in Nat : f[n] \in Seq(K)}
<1>4. 0 \in A
  <2>1. none \in Seq(K)
    OBVIOUS
  <2> HIDE DEF K
  <2> QED BY <1>3, <2>1
<1>5. ASSUME NEW n \in 0 .. N - 1, n \in A PROVE n + 1 \in A
  <2>1. n + 1 \in 1 .. N /\ (n + 1) - 1 = n /\ n + 1 \in Nat
    BY <1>2
  <2>2. f[n + 1] = IF list[n + 1] \in S THEN Append(f[n], list[n + 1]) ELSE f[n]
    BY <1>3, <2>1
  <2>3. list[n + 1] \in T /\ f[n] \in Seq(K)
    BY <1>2, <1>5, <2>1
  <2>4. list[n + 1] \in S => list[n + 1] \in K
    BY <2>3
  <2>5. f[n + 1] \in Seq(K)
    <3> HIDE DEF K
    <3>1. CASE list[n + 1] \in S
      BY <2>2, <2>3, <2>4, <3>1
    <3>2. CASE list[n + 1] \notin S
      BY <2>2, <2>3, <3>2
    <3> QED BY <3>1, <3>2
  <2> QED BY <2>1, <2>5
<1>6. \A n \in 0 .. N : n \in A
  <2> HIDE DEF A
  <2> QED BY <1>2, <1>4, <1>5, Filter!UpTo
<1>7. N \in 0 .. N
  BY <1>2
<1> DEFINE g == [n \in 0 .. N |-> base \o f[n]]
<1>8. g[0] = base
  BY <1>2, <1>3
<1>9. ASSUME NEW k \in 1 .. N
      PROVE  g[k] = IF list[k] \in S THEN Append(g[k - 1], list[k]) ELSE g[k - 1]
  <2>1. k - 1 \in 0 .. N /\ k \in 0 .. N
    BY <1>2
  <2>2. f[k - 1] \in Seq(T) /\ list[k] \in T
    BY <1>2, <1>6, <2>1
  <2>3. g[k] = base \o f[k] /\ g[k - 1] = base \o f[k - 1]
    BY <2>1
  <2>4. base \o Append(f[k - 1], list[k]) = Append(base \o f[k - 1], list[k])
    BY <2>2
  <2> HIDE DEF g
  <2> QED BY <1>3, <2>3, <2>4
<1>10. Filter!Through(S, base, list, g)
  <2> HIDE DEF g
  <2> QED BY <1>8, <1>9 DEF Filter!Through, N
<1>11. Filter!Fold(S, base, list) = g[N]
  <2> HIDE DEF g
  <2> QED BY <1>10, Filter!FoldIsEnd DEF N
<1>12. Kept(list, S) = f[N]
  BY <1>1, KeptIsFold
<1> QED BY <1>6, <1>7, <1>11, <1>12

(* A filtered list is one of its elements that are kept. *)
LEMMA KeptIsSeq ==
  ASSUME NEW T, NEW S, NEW s \in Seq(T)
  PROVE  Kept(s, S) \in Seq(T \cap S)
<1>1. <<>> \in Seq(T)
  OBVIOUS
<1> QED BY <1>1, KeptBehind

(* Filtering a list is filtering its parts. *)
LEMMA KeptOfBoth ==
  ASSUME NEW T, NEW S, NEW s \in Seq(T), NEW t \in Seq(T)
  PROVE  Kept(s \o t, S) = Kept(s, S) \o Kept(t, S)
<1> DEFINE none == <<>>
<1>1. none \in Seq(T)
  OBVIOUS
<1>2. Kept(s, S) \in Seq(T \cap S)
  BY KeptIsSeq
<1>3. Kept(s, S) \in Seq(T)
  BY <1>2
<1>4. Filter!Fold(S, none, s \o t) = Filter!Fold(S, Filter!Fold(S, none, s), t)
  <2> HIDE DEF none
  <2> QED BY <1>1, Filter!FoldConcat
<1>5. Filter!Fold(S, Kept(s, S), t) = Kept(s, S) \o Kept(t, S)
  BY <1>3, KeptBehind
<1>6. Kept(s \o t, S) = Filter!Fold(S, Kept(s, S), t)
  BY <1>4, KeptIsFold
<1> QED BY <1>5, <1>6

(* A single element is kept or not. *)
LEMMA KeptOfOne ==
  ASSUME NEW T, NEW S, NEW e \in T
  PROVE  Kept(<<e>>, S) = IF e \in S THEN <<e>> ELSE <<>>
<1> DEFINE none == <<>>
<1>1. Filter!Fold(S, none, <<e>>) = IF e \in S THEN Append(none, e) ELSE none
  <2> HIDE DEF none
  <2> QED BY Filter!FoldShort
<1>2. Append(none, e) = <<e>>
  OBVIOUS
<1> QED BY <1>1, <1>2, KeptIsFold

(* Nothing is lost of a list all of which is kept. *)
LEMMA KeptOfAll ==
  ASSUME NEW T, NEW S, NEW s \in Seq(T), \A i \in 1 .. Len(s) : s[i] \in S
  PROVE  Kept(s, S) = s
<1> DEFINE none == <<>>
           N == Len(s)
           g == [n \in 0 .. N |-> SubSeq(s, 1, n)]
<1>1. N \in Nat
  OBVIOUS
<1>2. g[0] = none /\ g[N] = s
  OBVIOUS
<1>3. ASSUME NEW k \in 1 .. N PROVE g[k] = Append(g[k - 1], s[k])
  <2>1. k - 1 \in 0 .. N /\ k \in 0 .. N
    BY <1>1
  <2>2. SubSeq(s, 1, k) = Append(SubSeq(s, 1, k - 1), s[k])
    BY <1>1
  <2> QED BY <2>1, <2>2
<1> HIDE DEF g, none
<1>4. Filter!Through(S, none, s, g)
  BY <1>2, <1>3 DEF Filter!Through
<1>5. Filter!Fold(S, none, s) = s
  BY <1>2, <1>4, Filter!FoldIsEnd
<1> QED BY <1>5, KeptIsFold DEF none

(* The fitting claims of a list are those of its parts. *)
LEMMA FittingOfBoth ==
  ASSUME NEW u \in Seq(ListedClaim), NEW w \in Seq(ListedClaim)
  PROVE  Fitting(u \o w) = Fitting(u) \o Fitting(w)
BY KeptOfBoth DEF Fitting

LEMMA FittingIsSeq ==
  ASSUME NEW u \in Seq(ListedClaim)
  PROVE  Fitting(u) \in Seq(ListedClaim)
<1> DEFINE F == {e \in ListedClaim : e.fits}
           K == ListedClaim \cap F
<1>1. Fitting(u) \in Seq(K)
  BY KeptIsSeq DEF Fitting
<1>2. K \subseteq ListedClaim
  OBVIOUS
<1> HIDE DEF K
<1> QED BY <1>1, <1>2

LEMMA FittingAfter ==
  ASSUME NEW u \in Seq(ListedClaim), NEW c \in ListedClaim
  PROVE  Fitting(u \o <<c>>) = IF c.fits THEN Fitting(u) \o <<c>> ELSE Fitting(u)
<1> DEFINE one == <<c>>
           none == <<>>
<1>1. one \in Seq(ListedClaim)
  OBVIOUS
<1>2. Fitting(one) = IF c.fits THEN one ELSE none
  BY KeptOfOne DEF Fitting
<1>3. Fitting(u) \o none = Fitting(u)
  BY FittingIsSeq
<1> HIDE DEF one, none
<1>4. Fitting(u \o one) = Fitting(u) \o Fitting(one)
  BY <1>1, FittingOfBoth
<1>5. Fitting(u \o one) = IF c.fits THEN Fitting(u) \o one ELSE Fitting(u)
  BY <1>2, <1>3, <1>4
<1> QED BY <1>5 DEF one

LEMMA FittingAround ==
  ASSUME NEW u \in Seq(ListedClaim), NEW w \in Seq(ListedClaim), NEW c \in ListedClaim
  PROVE  Fitting((u \o <<c>>) \o w)
           = IF c.fits THEN (Fitting(u) \o <<c>>) \o Fitting(w) ELSE Fitting(u) \o Fitting(w)
<1> DEFINE up == u \o <<c>>
<1>1. up \in Seq(ListedClaim)
  OBVIOUS
<1>2. Fitting(up) = IF c.fits THEN Fitting(u) \o <<c>> ELSE Fitting(u)
  BY FittingAfter
<1> HIDE DEF up
<1>3. Fitting(up \o w) = Fitting(up) \o Fitting(w)
  BY <1>1, FittingOfBoth
<1> QED BY <1>2, <1>3 DEF up

(* The claims among the first n of a list. *)
Foremost(s, n) == {s[i].id : i \in {j \in 1 .. Len(s) : j <= n}}

LEMMA FirstIsFront ==
  ASSUME NEW f \in Seq(ListedClaim), NEW n \in Nat
  PROVE  /\ IdsOf(SubSeq(f, 1, Min({n, Len(f)}))) = Foremost(f, n)
         /\ IsFiniteSet(Foremost(f, n))
<1> DEFINE m == Min({n, Len(f)})
           D == {j \in 1 .. Len(f) : j <= n}
           first == SubSeq(f, 1, m)
<1>1. Len(f) \in Nat /\ DOMAIN f = 1 .. Len(f)
  OBVIOUS
<1>2. m \in Nat /\ m <= Len(f) /\ D = 1 .. m
  <2> DEFINE L == Len(f)
  <2>1. L \in Nat /\ m = IF n <= L THEN n ELSE L
    BY <1>1, MinOfTwo
  <2>2. D = {j \in 1 .. L : j <= n}
    OBVIOUS
  <2> HIDE DEF D, m, L
  <2>3. m \in Nat /\ m <= L /\ m <= n /\ (m = L \/ m = n)
    BY <2>1
  <2>4. D = 1 .. m
    BY <2>1, <2>2, <2>3
  <2> QED BY <2>3, <2>4 DEF L
<1> HIDE DEF m
<1>3. /\ first \in Seq(ListedClaim) /\ Len(first) = m
      /\ \A i \in 1 .. m : first[i] = f[i]
  BY <1>1, <1>2
<1>4. ToSet(first) = {f[i] : i \in 1 .. m}
  BY <1>3 DEF ToSet
<1>5. IdsOf(first) = {f[i].id : i \in 1 .. m}
  BY <1>4 DEF IdsOf
<1>6. IsFiniteSet({f[i].id : i \in 1 .. m})
  <2> DEFINE I == 1 .. m
             J == {f[i].id : i \in I}
             g == [i \in I |-> f[i].id]
  <2>1. IsFiniteSet(I)
    BY <1>2, FS_Interval
  <2>2. g \in Surjection(I, J)
    BY DEF Surjection
  <2> HIDE DEF g, J, I
  <2>3. IsFiniteSet(J)
    BY <2>1, <2>2, FS_Surjection
  <2> QED BY <2>3 DEF J, I
<1>7. {f[i].id : i \in 1 .. m} = Foremost(f, n)
  BY <1>2 DEF Foremost
<1>8. IdsOf(first) = Foremost(f, n) /\ IsFiniteSet(Foremost(f, n))
  <2> DEFINE J == {f[i].id : i \in 1 .. m}
  <2>1. IdsOf(first) = J /\ IsFiniteSet(J) /\ J = Foremost(f, n)
    BY <1>5, <1>6, <1>7
  <2> HIDE DEF J, first
  <2> QED BY <2>1
<1> QED BY <1>8 DEF m

LEMMA BehindIsFront ==
  ASSUME NEW list \in Seq(ListedClaim), offset \in Nat
  PROVE  /\ IdsOf(Behind(list)) = Foremost(Fitting(list), offset)
         /\ IsFiniteSet(Foremost(Fitting(list), offset))
<1> DEFINE f == Fitting(list)
           n == offset
<1>1. f \in Seq(ListedClaim) /\ n \in Nat
  BY FittingIsSeq
<1>2. Behind(list) = SubSeq(f, 1, Min({n, Len(f)}))
  BY DEF Behind
<1> HIDE DEF f, n
<1>3. IdsOf(SubSeq(f, 1, Min({n, Len(f)}))) = Foremost(f, n) /\ IsFiniteSet(Foremost(f, n))
  BY <1>1, FirstIsFront
<1> QED BY <1>2, <1>3 DEF f, n

OneGetsIn(S, T) == \E z : T \subseteq S \cup {z}

(* What comes in between pushes at most one claim out of the first n, and  *)
(* is the only one that gets among them.                                   *)
LEMMA PutIn ==
  ASSUME NEW u \in Seq(ListedClaim), NEW w \in Seq(ListedClaim), NEW c \in ListedClaim,
         NEW n \in Nat
  PROVE  Foremost((u \o <<c>>) \o w, n) \subseteq Foremost(u \o w, n) \cup {c.id}
<1> DEFINE old == u \o w
           new == (u \o <<c>>) \o w
           U == Len(u)
           W == Len(w)
<1>1. /\ U \in Nat /\ W \in Nat /\ Len(old) = U + W /\ Len(new) = U + 1 + W
      /\ \A i \in 1 .. U : new[i] = u[i] /\ old[i] = u[i]
      /\ new[U + 1] = c
      /\ \A i \in 1 .. W : new[U + 1 + i] = w[i] /\ old[U + i] = w[i]
  OBVIOUS
<1> HIDE DEF old, new, U, W
<1>2. ASSUME NEW i \in 1 .. Len(new), i <= n, i # U + 1 PROVE new[i].id \in Foremost(old, n)
  <2>1. CASE i <= U
    <3>1. i \in 1 .. Len(old) /\ new[i] = old[i]
      BY <1>1, <2>1
    <3> QED BY <1>2, <3>1 DEF Foremost
  <2>2. CASE i > U
    <3>1. i - (U + 1) \in 1 .. W
      BY <1>1, <1>2, <2>2
    <3>2. new[U + 1 + (i - (U + 1))] = w[i - (U + 1)] /\ old[U + (i - (U + 1))] = w[i - (U + 1)]
      BY <1>1, <3>1
    <3>3. /\ U + 1 + (i - (U + 1)) = i /\ U + (i - (U + 1)) = i - 1
          /\ i - 1 \in 1 .. Len(old) /\ i - 1 <= n
      BY <1>1, <1>2, <3>1
    <3>4. new[i] = old[i - 1]
      BY <3>2, <3>3
    <3> QED BY <3>3, <3>4 DEF Foremost
  <2> QED BY <1>1, <2>1, <2>2
<1>3. Foremost(new, n) \subseteq Foremost(old, n) \cup {c.id}
  BY <1>1, <1>2 DEF Foremost
<1> QED BY <1>3 DEF old, new

(* A list of three parts. *)
LEMMA ThreeParts ==
  ASSUME NEW S, NEW u \in Seq(S), NEW v \in Seq(S), NEW w \in Seq(S)
  PROVE  /\ Len((u \o v) \o w) = Len(u) + Len(v) + Len(w)
         /\ \A i \in 1 .. Len(u) : ((u \o v) \o w)[i] = u[i]
         /\ \A i \in 1 .. Len(v) : ((u \o v) \o w)[Len(u) + i] = v[i]
         /\ \A i \in 1 .. Len(w) : ((u \o v) \o w)[Len(u) + Len(v) + i] = w[i]
<1> DEFINE b == u \o v
           x == b \o w
           U == Len(u)
           V == Len(v)
           W == Len(w)
<1>1. /\ b \in Seq(S) /\ Len(b) = U + V /\ U \in Nat /\ V \in Nat /\ W \in Nat
      /\ \A i \in 1 .. U : b[i] = u[i]
      /\ \A i \in 1 .. V : b[U + i] = v[i]
  OBVIOUS
<1>0. b \in Seq(S)
  OBVIOUS
<1> HIDE DEF b
<1>2. /\ Len(x) = Len(b) + W
      /\ \A i \in 1 .. Len(b) : x[i] = b[i]
      /\ \A i \in 1 .. W : x[Len(b) + i] = w[i]
  BY <1>0
<1> HIDE DEF x, U, V, W
<1>3. /\ \A i \in 1 .. U : i \in 1 .. Len(b)
      /\ \A i \in 1 .. V : U + i \in 1 .. Len(b)
  BY <1>1
<1>4. /\ Len(x) = U + V + W
      /\ \A i \in 1 .. U : x[i] = u[i]
      /\ \A i \in 1 .. V : x[U + i] = v[i]
      /\ \A i \in 1 .. W : x[U + V + i] = w[i]
  BY <1>1, <1>2, <1>3
<1> QED BY <1>4 DEF x, b, U, V, W

(* Where a claim is taken out, and perhaps put at the end, one claim gets  *)
(* among the first n.                                                      *)
LEMMA TakenOut ==
  ASSUME NEW u \in Seq(ListedClaim), NEW w \in Seq(ListedClaim), NEW e \in ListedClaim,
         NEW n \in Nat, NEW tail \in Seq(ListedClaim), Len(tail) <= 1,
         \A i \in 1 .. Len(tail) : tail[i].id = e.id
  PROVE  OneGetsIn(Foremost((u \o <<e>>) \o w, n), Foremost((u \o w) \o tail, n))
<1> DEFINE old == (u \o <<e>>) \o w
           new == (u \o w) \o tail
           U == Len(u)
           W == Len(w)
           L == Len(tail)
<1>1. /\ U \in Nat /\ W \in Nat /\ Len(old) = U + 1 + W /\ Len(new) = U + W + L
      /\ \A i \in 1 .. U : new[i] = u[i] /\ old[i] = u[i]
      /\ old[U + 1] = e
      /\ \A i \in 1 .. W : new[U + i] = w[i] /\ old[U + 1 + i] = w[i]
      /\ L \in {0, 1}
      /\ L = 1 => new[U + W + 1].id = e.id
  <2>1. U \in Nat /\ W \in Nat /\ L \in Nat /\ L \in {0, 1}
    <3>1. U \in Nat /\ W \in Nat /\ L \in Nat
      OBVIOUS
    <3>2. L <= 1
      OBVIOUS
    <3> HIDE DEF U, W, L
    <3> QED BY <3>1, <3>2
  <2>2. /\ Len(old) = U + 1 + W
        /\ \A i \in 1 .. U : old[i] = u[i]
        /\ old[U + 1] = e
        /\ \A i \in 1 .. W : old[U + 1 + i] = w[i]
    BY ONLY u \in Seq(ListedClaim), w \in Seq(ListedClaim), e \in ListedClaim
  <2>3. /\ Len(new) = U + W + L
        /\ \A i \in 1 .. U : new[i] = u[i]
        /\ \A i \in 1 .. W : new[U + i] = w[i]
        /\ \A i \in 1 .. L : new[U + W + i] = tail[i]
    BY ThreeParts
  <2> HIDE DEF old, new, U, W
  <2>4. L = 1 => new[U + W + 1].id = e.id
    <3>1. ASSUME L = 1 PROVE new[U + W + 1].id = e.id
      <4>1. 1 \in 1 .. L
        BY <3>1
      <4> QED BY <2>3, <4>1
    <3> QED BY <3>1
  <2> HIDE DEF L
  <2> QED BY <2>1, <2>2, <2>3, <2>4
<1> HIDE DEF old, new, U, W, L
<1>2. ASSUME NEW i \in 1 .. Len(new), i < n PROVE new[i].id \in Foremost(old, n)
  <2>1. CASE i <= U
    <3>1. i \in 1 .. Len(old) /\ new[i] = old[i] /\ i <= n
      BY <1>1, <1>2, <2>1
    <3> QED BY <3>1 DEF Foremost
  <2>2. CASE i > U /\ i <= U + W
    <3>1. i - U \in 1 .. W
      BY <1>1, <1>2, <2>2
    <3>2. new[U + (i - U)] = w[i - U] /\ old[U + 1 + (i - U)] = w[i - U]
      BY <1>1, <3>1
    <3>3. /\ U + (i - U) = i /\ U + 1 + (i - U) = i + 1
          /\ i + 1 \in 1 .. Len(old) /\ i + 1 <= n
      BY <1>1, <1>2, <3>1
    <3>4. new[i] = old[i + 1]
      BY <3>2, <3>3
    <3> QED BY <3>3, <3>4 DEF Foremost
  <2>3. CASE i > U + W
    <3>1. new[i].id = e.id /\ U + 1 \in 1 .. Len(old) /\ U + 1 <= n
      <4>1. i = U + W + 1 /\ L = 1
        BY <1>1, <1>2, <2>3
      <4> QED BY <1>1, <1>2, <4>1
    <3>2. old[U + 1].id = e.id
      BY <1>1
    <3> QED BY <3>1, <3>2 DEF Foremost
  <2> QED BY <1>1, <2>1, <2>2, <2>3
<1>3. Foremost(new, n) \subseteq Foremost(old, n) \cup {new[n].id}
  <2> SUFFICES ASSUME NEW i \in 1 .. Len(new), i <= n
               PROVE  new[i].id \in Foremost(old, n) \cup {new[n].id}
    BY DEF Foremost
  <2>1. i = n \/ i < n
    BY <1>1
  <2> QED BY <1>2, <2>1
<1> QED BY <1>3 DEF old, new, OneGetsIn

(* Where a claim is replaced in its place, none does. *)
LEMMA Replaced ==
  ASSUME NEW u \in Seq(ListedClaim), NEW w \in Seq(ListedClaim), NEW c \in ListedClaim,
         NEW e \in ListedClaim, c.id = e.id, NEW n \in Nat
  PROVE  Foremost((u \o <<c>>) \o w, n) = Foremost((u \o <<e>>) \o w, n)
<1> DEFINE old == (u \o <<e>>) \o w
           new == (u \o <<c>>) \o w
<1>1. Len(old) = Len(new) /\ \A i \in 1 .. Len(new) : new[i].id = old[i].id
  OBVIOUS
<1> HIDE DEF old, new
<1>2. Foremost(new, n) = Foremost(old, n)
  BY <1>1 DEF Foremost
<1> QED BY <1>2 DEF old, new

(* What holds a claim once still does without one of them. *)
Once(s) == \A i, j \in 1 .. Len(s) : s[i].id = s[j].id => i = j

LEMMA OnceWithout ==
  ASSUME NEW u \in Seq(ListedClaim), NEW w \in Seq(ListedClaim), NEW e \in ListedClaim,
         Once((u \o <<e>>) \o w)
  PROVE  Once(u \o w)
<1> DEFINE old == (u \o <<e>>) \o w
           new == u \o w
           U == Len(u)
           W == Len(w)
           at(i) == IF i <= U THEN i ELSE i + 1
<1>1. /\ U \in Nat /\ W \in Nat /\ Len(new) = U + W /\ Len(old) = U + 1 + W
      /\ \A i \in 1 .. U : new[i] = u[i] /\ old[i] = u[i]
      /\ \A i \in 1 .. W : old[U + 1 + i] = w[i] /\ new[U + i] = w[i]
  OBVIOUS
<1>2. Once(old)
  OBVIOUS
<1> HIDE DEF old, new, U, W
<1>3. ASSUME NEW i \in 1 .. Len(new) PROVE at(i) \in 1 .. Len(old) /\ new[i] = old[at(i)]
  <2>1. CASE i <= U
    BY <1>1, <2>1
  <2>2. CASE i > U
    <3>1. i - U \in 1 .. W
      BY <1>1, <2>2
    <3>2. U + 1 + (i - U) = i + 1 /\ U + (i - U) = i /\ i + 1 \in 1 .. Len(old)
      BY <1>1, <2>2
    <3>3. old[U + 1 + (i - U)] = w[i - U] /\ new[U + (i - U)] = w[i - U]
      BY <1>1, <3>1
    <3> QED BY <1>1, <2>2, <3>2, <3>3
  <2> QED BY <1>1, <2>1, <2>2
<1>4. ASSUME NEW i \in 1 .. Len(new), NEW j \in 1 .. Len(new), new[i].id = new[j].id
      PROVE  i = j
  <2>1. at(i) = at(j)
    <3> HIDE DEF at
    <3> QED BY <1>2, <1>3, <1>4 DEF Once
  <2> QED BY <1>1, <2>1
<1>5. Once(new)
  BY <1>4 DEF Once
<1> QED BY <1>5 DEF new

(* A list of claims, taken apart at one of them. *)
LEMMA TakenApart ==
  ASSUME claims \in Seq(ListedClaim), OncePerClaim, NEW p \in DOMAIN claims
  PROVE  \E u, w \in Seq(ListedClaim) :
           /\ Len(u) = p - 1
           /\ claims = (u \o <<claims[p]>>) \o w
           /\ \A i \in 1 .. Len(u) : u[i].id # claims[p].id
           /\ \A i \in 1 .. Len(w) : w[i].id # claims[p].id
           /\ Once(u \o w)
<1> DEFINE N == Len(claims)
           u == SubSeq(claims, 1, p - 1)
           w == SubSeq(claims, p + 1, N)
           e == claims[p]
           whole == (u \o <<e>>) \o w
<1>1. N \in Nat /\ p \in Nat /\ 1 <= p /\ p <= N /\ e \in ListedClaim /\ DOMAIN claims = 1 .. N
  OBVIOUS
<1>2. /\ u \in Seq(ListedClaim) /\ Len(u) = p - 1
      /\ \A i \in 1 .. p - 1 : u[i] = claims[i]
  BY <1>1, SubSeqProperties
<1>3. /\ w \in Seq(ListedClaim) /\ Len(w) = N - p
      /\ \A i \in 1 .. N - p : w[i] = claims[p + i]
  <2>1. p + 1 \in 1 .. N + 1 /\ N \in p .. N
    BY <1>1
  <2>2. /\ w \in Seq(ListedClaim)
        /\ Len(w) = IF p + 1 <= N THEN N - (p + 1) + 1 ELSE 0
        /\ \A i \in 1 .. N - (p + 1) + 1 : w[i] = claims[p + 1 + i - 1]
    BY <1>1, <2>1, SubSeqProperties
  <2> HIDE DEF w
  <2>3. Len(w) = N - p /\ N - (p + 1) + 1 = N - p
    BY <1>1, <2>2
  <2>4. ASSUME NEW i \in 1 .. N - p PROVE p + 1 + i - 1 = p + i
    BY <1>1
  <2> QED BY <2>2, <2>3, <2>4
<1> HIDE DEF u, w, e
<1>10. u \in Seq(ListedClaim) /\ w \in Seq(ListedClaim) /\ e \in ListedClaim
  BY <1>1, <1>2, <1>3
<1>4. /\ whole \in Seq(ListedClaim) /\ Len(whole) = Len(u) + 1 + Len(w)
      /\ \A i \in 1 .. Len(u) : whole[i] = u[i]
      /\ whole[Len(u) + 1] = e
      /\ \A i \in 1 .. Len(w) : whole[Len(u) + 1 + i] = w[i]
  BY <1>10
<1> DEFINE U == Len(u)
           W == Len(w)
<1>5. U = p - 1 /\ W = N - p /\ U \in Nat /\ W \in Nat
  BY <1>1, <1>2, <1>3
<1> HIDE DEF whole, N, U, W
<1>9. ASSUME NEW i \in 1 .. N PROVE whole[i] = claims[i]
  <2>1. CASE i < p
    <3>1. i \in 1 .. U /\ i \in 1 .. p - 1
      BY <1>1, <1>5, <2>1
    <3> QED BY <1>2, <1>4, <3>1 DEF U
  <2>2. CASE i = p
    <3>1. U + 1 = p
      BY <1>1, <1>5
    <3> QED BY <1>4, <2>2, <3>1 DEF U, e
  <2>3. CASE i > p
    <3>1. i - p \in 1 .. W /\ i - p \in 1 .. N - p /\ p + (i - p) = i /\ U + 1 + (i - p) = i
      BY <1>1, <1>5, <2>3
    <3>2. whole[U + 1 + (i - p)] = w[i - p]
      BY <1>4, <3>1 DEF U, W
    <3>3. w[i - p] = claims[p + (i - p)]
      BY <1>3, <3>1
    <3> QED BY <3>1, <3>2, <3>3
  <2> QED BY <1>1, <2>1, <2>2, <2>3
<1>6. whole = claims
  <2>1. Len(claims) = N /\ Len(whole) = N
    BY <1>1, <1>4, <1>5 DEF N, U, W
  <2> QED BY <1>4, <1>9, <2>1
<1>7. /\ \A i \in 1 .. Len(u) : u[i].id # e.id
      /\ \A i \in 1 .. Len(w) : w[i].id # e.id
  <2>1. ASSUME NEW i \in 1 .. Len(u) PROVE u[i].id # e.id
    <3>1. u[i] = claims[i] /\ i \in DOMAIN claims /\ i # p
      BY <1>1, <1>2
    <3> QED BY <3>1 DEF OncePerClaim, e
  <2>2. ASSUME NEW i \in 1 .. Len(w) PROVE w[i].id # e.id
    <3>1. w[i] = claims[p + i] /\ p + i \in DOMAIN claims /\ p + i # p
      BY <1>1, <1>3
    <3> QED BY <3>1 DEF OncePerClaim, e
  <2> QED BY <2>1, <2>2
<1>8. Once(u \o w)
  <2>1. Once(whole)
    BY <1>1, <1>6 DEF Once, OncePerClaim, N
  <2> QED BY <1>10, <2>1, OnceWithout DEF whole
<1> QED BY <1>2, <1>3, <1>6, <1>7, <1>8 DEF e, whole

(* An event about a listed claim takes it out and puts it at the end, or   *)
(* replaces it in its place.                                               *)
LEMMA ChangedInList ==
  ASSUME NEW u \in Seq(ListedClaim), NEW w \in Seq(ListedClaim), NEW e \in ListedClaim,
         NEW c \in ListedClaim, c.id = e.id, claims = (u \o <<e>>) \o w,
         \A i \in 1 .. Len(u) : u[i].id # e.id, \A i \in 1 .. Len(w) : w[i].id # e.id
  PROVE  Updated(c) = (u \o w) \o <<c>> /\ Resolved(c) = (u \o <<c>>) \o w
<1> DEFINE S == {x \in ListedClaim : x.id # c.id}
           one == <<e>>
<1>1. Kept(u, S) = u /\ Kept(w, S) = w
  <2>1. ASSUME NEW s \in Seq(ListedClaim), \A i \in 1 .. Len(s) : s[i].id # e.id
        PROVE  Kept(s, S) = s
    <3>1. \A i \in 1 .. Len(s) : s[i] \in S
      BY <2>1
    <3> HIDE DEF S
    <3> QED BY <3>1, KeptOfAll
  <2> QED BY <2>1
<1>2. Kept(one, S) = <<>>
  <2>1. e \notin S
    OBVIOUS
  <2> HIDE DEF S
  <2> QED BY <2>1, KeptOfOne
<1>3. one \in Seq(ListedClaim) /\ u \o one \in Seq(ListedClaim) /\ u \o <<>> = u
  OBVIOUS
<1> HIDE DEF S
<1>4. Kept((u \o one) \o w, S) = (Kept(u, S) \o Kept(one, S)) \o Kept(w, S)
  <2> HIDE DEF one
  <2>1. Kept((u \o one) \o w, S) = Kept(u \o one, S) \o Kept(w, S)
    BY <1>3, KeptOfBoth
  <2>2. Kept(u \o one, S) = Kept(u, S) \o Kept(one, S)
    BY <1>3, KeptOfBoth
  <2> QED BY <2>1, <2>2
<1>5. Kept(claims, S) = u \o w
  BY <1>1, <1>2, <1>3, <1>4
<1>6. Updated(c) = Append(u \o w, c)
  BY <1>5 DEF Updated, S
<1>7. Updated(c) = (u \o w) \o <<c>>
  BY <1>6
<1>8. Resolved(c) = (u \o <<c>>) \o w
  <2> DEFINE old == (u \o <<e>>) \o w
             new == (u \o <<c>>) \o w
             U == Len(u)
             W == Len(w)
  <2>1. /\ U \in Nat /\ W \in Nat
        /\ new \in Seq(ListedClaim) /\ Len(old) = U + 1 + W /\ Len(new) = U + 1 + W
        /\ DOMAIN old = 1 .. U + 1 + W
        /\ \A i \in 1 .. U : new[i] = u[i] /\ old[i] = u[i]
        /\ new[U + 1] = c /\ old[U + 1] = e
        /\ \A i \in 1 .. W : new[U + 1 + i] = w[i] /\ old[U + 1 + i] = w[i]
    OBVIOUS
  <2>2. Resolved(c) = [i \in DOMAIN old |-> IF old[i].id = c.id THEN c ELSE old[i]]
    BY DEF Resolved
  <2> HIDE DEF old, new, U, W
  <2>3. ASSUME NEW i \in 1 .. U + 1 + W
        PROVE  new[i] = IF old[i].id = c.id THEN c ELSE old[i]
    <3>1. CASE i <= U
      <4>1. i \in 1 .. U /\ u[i].id # e.id
        BY <2>1, <3>1 DEF U
      <4> QED BY <2>1, <4>1
    <3>2. CASE i = U + 1
      BY <2>1, <3>2
    <3>3. CASE i > U + 1
      <4>1. i - (U + 1) \in 1 .. W /\ U + 1 + (i - (U + 1)) = i
        BY <2>1, <3>3
      <4>2. w[i - (U + 1)].id # e.id
        BY <4>1 DEF W
      <4>3. new[U + 1 + (i - (U + 1))] = w[i - (U + 1)] /\ old[U + 1 + (i - (U + 1))] = w[i - (U + 1)]
        BY <2>1, <4>1
      <4> QED BY <4>1, <4>2, <4>3
    <3> QED BY <2>1, <3>1, <3>2, <3>3
  <2>4. new = [i \in 1 .. U + 1 + W |-> new[i]]
    BY <2>1
  <2>5. new = [i \in DOMAIN old |-> IF old[i].id = c.id THEN c ELSE old[i]]
    BY <2>1, <2>3, <2>4
  <2> QED BY <2>2, <2>5 DEF new
<1> QED BY <1>7, <1>8

(* A claim the list does not hold comes to its end, and its verification   *)
(* changes nothing.                                                        *)
LEMMA ChangedOutside ==
  ASSUME claims \in Seq(ListedClaim), NEW c \in ListedClaim,
         \A i \in DOMAIN claims : claims[i].id # c.id
  PROVE  Updated(c) = claims \o <<c>> /\ Resolved(c) = claims
<1> DEFINE S == {x \in ListedClaim : x.id # c.id}
<1>1. \A i \in 1 .. Len(claims) : claims[i] \in S
  OBVIOUS
<1> HIDE DEF S
<1>2. Kept(claims, S) = claims
  BY <1>1, KeptOfAll
<1>3. Updated(c) = Append(claims, c)
  BY <1>2 DEF Updated, S
<1>4. Resolved(c) = [i \in DOMAIN claims |-> claims[i]]
  BY DEF Resolved
<1> QED BY <1>3, <1>4

(* Whatever happens to a claim, the list holds each once and at most one   *)
(* claim gets behind the agent.                                            *)
LEMMA ChangeMovesOne ==
  ASSUME claims \in Seq(ListedClaim), OncePerClaim, offset \in Nat, NEW c \in ListedClaim,
         NEW new, new = Updated(c) \/ new = Resolved(c)
  PROVE  /\ new \in Seq(ListedClaim) /\ Once(new)
         /\ OneGetsIn(IdsOf(Behind(claims)), IdsOf(Behind(new)))
<1>1. CASE \A i \in DOMAIN claims : claims[i].id # c.id
  <2>1. Updated(c) = claims \o <<c>> /\ Resolved(c) = claims
    BY <1>1, ChangedOutside
  <2>2. CASE new = claims
    <3>1. IdsOf(Behind(new)) \subseteq IdsOf(Behind(claims)) \cup {0}
      BY <2>2
    <3> QED BY <2>2, <3>1 DEF Once, OncePerClaim, OneGetsIn
  <2>3. CASE new = claims \o <<c>>
    <3> DEFINE none == <<>>
               f == Fitting(claims)
               n == offset
    <3>1. none \in Seq(ListedClaim) /\ f \in Seq(ListedClaim)
      BY FittingIsSeq
    <3>2. new \in Seq(ListedClaim)
      BY <2>3
    <3>3. Once(new)
      <4>1. /\ Len(new) = Len(claims) + 1 /\ new[Len(claims) + 1] = c /\ Len(claims) \in Nat
            /\ \A i \in 1 .. Len(claims) : new[i] = claims[i]
        BY <2>3
      <4>2. \A i \in 1 .. Len(new) : i \in 1 .. Len(claims) \/ i = Len(claims) + 1
        BY <4>1
      <4> QED BY <1>1, <4>1, <4>2 DEF Once, OncePerClaim
    <3>4. Fitting(new) = IF c.fits THEN f \o <<c>> ELSE f
      BY <2>3, FittingAfter
    <3>5. Foremost(f \o <<c>>, n) \subseteq Foremost(f, n) \cup {c.id}
      <4> HIDE DEF f
      <4>1. Foremost((f \o <<c>>) \o none, n) \subseteq Foremost(f \o none, n) \cup {c.id}
        <5> HIDE DEF none
        <5> QED BY <3>1, PutIn
      <4>2. (f \o <<c>>) \o none = f \o <<c>> /\ f \o none = f
        BY <3>1
      <4> QED BY <4>1, <4>2
    <3>6. IdsOf(Behind(new)) = Foremost(Fitting(new), n) /\ IdsOf(Behind(claims)) = Foremost(f, n)
      BY <3>2, BehindIsFront
    <3>7. IdsOf(Behind(new)) \subseteq IdsOf(Behind(claims)) \cup {c.id}
      <4> HIDE DEF f, n
      <4> QED BY <3>4, <3>5, <3>6
    <3> QED BY <3>2, <3>3, <3>7 DEF OneGetsIn
  <2> QED BY <2>1, <2>2, <2>3
<1>2. ASSUME NEW p \in DOMAIN claims, claims[p].id = c.id
      PROVE  /\ new \in Seq(ListedClaim) /\ Once(new)
             /\ OneGetsIn(IdsOf(Behind(claims)), IdsOf(Behind(new)))
  <2> DEFINE e == claims[p]
             n == offset
             none == <<>>
  <2>1. PICK u \in Seq(ListedClaim), w \in Seq(ListedClaim) :
          /\ claims = (u \o <<e>>) \o w
          /\ \A i \in 1 .. Len(u) : u[i].id # e.id
          /\ \A i \in 1 .. Len(w) : w[i].id # e.id
          /\ Once(u \o w)
    BY TakenApart
  <2>2. e \in ListedClaim /\ e.id = c.id
    BY <1>2
  <2> HIDE DEF e
  <2>3. Updated(c) = (u \o w) \o <<c>> /\ Resolved(c) = (u \o <<c>>) \o w
    <3>1. c.id = e.id /\ claims = (u \o <<e>>) \o w
      BY <2>1, <2>2
    <3> QED BY ONLY <2>1, <2>2, <3>1, c \in ListedClaim, u \in Seq(ListedClaim), w \in Seq(ListedClaim), ChangedInList
  <2> DEFINE fu == Fitting(u)
             fw == Fitting(w)
  <2>4. /\ fu \in Seq(ListedClaim) /\ fw \in Seq(ListedClaim) /\ fu \o fw \in Seq(ListedClaim)
        /\ u \o w \in Seq(ListedClaim) /\ none \in Seq(ListedClaim)
    BY FittingIsSeq
  <2>5. Fitting(claims) = IF e.fits THEN (fu \o <<e>>) \o fw ELSE fu \o fw
    BY <2>1, <2>2, FittingAround
  <2>6. CASE new = (u \o w) \o <<c>>
    <3>1. new \in Seq(ListedClaim)
      BY <2>4, <2>6
    <3>2. Once(new)
      <4> DEFINE b == u \o w
      <4>1. \A i \in 1 .. Len(b) : b[i].id # e.id
        <5>1. /\ Len(b) = Len(u) + Len(w) /\ Len(u) \in Nat /\ Len(w) \in Nat
              /\ \A i \in 1 .. Len(u) : b[i] = u[i]
              /\ \A i \in 1 .. Len(w) : b[Len(u) + i] = w[i]
          OBVIOUS
        <5> HIDE DEF b
        <5> SUFFICES ASSUME NEW i \in 1 .. Len(b) PROVE b[i].id # e.id
          OBVIOUS
        <5>2. CASE i <= Len(u)
          <6>1. i \in 1 .. Len(u)
            BY <5>1, <5>2
          <6>2. b[i] = u[i] /\ u[i].id # e.id
            BY <2>1, <5>1, <6>1
          <6> QED BY <6>2
        <5>3. CASE i > Len(u)
          <6>1. i - Len(u) \in 1 .. Len(w) /\ Len(u) + (i - Len(u)) = i
            BY <5>1, <5>3
          <6>2. b[Len(u) + (i - Len(u))] = w[i - Len(u)] /\ w[i - Len(u)].id # e.id
            BY <2>1, <5>1, <6>1
          <6> QED BY <6>1, <6>2
        <5> QED BY <5>1, <5>2, <5>3
      <4>2. b \in Seq(ListedClaim) /\ Once(b)
        BY <2>1, <2>4
      <4> HIDE DEF b
      <4>3. /\ Len(new) = Len(b) + 1 /\ new[Len(b) + 1] = c /\ Len(b) \in Nat
            /\ \A i \in 1 .. Len(b) : new[i] = b[i]
        BY <2>6, <4>2 DEF b
      <4>4. \A i \in 1 .. Len(new) : i \in 1 .. Len(b) \/ i = Len(b) + 1
        BY <4>3
      <4> QED BY <2>2, <4>1, <4>2, <4>3, <4>4 DEF Once
    <3>3. Fitting(new) = IF c.fits THEN (fu \o fw) \o <<c>> ELSE fu \o fw
      <4>1. Fitting(u \o w) = fu \o fw
        BY FittingOfBoth
      <4>2. Fitting(new) = IF c.fits THEN Fitting(u \o w) \o <<c>> ELSE Fitting(u \o w)
        BY <2>4, <2>6, FittingAfter
      <4> QED BY <4>1, <4>2
    <3>4. OneGetsIn(Foremost(Fitting(claims), n), Foremost(Fitting(new), n))
      <4> HIDE DEF fu, fw, n
      <4>0. n \in Nat
        BY DEF n
      <4>1. CASE e.fits
        <5> DEFINE tail == IF c.fits THEN <<c>> ELSE none
        <5>1. /\ tail \in Seq(ListedClaim) /\ Len(tail) <= 1
              /\ \A i \in 1 .. Len(tail) : tail[i].id = e.id
          BY <2>2
        <5>2. Fitting(new) = (fu \o fw) \o tail
          <6>1. (fu \o fw) \o none = fu \o fw
            BY <2>4
          <6> HIDE DEF none
          <6> QED BY <3>3, <6>1
        <5> HIDE DEF tail
        <5>3. OneGetsIn(Foremost((fu \o <<e>>) \o fw, n), Foremost((fu \o fw) \o tail, n))
          <6>1. fu \in Seq(ListedClaim) /\ fw \in Seq(ListedClaim) /\ e \in ListedClaim
            BY <2>2, <2>4
          <6> QED BY <4>0, <5>1, <6>1, TakenOut
        <5> QED BY <2>5, <4>1, <5>2, <5>3
      <4>2. CASE ~e.fits
        <5> DEFINE b == fu \o fw
        <5>1. b \in Seq(ListedClaim)
          BY <2>4
        <5> HIDE DEF b
        <5>2. Foremost((b \o <<c>>) \o none, n) \subseteq Foremost(b \o none, n) \cup {c.id}
          <6> HIDE DEF none
          <6> QED BY <2>4, <4>0, <5>1, PutIn
        <5>3. (b \o <<c>>) \o none = b \o <<c>> /\ b \o none = b
          BY <5>1
        <5>4. Fitting(claims) = b /\ (Fitting(new) = b \/ Fitting(new) = b \o <<c>>)
          BY <2>5, <3>3, <4>2 DEF b
        <5> QED BY <5>2, <5>3, <5>4 DEF OneGetsIn
      <4> QED BY <4>1, <4>2
    <3>5. IdsOf(Behind(new)) = Foremost(Fitting(new), n)
          /\ IdsOf(Behind(claims)) = Foremost(Fitting(claims), n)
      BY <3>1, BehindIsFront
    <3> QED BY <3>1, <3>2, <3>4, <3>5
  <2>7. CASE new = (u \o <<c>>) \o w
    <3>1. new \in Seq(ListedClaim)
      BY <2>7
    <3>2. Once(new)
      <4> DEFINE old == (u \o <<e>>) \o w
      <4>1. Len(old) = Len(new) /\ \A i \in 1 .. Len(new) : new[i].id = old[i].id
        BY <2>2, <2>7
      <4>2. Once(old)
        <5>1. old = claims /\ DOMAIN claims = 1 .. Len(claims)
          BY <2>1
        <5> HIDE DEF old
        <5> QED BY <5>1 DEF Once, OncePerClaim
      <4> HIDE DEF old
      <4> QED BY <4>1, <4>2 DEF Once
    <3>3. Fitting(new) = IF c.fits THEN (fu \o <<c>>) \o fw ELSE fu \o fw
      BY <2>2, <2>7, FittingAround
    <3>4. OneGetsIn(Foremost(Fitting(claims), n), Foremost(Fitting(new), n))
      <4> HIDE DEF fu, fw, n
      <4>0. n \in Nat
        BY DEF n
      <4>1. CASE e.fits /\ c.fits
        <5>1. Foremost((fu \o <<c>>) \o fw, n) = Foremost((fu \o <<e>>) \o fw, n)
          BY <2>2, <2>4, <4>0, Replaced
        <5>2. Foremost(Fitting(new), n) = Foremost(Fitting(claims), n)
          BY <2>5, <3>3, <4>1, <5>1
        <5> QED BY <5>2 DEF OneGetsIn
      <4>2. CASE e.fits /\ ~c.fits
        <5>1. OneGetsIn(Foremost((fu \o <<e>>) \o fw, n), Foremost((fu \o fw) \o none, n))
          <6>1. /\ none \in Seq(ListedClaim) /\ Len(none) <= 1
                /\ \A i \in 1 .. Len(none) : none[i].id = e.id
            OBVIOUS
          <6> HIDE DEF none
          <6>2. fu \in Seq(ListedClaim) /\ fw \in Seq(ListedClaim) /\ e \in ListedClaim
            BY <2>2, <2>4
          <6> QED BY <4>0, <6>1, <6>2, TakenOut
        <5>2. (fu \o fw) \o none = fu \o fw
          BY <2>4
        <5> HIDE DEF none
        <5> QED BY <2>5, <3>3, <4>2, <5>1, <5>2
      <4>3. CASE ~e.fits /\ c.fits
        <5>1. Foremost((fu \o <<c>>) \o fw, n) \subseteq Foremost(fu \o fw, n) \cup {c.id}
          BY <2>4, <4>0, PutIn
        <5> QED BY <2>5, <3>3, <4>3, <5>1 DEF OneGetsIn
      <4>4. CASE ~e.fits /\ ~c.fits
        BY <2>5, <3>3, <4>4 DEF OneGetsIn
      <4> QED BY <4>1, <4>2, <4>3, <4>4
    <3>5. IdsOf(Behind(new)) = Foremost(Fitting(new), n)
          /\ IdsOf(Behind(claims)) = Foremost(Fitting(claims), n)
      BY <3>1, BehindIsFront
    <3> QED BY <3>1, <3>2, <3>4, <3>5
  <2> QED BY <2>3, <2>6, <2>7
<1> QED BY <1>1, <1>2

----------------------------------------------------------------------------
(* A page: what it holds of the filtered list, and that it gets on. *)
LEMMA CappedPositive ==
  ASSUME NEW limit \in Nat
  PROVE  Capped(limit) \in Nat \ {0}
<1> DEFINE k == Min({limit, MaxListItems})
<1>1. k \in Nat
  BY PagingAssumption, MinOfTwo
<1>2. Capped(limit) = Max({1, k})
  BY DEF Capped
<1> HIDE DEF k
<1>3. Max({1, k}) = IF 1 <= k THEN k ELSE 1
  BY <1>1, MaxOfTwo
<1> QED BY <1>1, <1>2, <1>3

LEMMA PageFollows ==
  ASSUME NEW f \in Seq(ListedClaim), NEW n \in Nat, NEW k \in Nat,
         NEW page, page = SubSeq(f, n + 1, Len(f)),
         NEW items, items = SubSeq(page, 1, Min({k, Len(page)}))
  PROVE  /\ Len(items) \in Nat
         /\ Foremost(f, n + Len(items)) \subseteq Foremost(f, n) \cup IdsOf(items)
<1> DEFINE F == Len(f)
           P == Len(page)
           I == Len(items)
<1>1. F \in Nat /\ DOMAIN f = 1 .. F
  OBVIOUS
<1>2. CASE n <= F
  <2>1. /\ page \in Seq(ListedClaim) /\ P = F - n
        /\ \A i \in 1 .. F - n : page[i] = f[n + i]
    <3>1. n + 1 \in 1 .. F + 1 /\ F \in n .. F
      BY <1>1, <1>2
    <3>2. /\ page \in Seq(ListedClaim)
          /\ P = IF n + 1 <= F THEN F - (n + 1) + 1 ELSE 0
          /\ \A i \in 1 .. F - (n + 1) + 1 : page[i] = f[n + 1 + i - 1]
      BY <1>1, <3>1, SubSeqProperties
    <3> HIDE DEF P, F
    <3>3. P = F - n /\ F - (n + 1) + 1 = F - n
      BY <1>1, <1>2, <3>2
    <3>4. \A i \in 1 .. F - n : n + 1 + i - 1 = n + i
      BY <1>1
    <3> QED BY <3>2, <3>3, <3>4
  <2> DEFINE m == Min({k, P})
  <2>2. P \in Nat /\ m \in Nat /\ m <= P
    <3>1. P \in Nat
      <4> HIDE DEF F
      <4> QED BY <1>1, <1>2, <2>1
    <3> HIDE DEF P
    <3> QED BY <3>1, MinOfTwo
  <2> HIDE DEF m
  <2>3. /\ items \in Seq(ListedClaim) /\ I = m
        /\ \A i \in 1 .. m : items[i] = page[i]
    <3>1. items = SubSeq(page, 1, m)
      BY DEF m
    <3>2. page \in Seq(ListedClaim) /\ m <= Len(page) /\ m \in Nat
      BY <2>1, <2>2
    <3>3. /\ SubSeq(page, 1, m) \in Seq(ListedClaim) /\ Len(SubSeq(page, 1, m)) = m
          /\ \A i \in 1 .. m : SubSeq(page, 1, m)[i] = page[i]
      BY ONLY <3>2
    <3> QED BY <3>1, <3>3
  <2>7. DOMAIN items = 1 .. I
    BY ONLY <2>3
  <2> HIDE DEF F, P, I
  <2>4. ASSUME NEW j \in 1 .. F, j <= n + I, j > n PROVE f[j].id \in IdsOf(items)
    <3>1. j - n \in 1 .. m /\ j - n \in 1 .. F - n /\ n + (j - n) = j
      BY <1>1, <1>2, <2>1, <2>2, <2>3, <2>4
    <3>2. items[j - n] = page[j - n] /\ page[j - n] = f[n + (j - n)]
      BY <2>1, <2>3, <3>1
    <3>3. items[j - n] \in ToSet(items)
      BY <2>3, <2>7, <3>1 DEF ToSet
    <3> QED BY <3>1, <3>2, <3>3 DEF IdsOf
  <2>5. ASSUME NEW j \in 1 .. F, j <= n + I PROVE f[j].id \in Foremost(f, n) \cup IdsOf(items)
    <3>1. CASE j <= n
      BY <3>1 DEF Foremost, F
    <3>2. CASE j > n
      BY <2>4, <2>5, <3>2
    <3> QED BY <1>1, <3>1, <3>2
  <2>6. Foremost(f, n + I) \subseteq Foremost(f, n) \cup IdsOf(items)
    BY <2>5 DEF Foremost, F
  <2> QED BY <2>2, <2>3, <2>6 DEF I
<1>3. CASE n > F
  <2>1. I \in Nat
    <3>1. page = <<>>
      <4> HIDE DEF F
      <4>1. F < n + 1 /\ n + 1 \in Int /\ F \in Int
        BY <1>1, <1>3
      <4> QED BY <4>1, SubSeqEmpty DEF F
    <3>6. Len(<<>>) = 0
      BY ONLY TRUE
    <3>2. P = 0
      BY <3>1, <3>6
    <3>3. Min({k, P}) = 0
      BY <3>2, MinOfTwo
    <3>4. items = <<>>
      BY <3>3, SubSeqEmpty
    <3>5. Len(items) = 0
      BY <3>4, <3>6
    <3> QED BY ONLY <3>5
  <2> HIDE DEF I
  <2>2. ASSUME NEW j \in 1 .. F PROVE j <= n
    BY <1>1, <1>3
  <2>3. Foremost(f, n + I) \subseteq Foremost(f, n)
    BY <2>2 DEF Foremost, F
  <2> QED BY <2>1, <2>3 DEF I
<1>4. n <= F \/ n > F
  <2> HIDE DEF F
  <2> QED BY <1>1
<1> QED BY <1>2, <1>3, <1>4

(* The misses: what is shown is not missed, and one claim more is at most  *)
(* one miss more.                                                          *)
LEMMA ShownIsNotMissed ==
  ASSUME NEW S, IsFiniteSet(S), NEW T, NEW shown, NEW items, T \subseteq S \cup items,
         NEW d \in Nat, Cardinality(S \ shown) <= d
  PROVE  Cardinality(T \ (shown \cup items)) <= d
<1> DEFINE A == S \ shown
           B == T \ (shown \cup items)
<1>1. IsFiniteSet(A)
  BY FS_Subset
<1>2. B \in SUBSET A
  OBVIOUS
<1>3. Cardinality(B) <= Cardinality(A) /\ Cardinality(A) \in Nat /\ Cardinality(B) \in Nat
  <2> HIDE DEF A, B
  <2>1. IsFiniteSet(B) /\ Cardinality(B) <= Cardinality(A)
    BY <1>1, <1>2, FS_Subset
  <2> QED BY <1>1, <2>1, FS_CardinalityType
<1>4. Cardinality(A) <= d
  OBVIOUS
<1> HIDE DEF A, B
<1>5. Cardinality(B) <= d
  BY <1>3, <1>4
<1> QED BY <1>5 DEF B

LEMMA OneMissMore ==
  ASSUME NEW S, IsFiniteSet(S), NEW T, OneGetsIn(S, T), NEW shown,
         NEW d \in Nat, Cardinality(S \ shown) <= d
  PROVE  Cardinality(T \ shown) <= d + 1
<1>1. PICK z : T \subseteq S \cup {z}
  BY DEF OneGetsIn
<1> DEFINE A == S \ shown
           B == T \ shown
           C == A \cup {z}
<1>2. IsFiniteSet(A)
  BY FS_Subset
<1>3. B \in SUBSET C
  BY <1>1
<1>4. Cardinality(A) <= d
  OBVIOUS
<1> HIDE DEF A, B
<1>5. Cardinality(A) \in Nat
  BY <1>2, FS_CardinalityType
<1>6. IsFiniteSet(C) /\ Cardinality(C) \in Nat /\ Cardinality(C) <= Cardinality(A) + 1
  <2>1. IsFiniteSet(C) /\ Cardinality(C) = IF z \in A THEN Cardinality(A) ELSE Cardinality(A) + 1
    BY <1>2, FS_AddElement
  <2> QED BY <1>5, <2>1
<1> HIDE DEF C
<1>7. IsFiniteSet(B) /\ Cardinality(B) <= Cardinality(C)
  BY <1>3, <1>6, FS_Subset
<1>8. Cardinality(B) \in Nat
  BY <1>7, FS_CardinalityType
<1>9. Cardinality(B) <= d + 1
  BY <1>4, <1>5, <1>6, <1>7, <1>8
<1> QED BY <1>9 DEF B

----------------------------------------------------------------------------
(* The steps. *)
LEMMA PagingInvInit == PagingInit => PagingInv
<1> SUFFICES ASSUME PagingInit PROVE PagingInv
  OBVIOUS
<1>1. claims = <<>> /\ offset = 0 /\ disturbed = 0
  BY DEF PagingInit
<1>2. claims \in Seq(ListedClaim) /\ OncePerClaim
  BY <1>1 DEF OncePerClaim
<1>3. offset \in Nat /\ disturbed \in Nat
  BY <1>1
<1>4. Foremost(Fitting(claims), offset) = {}
  <2>1. Fitting(claims) \in Seq(ListedClaim)
    BY <1>2, FittingIsSeq
  <2> DEFINE f == Fitting(claims)
  <2>2. Len(f) \in Nat
    BY <2>1
  <2> HIDE DEF f
  <2>3. Foremost(f, 0) = {}
    BY <2>2 DEF Foremost
  <2> QED BY <1>1, <2>3 DEF f
<1>5. IdsOf(Behind(claims)) \ seen = {}
  BY <1>2, <1>3, <1>4, BehindIsFront
<1>6. Cardinality(IdsOf(Behind(claims)) \ seen) = 0
  BY <1>5, FS_EmptySet
<1> QED BY <1>1, <1>2, <1>3, <1>6 DEF PagingInv, ClaimsMissedOnlyByChange

LEMMA ClaimEventKeepsPaging ==
  ASSUME PagingInv, ClaimEvent
  PROVE  PagingInv'
<1>1. PICK c \in ListedClaim : ClaimChanges(Updated(c)) \/ ClaimChanges(Resolved(c))
  BY DEF ClaimEvent
<1>2. PICK new : (new = Updated(c) \/ new = Resolved(c)) /\ ClaimChanges(new)
  BY <1>1
<1>3. /\ claims' = new /\ offset' = offset /\ seen' = seen
      /\ disturbed' = disturbed + IF Behind(new) = Behind(claims) THEN 0 ELSE 1
  BY <1>2 DEF ClaimChanges
<1>4. /\ claims \in Seq(ListedClaim) /\ offset \in Nat /\ disturbed \in Nat /\ OncePerClaim
      /\ Cardinality(IdsOf(Behind(claims)) \ seen) <= disturbed
  BY DEF PagingInv, ClaimsMissedOnlyByChange
<1>5. /\ new \in Seq(ListedClaim) /\ Once(new)
      /\ OneGetsIn(IdsOf(Behind(claims)), IdsOf(Behind(new)))
  BY <1>2, <1>4, ChangeMovesOne
<1>6. claims' \in Seq(ListedClaim) /\ offset' \in Nat /\ disturbed' \in Nat
  BY <1>3, <1>4, <1>5
<1>7. OncePerClaim'
  BY <1>3, <1>5 DEF OncePerClaim, Once
<1>8. Behind(claims)' = Behind(new)
  BY <1>3 DEF Behind
<1>9. Cardinality(IdsOf(Behind(new)) \ seen) <= disturbed'
  <2>1. CASE Behind(new) = Behind(claims)
    BY <1>3, <1>4, <2>1
  <2>2. CASE Behind(new) # Behind(claims)
    <3> DEFINE S == IdsOf(Behind(claims))
               T == IdsOf(Behind(new))
    <3>1. IsFiniteSet(S)
      BY <1>4, BehindIsFront
    <3>2. Cardinality(S \ seen) <= disturbed /\ disturbed \in Nat /\ OneGetsIn(S, T)
      BY <1>4, <1>5
    <3> HIDE DEF S, T
    <3>3. Cardinality(T \ seen) <= disturbed + 1
      BY <3>1, <3>2, OneMissMore
    <3>4. disturbed' = disturbed + 1
      BY <1>3, <2>2
    <3> QED BY <3>3, <3>4 DEF T
  <2> QED BY <2>1, <2>2
<1>10. ClaimsMissedOnlyByChange'
  <2>1. IdsOf(Behind(claims))' = IdsOf(Behind(new))
    BY <1>8 DEF IdsOf
  <2> QED BY <1>3, <1>9, <2>1 DEF ClaimsMissedOnlyByChange
<1> QED BY <1>6, <1>7, <1>10 DEF PagingInv

LEMMA ListClaimsKeepsPaging ==
  ASSUME PagingInv, NEW limit \in ClaimLimits, ListClaims(limit)
  PROVE  PagingInv'
<1> DEFINE f == Fitting(claims)
           n == offset
           k == Capped(limit)
           page == SubSeq(f, n + 1, Len(f))
           items == SubSeq(page, 1, Min({k, Len(page)}))
<1>1. /\ claims \in Seq(ListedClaim) /\ n \in Nat /\ disturbed \in Nat /\ OncePerClaim
      /\ Cardinality(IdsOf(Behind(claims)) \ seen) <= disturbed
  BY DEF PagingInv, ClaimsMissedOnlyByChange
<1>2. k \in Nat
  BY ClaimAssumption, CappedPositive
<1>3. /\ claims' = claims /\ disturbed' = disturbed
      /\ seen' = seen \cup IdsOf(items) /\ offset' = n + Len(items)
  BY DEF ListClaims, Page, From
<1>4. f \in Seq(ListedClaim)
  BY <1>1, FittingIsSeq
<1>5. /\ IdsOf(Behind(claims)) = Foremost(f, n)
      /\ IsFiniteSet(Foremost(f, n))
  BY <1>1, BehindIsFront
<1> HIDE DEF f, n, k
<1>6. Len(items) \in Nat /\ Foremost(f, n + Len(items)) \subseteq Foremost(f, n) \cup IdsOf(items)
  BY <1>1, <1>2, <1>4, PageFollows
<1> HIDE DEF items
<1>7. claims' \in Seq(ListedClaim) /\ offset' \in Nat /\ disturbed' \in Nat /\ OncePerClaim'
  BY <1>1, <1>3, <1>6 DEF OncePerClaim
<1>8. IdsOf(Behind(claims))' = Foremost(f, n + Len(items))
  <2> DEFINE b == n + Len(items)
  <2>1. b \in Nat
    BY <1>1, <1>6
  <2>2. Behind(claims)' = SubSeq(f, 1, Min({b, Len(f)}))
    BY <1>3 DEF Behind, f
  <2>3. IdsOf(Behind(claims))' = IdsOf(SubSeq(f, 1, Min({b, Len(f)})))
    BY <2>2 DEF IdsOf
  <2> HIDE DEF b
  <2>4. IdsOf(SubSeq(f, 1, Min({b, Len(f)}))) = Foremost(f, b)
    BY <1>4, <2>1, FirstIsFront
  <2> QED BY <2>3, <2>4 DEF b
<1>9. Cardinality(Foremost(f, n + Len(items)) \ (seen \cup IdsOf(items))) <= disturbed
  <2> DEFINE S == Foremost(f, n)
             T == Foremost(f, n + Len(items))
             I == IdsOf(items)
  <2>1. IsFiniteSet(S) /\ T \subseteq S \cup I /\ disturbed \in Nat /\ Cardinality(S \ seen) <= disturbed
    BY <1>1, <1>5, <1>6
  <2> HIDE DEF S, T, I
  <2>2. Cardinality(T \ (seen \cup I)) <= disturbed
    BY <2>1, ShownIsNotMissed
  <2> QED BY <2>2 DEF T, I
<1>10. ClaimsMissedOnlyByChange'
  BY <1>3, <1>8, <1>9 DEF ClaimsMissedOnlyByChange
<1> QED BY <1>7, <1>10 DEF PagingInv

LEMMA StartOverKeepsPaging ==
  ASSUME PagingInv, StartOver
  PROVE  PagingInv'
<1> DEFINE f == Fitting(claims)
<1>1. claims' = claims /\ offset' = 0 /\ seen' = {} /\ disturbed' = 0
  BY DEF StartOver
<1>2. claims \in Seq(ListedClaim) /\ OncePerClaim
  BY DEF PagingInv
<1>3. claims' \in Seq(ListedClaim) /\ offset' \in Nat /\ disturbed' \in Nat /\ OncePerClaim'
  BY <1>1, <1>2 DEF OncePerClaim
<1>4. f \in Seq(ListedClaim)
  BY <1>2, FittingIsSeq
<1>5. Behind(claims)' = SubSeq(f, 1, Min({0, Len(f)}))
  BY <1>1 DEF Behind
<1>6. Len(f) \in Nat
  BY <1>4
<1> HIDE DEF f
<1>7. IdsOf(SubSeq(f, 1, Min({0, Len(f)}))) = Foremost(f, 0)
  BY <1>4, FirstIsFront
<1>8. Foremost(f, 0) = {}
  BY <1>6 DEF Foremost
<1>9. IdsOf(Behind(claims))' = {}
  BY <1>5, <1>7, <1>8 DEF IdsOf
<1>10. IdsOf(Behind(claims))' \ seen' = {}
  BY <1>9
<1>11. Cardinality(IdsOf(Behind(claims))' \ seen') = 0
  BY <1>10, FS_EmptySet
<1>12. ClaimsMissedOnlyByChange'
  BY <1>1, <1>11 DEF ClaimsMissedOnlyByChange
<1> QED BY <1>3, <1>12 DEF PagingInv

LEMMA PagingInvNext == PagingInv /\ [PagingNext]_pagingVars => PagingInv'
<1> SUFFICES ASSUME PagingInv, [PagingNext]_pagingVars PROVE PagingInv'
  OBVIOUS
<1>1. CASE UNCHANGED claimVars
  BY <1>1 DEF claimVars, PagingInv, OncePerClaim, ClaimsMissedOnlyByChange, IdsOf, Behind
<1>2. CASE ClaimEvent
  BY <1>2, ClaimEventKeepsPaging
<1>3. CASE \E limit \in ClaimLimits : ListClaims(limit)
  BY <1>3, ListClaimsKeepsPaging
<1>4. CASE StartOver
  BY <1>4, StartOverKeepsPaging
<1> QED BY <1>1, <1>2, <1>3, <1>4 DEF PagingNext, pagingVars

(* The list holds each claim once, and the agent misses no more claims     *)
(* than there were changes behind it, whatever page sizes, ceiling and     *)
(* claims there are (list_claims over applyPlayerEvent's list).            *)
THEOREM PagingInvariant == PagingSpec => []PagingInv
<1> QED BY PagingInvInit, PagingInvNext, PTL DEF PagingSpec

(* Paging through the claims misses at most one claim for each change of   *)
(* the part already paged over: a listing nothing disturbs is complete     *)
(* (tools.ts's slice against the projection's remove and append).          *)
THEOREM ClaimsMissedOnlyByChangeCorrect == PagingSpec => []ClaimsMissedOnlyByChange
<1>1. PagingInv => ClaimsMissedOnlyByChange
  BY DEF PagingInv
<1> QED BY <1>1, PagingInvariant, PTL
=============================================================================
