------------------------------- MODULE FoldLaws -------------------------------
(***************************************************************************)
(* Induction over numbers, the equations of a fold over a sequence, and of *)
(* sequences joined to one.                                                *)
(*                                                                         *)
(* Op is the operator that is folded, with a parameter in front: a module  *)
(* that proves something about a fold by an operator of its own takes an   *)
(* instance of this one.  Fold and Joined are FoldLeft and FlattenSeq of   *)
(* the community modules with their definitions written out, so that an    *)
(* instance does not bring those modules along; expanding both shows that  *)
(* they are equal.                                                         *)
(***************************************************************************)
EXTENDS Sequences, NaturalsInduction, WellFoundedInduction, TLAPS

CONSTANT Op(_, _, _)

Highest(S) == CHOOSE x \in S : \A y \in S : x >= y

Fold(p, base, seq) ==
  LET iter[s \in SUBSET (DOMAIN seq)] ==
        IF s = {} THEN base
        ELSE LET n == Highest(s) IN Op(p, iter[s \ {n}], seq[n])
  IN  iter[DOMAIN seq]

----------------------------------------------------------------------------
(***************************************************************************)
(* Induction over numbers, for a property given as the set of the numbers  *)
(* that have it.                                                           *)
(***************************************************************************)

(* A set of numbers has a least one. *)
LEMMA LeastNumber ==
  ASSUME NEW T \in SUBSET Nat, T # {}
  PROVE  \E n \in T : \A m \in T : n <= m
<1> DEFINE R == OpToRel(<, Nat)
<1>1. IsWellFoundedOn(R, Nat)
  BY NatLessThanWellFounded
<1>2. \A m, n \in Nat : m < n => <<m, n>> \in R
  BY DEF OpToRel
<1> HIDE DEF R
<1>3. PICK n \in T : \A m \in T : ~(<<m, n>> \in R)
  BY <1>1, WFMin
<1>4. ASSUME NEW m \in T PROVE n <= m
  <2>1. m \in Nat /\ n \in Nat /\ ~(m < n)
    BY <1>2, <1>3
  <2> QED BY <2>1
<1> QED BY <1>4

(* What holds of 0 and goes from each number below N to the next holds up  *)
(* to N.                                                                   *)
LEMMA UpTo ==
  ASSUME NEW N \in Nat, NEW T, 0 \in T, \A n \in 0 .. N - 1 : n \in T => n + 1 \in T
  PROVE  \A n \in 0 .. N : n \in T
<1> DEFINE B == {n \in 0 .. N : n \notin T}
<1> SUFFICES ASSUME B # {} PROVE FALSE
  OBVIOUS
<1>0. B \in SUBSET Nat
  OBVIOUS
<1>1. PICK n \in B : \A m \in B : n <= m
  BY <1>0, LeastNumber
<1>2. n # 0 /\ n - 1 \in 0 .. N - 1 /\ n - 1 \notin B /\ (n - 1) + 1 = n
  BY <1>1
<1> QED BY <1>1, <1>2

----------------------------------------------------------------------------
(***************************************************************************)
(* FoldLeft.                                                               *)
(***************************************************************************)

(* The highest position of a set of positions that holds the last one. *)
LEMMA HighestIsLast ==
  ASSUME NEW n \in Nat, NEW s \in SUBSET (1 .. n), n \in s
  PROVE  Highest(s) = n
<1>1. \A y \in s : n >= y
  OBVIOUS
<1>2. ASSUME NEW x \in s, \A y \in s : x >= y PROVE x = n
  <2>1. x \in Int /\ n \in Int /\ n >= x /\ x >= n
    BY <1>1, <1>2
  <2> QED BY <2>1
<1> QED BY <1>1, <1>2 DEF Highest

(* The function that FoldLeft goes through satisfies its equation. *)
Folds(p, base, seq, iter, D) ==
  iter = [s \in SUBSET D |-> IF s = {} THEN base ELSE Op(p, iter[s \ {Highest(s)}], seq[Highest(s)])]

(* There is such a function, for every number of positions. *)
LEMMA FoldExists ==
  ASSUME NEW p, NEW base, NEW seq, NEW N \in Nat
  PROVE  \E iter : Folds(p, base, seq, iter, 1 .. N)
<1> DEFINE T == {n \in 0 .. N : \E iter : Folds(p, base, seq, iter, 1 .. n)}
<1>1. 0 \in T
  <2>1. Folds(p, base, seq, [s \in SUBSET (1 .. 0) |-> base], 1 .. 0)
    <3>1. \A s \in SUBSET (1 .. 0) : s = {}
      OBVIOUS
    <3> QED BY <3>1 DEF Folds
  <2> QED BY <2>1
<1>2. ASSUME NEW n \in 0 .. N - 1, n \in T PROVE n + 1 \in T
  <2>1. PICK f : Folds(p, base, seq, f, 1 .. n)
    BY <1>2
  <2> DEFINE g == [s \in SUBSET (1 .. n + 1) |->
                     IF n + 1 \in s THEN Op(p, f[s \ {n + 1}], seq[n + 1]) ELSE f[s]]
  <2>2. ASSUME NEW s \in SUBSET (1 .. n + 1)
        PROVE  g[s] = IF s = {} THEN base ELSE Op(p, g[s \ {Highest(s)}], seq[Highest(s)])
    <3>1. CASE n + 1 \in s
      <4>1. Highest(s) = n + 1
        BY <3>1, HighestIsLast
      <4>2. s \ {n + 1} \in SUBSET (1 .. n + 1) /\ n + 1 \notin s \ {n + 1}
        OBVIOUS
      <4>3. g[s \ {n + 1}] = f[s \ {n + 1}]
        BY <4>2
      <4> QED BY <3>1, <4>1, <4>3
    <3>2. CASE n + 1 \notin s /\ s # {}
      <4>1. s \in SUBSET (1 .. n)
        <5>1. \A m \in s : m \in 1 .. n + 1 /\ m # n + 1
          BY <3>2
        <5> QED BY <5>1
      <4>2. ASSUME NEW r
            PROVE  /\ s \ {r} \in SUBSET (1 .. n)
                   /\ s \ {r} \in SUBSET (1 .. n + 1) /\ n + 1 \notin s \ {r}
        BY <3>2, <4>1
      <4>3. g[s] = f[s] /\ g[s \ {Highest(s)}] = f[s \ {Highest(s)}]
        BY <3>2, <4>2
      <4>4. f[s] = Op(p, f[s \ {Highest(s)}], seq[Highest(s)])
        <5> HIDE DEF g
        <5> QED BY <2>1, <3>2, <4>1 DEF Folds
      <4> QED BY <3>2, <4>3, <4>4
    <3>3. CASE s = {}
      BY <2>1, <3>3 DEF Folds
    <3> QED BY <3>1, <3>2, <3>3
  <2>3. Folds(p, base, seq, g, 1 .. n + 1)
    BY <2>2 DEF Folds
  <2> QED BY <2>3
<1>3. \A n \in 0 .. N : n \in T
  <2> HIDE DEF T
  <2> QED BY <1>1, <1>2, UpTo
<1> QED BY <1>3

(* A fold passes through the values it has after each position. *)
Through(p, base, seq, g) ==
  /\ g[0] = base
  /\ \A k \in 1 .. Len(seq) : g[k] = Op(p, g[k - 1], seq[k])

(* Every fold goes through such values. *)
LEMMA FoldGoesThrough ==
  ASSUME NEW p, NEW base, NEW S, NEW seq \in Seq(S)
  PROVE  \E g : Through(p, base, seq, g) /\ Fold(p, base, seq) = g[Len(seq)]
<1> DEFINE N == Len(seq)
           iter == CHOOSE f : Folds(p, base, seq, f, 1 .. N)
           g == [k \in 0 .. N |-> iter[1 .. k]]
<1>1. N \in Nat /\ DOMAIN seq = 1 .. N
  OBVIOUS
<1>2. Folds(p, base, seq, iter, 1 .. N)
  BY <1>1, FoldExists
<1>3. Fold(p, base, seq) = iter[1 .. N]
  BY <1>1 DEF Fold, Folds
<1> HIDE DEF iter, N
<1>4. g[0] = base
  BY <1>1, <1>2 DEF Folds
<1>5. ASSUME NEW k \in 1 .. N PROVE g[k] = Op(p, g[k - 1], seq[k])
  <2>0. k \in Nat /\ N \in Nat /\ 1 <= k /\ k <= N /\ k \in 1 .. k
    BY <1>1
  <2>1. 1 .. k \in SUBSET (1 .. N) /\ 1 .. k # {} /\ k - 1 \in 0 .. N /\ k \in 0 .. N
    <3>1. \A m \in 1 .. k : m \in 1 .. N
      BY <2>0
    <3>2. k - 1 \in 0 .. N /\ k \in 0 .. N
      BY <2>0
    <3>3. 1 .. k # {}
      BY <2>0
    <3> HIDE DEF N
    <3> QED BY <3>1, <3>2, <3>3
  <2>4. (1 .. k) \ {k} = 1 .. k - 1
    BY <2>0
  <2>2. Highest(1 .. k) = k
    BY <2>0, HighestIsLast
  <2>3. iter[1 .. k] = Op(p, iter[1 .. k - 1], seq[k])
    BY <1>2, <2>1, <2>2, <2>4 DEF Folds
  <2> QED BY <1>1, <2>1, <2>3
<1>6. Fold(p, base, seq) = g[N]
  BY <1>1, <1>3
<1> HIDE DEF g
<1> QED BY <1>4, <1>5, <1>6 DEF Through, N

(* A fold is what one arrives at that way. *)
LEMMA FoldIsEnd ==
  ASSUME NEW p, NEW base, NEW S, NEW seq \in Seq(S), NEW g, Through(p, base, seq, g)
  PROVE  Fold(p, base, seq) = g[Len(seq)]
<1>1. PICK h : Through(p, base, seq, h) /\ Fold(p, base, seq) = h[Len(seq)]
  BY FoldGoesThrough
<1> DEFINE T == {n \in Nat : g[n] = h[n]}
<1>2. 0 \in T
  BY <1>1 DEF Through
<1>3. ASSUME NEW n \in 0 .. Len(seq) - 1, n \in T PROVE n + 1 \in T
  <2>1. n + 1 \in 1 .. Len(seq) /\ (n + 1) - 1 = n /\ n + 1 \in Nat
    OBVIOUS
  <2>2. g[n + 1] = Op(p, g[n], seq[n + 1]) /\ h[n + 1] = Op(p, h[n], seq[n + 1])
    BY <1>1, <2>1 DEF Through
  <2> QED BY <1>3, <2>1, <2>2
<1>4. Len(seq) \in Nat
  OBVIOUS
<1>5. \A n \in 0 .. Len(seq) : n \in T
  <2> HIDE DEF T
  <2> QED BY <1>2, <1>3, <1>4, UpTo
<1> QED BY <1>1, <1>4, <1>5

(* Sequences whose elements the operator cannot tell apart have one fold.  *)
LEMMA FoldSame ==
  ASSUME NEW p, NEW base, NEW S, NEW s \in Seq(S), NEW U, NEW t \in Seq(U), Len(s) = Len(t),
         \A k \in 1 .. Len(s) : \A x : Op(p, x, s[k]) = Op(p, x, t[k])
  PROVE  Fold(p, base, s) = Fold(p, base, t)
<1>1. PICK g : Through(p, base, s, g) /\ Fold(p, base, s) = g[Len(s)]
  BY FoldGoesThrough
<1>2. Through(p, base, t, g)
  BY <1>1 DEF Through
<1> QED BY <1>1, <1>2, FoldIsEnd

(* Folding nothing. *)
LEMMA FoldEmpty ==
  ASSUME NEW p, NEW base
  PROVE  Fold(p, base, <<>>) = base
<1>1. Through(p, base, <<>>, [n \in {0} |-> base])
  BY DEF Through
<1> QED BY <1>1, FoldIsEnd

(* Folding one element more. *)
LEMMA FoldAppend ==
  ASSUME NEW p, NEW base, NEW S, NEW seq \in Seq(S), NEW e \in S
  PROVE  Fold(p, base, Append(seq, e)) = Op(p, Fold(p, base, seq), e)
<1> DEFINE N == Len(seq)
           longer == Append(seq, e)
<1>1. PICK g : Through(p, base, seq, g) /\ Fold(p, base, seq) = g[N]
  BY FoldGoesThrough
<1> DEFINE h == [n \in 0 .. N + 1 |-> IF n = N + 1 THEN Op(p, g[N], e) ELSE g[n]]
<1>2. N \in Nat /\ longer \in Seq(S) /\ Len(longer) = N + 1 /\ longer[N + 1] = e
  OBVIOUS
<1>3. \A k \in 1 .. N : longer[k] = seq[k]
  OBVIOUS
<1>4. h[0] = base
  BY <1>1, <1>2 DEF Through
<1>5. ASSUME NEW k \in 1 .. Len(longer) PROVE h[k] = Op(p, h[k - 1], longer[k])
  <2>1. CASE k = N + 1
    BY <1>2, <2>1
  <2>2. CASE k \in 1 .. N
    <3>1. g[k] = Op(p, g[k - 1], seq[k])
      BY <1>1, <2>2 DEF Through
    <3> QED BY <1>2, <1>3, <2>2, <3>1
  <2> QED BY <1>2, <2>1, <2>2
<1>6. Fold(p, base, longer) = h[N + 1]
  <2> HIDE DEF h, longer
  <2> QED BY <1>2, <1>4, <1>5, FoldIsEnd DEF Through
<1> QED BY <1>1, <1>2, <1>6

(* Folding one or two elements. *)
LEMMA FoldShort ==
  ASSUME NEW p, NEW base, NEW S, NEW e \in S, NEW f \in S
  PROVE  /\ Fold(p, base, <<e>>) = Op(p, base, e)
         /\ Fold(p, base, <<e, f>>) = Op(p, Op(p, base, e), f)
<1> DEFINE none == <<>>
           one  == <<e>>
<1>1. none \in Seq(S) /\ one \in Seq(S)
  OBVIOUS
<1>2. <<e>> = Append(none, e) /\ <<e, f>> = Append(one, f)
  OBVIOUS
<1>3. Fold(p, base, none) = base
  BY FoldEmpty
<1> HIDE DEF none, one
<1>4. Fold(p, base, Append(none, e)) = Op(p, Fold(p, base, none), e)
  BY <1>1, FoldAppend
<1>5. Fold(p, base, Append(one, f)) = Op(p, Fold(p, base, one), f)
  BY <1>1, FoldAppend
<1> QED BY <1>2, <1>3, <1>4, <1>5 DEF one

(* Folding one sequence after the other. *)
LEMMA FoldConcat ==
  ASSUME NEW p, NEW base, NEW S, NEW s \in Seq(S), NEW t \in Seq(S)
  PROVE  Fold(p, base, s \o t) = Fold(p, Fold(p, base, s), t)
<1> DEFINE M == Len(s)
           N == Len(t)
           both == s \o t
<1>1. PICK g : Through(p, base, s, g) /\ Fold(p, base, s) = g[M]
  BY FoldGoesThrough
<1>2. PICK h : Through(p, g[M], t, h) /\ Fold(p, g[M], t) = h[N]
  BY FoldGoesThrough
<1> DEFINE f == [n \in 0 .. M + N |-> IF n <= M THEN g[n] ELSE h[n - M]]
<1>3. M \in Nat /\ N \in Nat /\ both \in Seq(S) /\ Len(both) = M + N
  OBVIOUS
<1>4. /\ \A k \in 1 .. M : both[k] = s[k]
      /\ \A k \in M + 1 .. M + N : both[k] = t[k - M]
  OBVIOUS
<1> HIDE DEF both, M, N
<1>5. f[0] = base
  BY <1>1, <1>3 DEF Through
<1>6. ASSUME NEW k \in 1 .. M + N PROVE f[k] = Op(p, f[k - 1], both[k])
  <2>1. CASE k \in 1 .. M
    <3>1. g[k] = Op(p, g[k - 1], s[k])
      BY <1>1, <2>1 DEF Through, M
    <3> QED BY <1>3, <1>4, <2>1, <3>1
  <2>2. CASE k \in M + 1 .. M + N
    <3>1. k - M \in 1 .. N /\ (k - M) - 1 = (k - 1) - M
      BY <1>3, <2>2
    <3>2. h[k - M] = Op(p, h[(k - 1) - M], t[k - M])
      BY <1>2, <3>1 DEF Through, N
    <3>3. f[k - 1] = h[(k - 1) - M]
      <4>1. CASE k = M + 1
        <5>1. (k - 1) - M = 0 /\ k - 1 = M
          BY <1>3, <4>1
        <5> QED BY <1>2, <1>3, <5>1 DEF Through
      <4>2. CASE k # M + 1
        BY <1>3, <2>2, <4>2
      <4> QED BY <4>1, <4>2
    <3> QED BY <1>3, <1>4, <2>2, <3>2, <3>3
  <2> QED BY <1>3, <2>1, <2>2
<1>7. f[M + N] = h[N]
  <2>1. CASE N = 0
    BY <1>2, <1>3, <2>1 DEF Through
  <2>2. CASE N > 0
    BY <1>3, <2>2
  <2> QED BY <1>3, <2>1, <2>2
<1>8. Fold(p, base, both) = f[M + N]
  <2> HIDE DEF f
  <2>1. Through(p, base, both, f)
    BY <1>3, <1>5, <1>6 DEF Through
  <2> QED BY <1>3, <2>1, FoldIsEnd
<1> QED BY <1>1, <1>2, <1>7, <1>8 DEF both

(* A fold climbs through the sets V[0], V[1], ... when each of its steps   *)
(* leads from one to the next.                                             *)
LEMMA FoldClimbs ==
  ASSUME NEW p, NEW V, NEW base \in V[0], NEW S, NEW seq \in Seq(S),
         \A k \in 1 .. Len(seq) : \A v \in V[k - 1] : Op(p, v, seq[k]) \in V[k]
  PROVE  Fold(p, base, seq) \in V[Len(seq)]
<1>1. PICK g : Through(p, base, seq, g) /\ Fold(p, base, seq) = g[Len(seq)]
  BY FoldGoesThrough
<1> DEFINE T == {n \in Nat : g[n] \in V[n]}
<1>2. 0 \in T
  BY <1>1 DEF Through
<1>3. ASSUME NEW n \in 0 .. Len(seq) - 1, n \in T PROVE n + 1 \in T
  <2>1. n + 1 \in 1 .. Len(seq) /\ (n + 1) - 1 = n /\ n + 1 \in Nat
    OBVIOUS
  <2>2. g[n + 1] = Op(p, g[n], seq[n + 1])
    BY <1>1, <2>1 DEF Through
  <2>3. g[n] \in V[(n + 1) - 1]
    BY <1>3, <2>1
  <2>4. Op(p, g[n], seq[n + 1]) \in V[n + 1]
    BY <2>1, <2>3
  <2> QED BY <2>1, <2>2, <2>4
<1>4. Len(seq) \in Nat
  OBVIOUS
<1>5. \A n \in 0 .. Len(seq) : n \in T
  <2> HIDE DEF T
  <2> QED BY <1>2, <1>3, <1>4, UpTo
<1> QED BY <1>1, <1>4, <1>5

----------------------------------------------------------------------------
(***************************************************************************)
(* Sequences joined to one.                                                *)
(***************************************************************************)
Joined(seqs) ==
  IF Len(seqs) = 0 THEN seqs
  ELSE LET flatten[i \in 1 .. Len(seqs)] ==
             IF i = 1 THEN seqs[i] ELSE flatten[i - 1] \o seqs[i]
       IN  flatten[Len(seqs)]

(* The function that Joined goes through. *)
Flattens(seqs, f, n) ==
  f = [i \in 1 .. n |-> IF i = 1 THEN seqs[i] ELSE f[i - 1] \o seqs[i]]

(* There is such a function, for every number of sequences. *)
LEMMA FlattenExists ==
  ASSUME NEW seqs, NEW N \in Nat
  PROVE  \E f : Flattens(seqs, f, N)
<1> DEFINE T == {n \in 0 .. N : \E f : Flattens(seqs, f, n)}
<1>1. 0 \in T
  <2>1. Flattens(seqs, [i \in 1 .. 0 |-> <<>>], 0)
    BY DEF Flattens
  <2> QED BY <2>1
<1>2. ASSUME NEW n \in 0 .. N - 1, n \in T PROVE n + 1 \in T
  <2>1. PICK f : Flattens(seqs, f, n)
    BY <1>2
  <2> DEFINE g == [i \in 1 .. n + 1 |->
                     IF i <= n THEN f[i] ELSE IF i = 1 THEN seqs[i] ELSE f[n] \o seqs[i]]
  <2>2. ASSUME NEW i \in 1 .. n + 1
        PROVE  g[i] = IF i = 1 THEN seqs[i] ELSE g[i - 1] \o seqs[i]
    <3>1. CASE i <= n
      <4>0. i \in 1 .. n
        BY <3>1
      <4>1. f[i] = IF i = 1 THEN seqs[i] ELSE f[i - 1] \o seqs[i]
        <5> HIDE DEF g
        <5> QED BY <2>1, <4>0, Zenon DEF Flattens
      <4>2. i # 1 => g[i - 1] = f[i - 1]
        BY <3>1
      <4> QED BY <3>1, <4>1, <4>2
    <3>2. CASE i = n + 1 /\ i # 1
      <4>1. g[i - 1] = f[n] /\ ~(i <= n)
        BY <3>2
      <4>2. g[i] = f[n] \o seqs[i]
        BY <3>2, <4>1
      <4> HIDE DEF g
      <4> QED BY <3>2, <4>1, <4>2
    <3>3. CASE i = n + 1 /\ i = 1
      BY <3>3
    <3> QED BY <3>1, <3>2, <3>3
  <2>3. Flattens(seqs, g, n + 1)
    BY <2>2 DEF Flattens
  <2> QED BY <2>3
<1>3. \A n \in 0 .. N : n \in T
  <2> HIDE DEF T
  <2> QED BY <1>1, <1>2, UpTo
<1> QED BY <1>3

(* Flattening adds one sequence after the other. *)
LEMMA FlattenGoesThrough ==
  ASSUME NEW S, NEW seqs \in Seq(Seq(S)), seqs # <<>>
  PROVE  \E f : /\ f[1] = seqs[1]
                /\ \A i \in 2 .. Len(seqs) : f[i] = f[i - 1] \o seqs[i]
                /\ Joined(seqs) = f[Len(seqs)]
<1> DEFINE N == Len(seqs)
           f == CHOOSE h : Flattens(seqs, h, N)
<1>1. N \in Nat /\ N # 0
  OBVIOUS
<1>2. Flattens(seqs, f, N)
  BY <1>1, FlattenExists
<1>3. Joined(seqs) = f[N]
  BY <1>1 DEF Joined, Flattens
<1> HIDE DEF f
<1>4. f[1] = seqs[1]
  BY <1>1, <1>2 DEF Flattens
<1>5. ASSUME NEW i \in 2 .. N PROVE f[i] = f[i - 1] \o seqs[i]
  <2>1. i \in 1 .. N /\ i # 1
    BY <1>1
  <2> HIDE DEF N
  <2> QED BY <1>2, <2>1, Zenon DEF Flattens
<1> QED BY <1>3, <1>4, <1>5

(* Flattening sequences over S gives a sequence over S. *)
LEMMA FlattenIsSeq ==
  ASSUME NEW S, NEW seqs \in Seq(Seq(S))
  PROVE  Joined(seqs) \in Seq(S)
<1>1. CASE seqs = <<>>
  BY <1>1 DEF Joined
<1>2. CASE seqs # <<>>
  <2>1. PICK f : /\ f[1] = seqs[1]
                 /\ \A i \in 2 .. Len(seqs) : f[i] = f[i - 1] \o seqs[i]
                 /\ Joined(seqs) = f[Len(seqs)]
    BY <1>2, FlattenGoesThrough
  <2> DEFINE T == {n \in Nat : f[n + 1] \in Seq(S)}
             M == Len(seqs) - 1
  <2>2. Len(seqs) \in Nat /\ Len(seqs) # 0 /\ \A i \in 1 .. Len(seqs) : seqs[i] \in Seq(S)
    BY <1>2
  <2>3. 0 \in T
    BY <2>1, <2>2
  <2>4. ASSUME NEW n \in 0 .. M - 1, n \in T PROVE n + 1 \in T
    <3>1. n + 2 \in 2 .. Len(seqs) /\ n + 2 \in 1 .. Len(seqs) /\ (n + 2) - 1 = n + 1
          /\ (n + 1) + 1 = n + 2 /\ n + 1 \in Nat
      BY <2>2
    <3>2. f[n + 2] = f[n + 1] \o seqs[n + 2]
      BY <2>1, <3>1
    <3>3. f[n + 1] \in Seq(S) /\ seqs[n + 2] \in Seq(S)
      BY <2>2, <2>4, <3>1
    <3>4. f[n + 2] \in Seq(S)
      BY <3>2, <3>3
    <3> QED BY <3>1, <3>4
  <2>5. M \in Nat /\ M + 1 = Len(seqs) /\ M \in 0 .. M
    BY <2>2
  <2>6. \A n \in 0 .. M : n \in T
    <3> HIDE DEF T, M
    <3> QED BY <2>3, <2>4, <2>5, UpTo
  <2>7. M \in T
    <3> HIDE DEF T, M
    <3> QED BY <2>5, <2>6
  <2> QED BY <2>1, <2>5, <2>7
<1> QED BY <1>1, <1>2

(* Folding a flattened sequence climbs likewise, a part at a time. *)
LEMMA FlattenClimbs ==
  ASSUME NEW p, NEW V, NEW base \in V[0], NEW S, NEW seqs \in Seq(Seq(S)),
         \A k \in 1 .. Len(seqs) : \A v \in V[k - 1] : Fold(p, v, seqs[k]) \in V[k]
  PROVE  Fold(p, base, Joined(seqs)) \in V[Len(seqs)]
<1>1. CASE seqs = <<>>
  BY <1>1, FoldEmpty DEF Joined
<1>2. CASE seqs # <<>>
  <2>1. PICK f : /\ f[1] = seqs[1]
                 /\ \A i \in 2 .. Len(seqs) : f[i] = f[i - 1] \o seqs[i]
                 /\ Joined(seqs) = f[Len(seqs)]
    BY <1>2, FlattenGoesThrough
  <2> DEFINE T == {n \in Nat : f[n + 1] \in Seq(S) /\ Fold(p, base, f[n + 1]) \in V[n + 1]}
             M == Len(seqs) - 1
  <2>2. Len(seqs) \in Nat /\ Len(seqs) # 0 /\ \A i \in 1 .. Len(seqs) : seqs[i] \in Seq(S)
    BY <1>2
  <2>3. 0 \in T
    <3>1. 1 \in 1 .. Len(seqs) /\ 0 + 1 = 1 /\ 1 - 1 = 0
      BY <2>2
    <3>2. Fold(p, base, seqs[1]) \in V[1]
      BY <3>1
    <3> QED BY <2>1, <2>2, <3>1, <3>2
  <2>4. ASSUME NEW n \in 0 .. M - 1, n \in T PROVE n + 1 \in T
    <3>1. n + 2 \in 2 .. Len(seqs) /\ n + 2 \in 1 .. Len(seqs) /\ (n + 2) - 1 = n + 1
          /\ (n + 1) + 1 = n + 2 /\ n + 1 \in Nat
      BY <2>2
    <3>2. f[n + 2] = f[n + 1] \o seqs[n + 2]
      BY <2>1, <3>1
    <3>3. seqs[n + 2] \in Seq(S) /\ f[n + 1] \in Seq(S) /\ Fold(p, base, f[n + 1]) \in V[n + 1]
      BY <2>2, <2>4, <3>1
    <3>4. Fold(p, base, f[n + 2]) = Fold(p, Fold(p, base, f[n + 1]), seqs[n + 2])
      BY <3>2, <3>3, FoldConcat
    <3>5. f[n + 2] \in Seq(S)
      BY <3>2, <3>3
    <3>6. Fold(p, Fold(p, base, f[n + 1]), seqs[n + 2]) \in V[n + 2]
      BY <3>1, <3>3
    <3> QED BY <3>1, <3>4, <3>5, <3>6
  <2>5. M \in Nat /\ M + 1 = Len(seqs) /\ M \in 0 .. M
    BY <2>2
  <2>6. \A n \in 0 .. M : n \in T
    <3> HIDE DEF T, M
    <3> QED BY <2>3, <2>4, <2>5, UpTo
  <2>7. M \in T
    <3> HIDE DEF T, M
    <3> QED BY <2>5, <2>6
  <2> QED BY <2>1, <2>5, <2>7
<1> QED BY <1>1, <1>2
================================================================================
