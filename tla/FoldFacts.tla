------------------------------ MODULE FoldFacts ------------------------------
(***************************************************************************)
(* What FoldLeft computes, for every operator and every sequence.  The     *)
(* provers cannot instantiate a lemma with an operator, but INSTANCE can:  *)
(* a module that folds Op over sequences instantiates this one with that   *)
(* operator, shows once that its folds are Fold (both unfold to the same   *)
(* term) and then cites the lemmas.                                        *)
(*                                                                         *)
(* Op takes a parameter that stays the same during a fold, the value so    *)
(* far and the next element.                                               *)
(***************************************************************************)
EXTENDS Integers, Sequences, WellFoundedInduction, TLAPS

CONSTANT Op(_, _, _)

\* FoldLeft of the community modules, unfolded: over the sets of the first n
\* indices, the greatest index last.
Top(s) == CHOOSE x \in s : \A y \in s : x >= y
Iterates(iter, k, base, q, D) ==
    iter = [s \in SUBSET D |->
               IF s = {} THEN base ELSE LET x == Top(s) IN Op(k, iter[s \ {x}], q[x])]
Fold(k, base, q) ==
    LET iter == CHOOSE iter : Iterates(iter, k, base, q, DOMAIN q) IN iter[DOMAIN q]

\* Induction, for a set of numbers.
LEMMA SetInduction ==
  ASSUME NEW S, 0 \in S, \A n \in Nat : n \in S => n + 1 \in S
  PROVE  Nat \subseteq S
<1> SUFFICES ASSUME Nat \ S # {} PROVE FALSE
  OBVIOUS
<1>1. PICK R : R = OpToRel(<, Nat)
  OBVIOUS
<1>2. IsWellFoundedOn(R, Nat)
  BY <1>1, NatLessThanWellFounded, Zenon
<1>3. \A x, y \in Nat : y < x => <<y, x>> \in R
  BY <1>1 DEF OpToRel
<1>4. PICK x \in Nat \ S : \A y \in Nat \ S : ~(<<y, x>> \in R)
  <2>1. Nat \ S \subseteq Nat
    OBVIOUS
  <2> QED
    BY <1>2, <2>1, WFMin
<1>5. x - 1 \in Nat \ S /\ x - 1 < x /\ x \in Nat
  BY <1>4
<1>6. <<x - 1, x>> \in R
  BY <1>3, <1>5
<1> QED
  BY <1>4, <1>5, <1>6

\* A set of the first numbers and the next has the next as its greatest element.
LEMMA TopIsNext ==
  ASSUME NEW n \in Nat, NEW s \in SUBSET (1 .. n + 1), n + 1 \in s
  PROVE  Top(s) = n + 1
<1>1. \A y \in s : n + 1 >= y
  OBVIOUS
<1>2. \A x \in s : (\A y \in s : x >= y) => x = n + 1
  OBVIOUS
<1>3. Top(s) \in s /\ \A y \in s : Top(s) >= y
  BY <1>1 DEF Top
<1> QED
  BY <1>2, <1>3

\* The recursive function that FoldLeft chooses exists.
LEMMA IterationExists ==
  ASSUME NEW k, NEW base, NEW q, NEW n \in Nat, NEW D, D = 1 .. n
  PROVE  \E iter : Iterates(iter, k, base, q, D)
<1> DEFINE S == {m \in Nat : \E iter : Iterates(iter, k, base, q, 1 .. m)}
<1>1. 0 \in S
  <2>1. Iterates([s \in SUBSET (1 .. 0) |-> base], k, base, q, 1 .. 0)
    <3>1. \A s \in SUBSET (1 .. 0) : s = {}
      OBVIOUS
    <3> QED
      BY <3>1 DEF Iterates
  <2> QED
    BY <2>1
<1>2. ASSUME NEW m \in Nat, m \in S PROVE m + 1 \in S
  <2>1. PICK old : Iterates(old, k, base, q, 1 .. m)
    BY <1>2
  <2> DEFINE next == [s \in SUBSET (1 .. m + 1) |->
                IF m + 1 \in s THEN Op(k, old[s \ {m + 1}], q[m + 1]) ELSE old[s]]
             Value(s) == IF s = {} THEN base ELSE Op(k, next[s \ {Top(s)}], q[Top(s)])
  <2>2. ASSUME NEW s \in SUBSET (1 .. m) PROVE next[s] = old[s]
    <3>1. m + 1 \notin s /\ s \in SUBSET (1 .. m + 1)
      OBVIOUS
    <3> QED
      BY <3>1
  <2>3. ASSUME NEW s \in SUBSET (1 .. m + 1) PROVE next[s] = Value(s)
    <3>1. CASE m + 1 \in s
      <4>1. Top(s) = m + 1 /\ s \ {m + 1} \in SUBSET (1 .. m) /\ s # {}
        BY <3>1, TopIsNext
      <4>2. next[s] = Op(k, old[s \ {m + 1}], q[m + 1])
        BY <3>1
      <4>3. next[s \ {m + 1}] = old[s \ {m + 1}]
        BY <2>2, <4>1
      <4> HIDE DEF next
      <4> QED
        BY <4>1, <4>2, <4>3
    <3>2. CASE m + 1 \notin s
      <4>1. s \in SUBSET (1 .. m) /\ s \ {Top(s)} \in SUBSET (1 .. m)
        <5>1. \A e \in s : e \in 1 .. m
          BY <3>2
        <5> QED
          BY <5>1
      <4>2. next[s] = old[s] /\ next[s \ {Top(s)}] = old[s \ {Top(s)}]
        BY <2>2, <4>1
      <4>3. old[s] = IF s = {} THEN base ELSE Op(k, old[s \ {Top(s)}], q[Top(s)])
        BY <2>1, <4>1 DEF Iterates
      <4> HIDE DEF next
      <4> QED
        BY <4>2, <4>3
    <3> QED
      BY <3>1, <3>2
  <2>4. next = [s \in SUBSET (1 .. m + 1) |-> next[s]]
    OBVIOUS
  <2> HIDE DEF next
  <2>5. Iterates(next, k, base, q, 1 .. m + 1)
    BY <2>3, <2>4 DEF Iterates
  <2>6. \E iter : Iterates(iter, k, base, q, 1 .. m + 1)
    BY <2>5
  <2> QED
    BY <2>6
<1>3. Nat \subseteq S
  <2> HIDE DEF S
  <2> QED
    BY <1>1, <1>2, SetInduction
<1> QED
  BY <1>3

\* The values a fold passes through: one more element, one more application.
Trace(h, k, base, q) ==
    /\ h[0] = base
    /\ \A i \in 1 .. Len(q) : h[i] = Op(k, h[i - 1], q[i])
    /\ Fold(k, base, q) = h[Len(q)]

\* Every fold over a sequence has such a trace.
LEMMA FoldTrace ==
  ASSUME NEW k, NEW base, NEW T, NEW q \in Seq(T)
  PROVE  \E h : Trace(h, k, base, q)
<1> DEFINE it == CHOOSE iter : Iterates(iter, k, base, q, DOMAIN q)
           h  == [i \in 0 .. Len(q) |-> it[1 .. i]]
<1>1. DOMAIN q = 1 .. Len(q) /\ Len(q) \in Nat
  OBVIOUS
<1>2. Iterates(it, k, base, q, DOMAIN q)
  BY <1>1, IterationExists
<1>3. Fold(k, base, q) = it[DOMAIN q]
  BY DEF Fold
<1> HIDE DEF it
<1>4. ASSUME NEW i \in 1 .. Len(q) PROVE it[1 .. i] = Op(k, it[1 .. i - 1], q[i])
  <2>1. 1 .. i \in SUBSET DOMAIN q /\ 1 .. i # {} /\ (1 .. i) \ {i} = 1 .. i - 1
    <3>1. \A e \in 1 .. i : e \in 1 .. Len(q)
      BY <1>1
    <3>2. i \in 1 .. i
      OBVIOUS
    <3>3. \A e : e \in (1 .. i) \ {i} <=> e \in 1 .. i - 1
      OBVIOUS
    <3> QED
      BY <1>1, <3>1, <3>2, <3>3
  <2>2. Top(1 .. i) = i
    <3>1. i - 1 \in Nat /\ 1 .. i \in SUBSET (1 .. (i - 1) + 1) /\ (i - 1) + 1 \in 1 .. i
      OBVIOUS
    <3>2. Top(1 .. i) = (i - 1) + 1
      BY <3>1, TopIsNext
    <3> QED
      BY <3>2
  <2>3. it[1 .. i] = Op(k, it[(1 .. i) \ {Top(1 .. i)}], q[Top(1 .. i)])
    BY <1>2, <2>1 DEF Iterates
  <2> QED
    BY <2>1, <2>2, <2>3
<1>5. it[1 .. 0] = base
  <2>1. {} \in SUBSET DOMAIN q /\ 1 .. 0 = {}
    OBVIOUS
  <2>2. it[{}] = base
    BY <1>2, <2>1 DEF Iterates
  <2> QED
    BY <2>1, <2>2
<1>6. Trace(h, k, base, q)
  <2>1. h[0] = base /\ Fold(k, base, q) = h[Len(q)]
    BY <1>1, <1>3, <1>5
  <2>2. ASSUME NEW i \in 1 .. Len(q) PROVE h[i] = Op(k, h[i - 1], q[i])
    <3>1. i \in 0 .. Len(q) /\ i - 1 \in 0 .. Len(q)
      BY <1>1
    <3> QED
      BY <1>4, <3>1
  <2> HIDE DEF h
  <2> QED
    BY <2>1, <2>2 DEF Trace
<1> QED
  BY <1>6

-----------------------------------------------------------------------------
(* Folding over sequences that grow at either end.                         *)

\* Two runs of a recursion that begin alike and go on alike stay equal.
Alike(g, h, n) == g[0] = h[0] /\ \A i \in 1 .. n : g[i - 1] = h[i - 1] => g[i] = h[i]

\* By induction over the length of the run.
LEMMA SameTrace ==
  ASSUME NEW n \in Nat, NEW g, NEW h, Alike(g, h, n)
  PROVE  \A i \in 0 .. n : g[i] = h[i]
<1> USE DEF Alike
<1> DEFINE S == {i \in Nat : i <= n => g[i] = h[i]}
<1>1. 0 \in S
  OBVIOUS
<1>2. ASSUME NEW i \in Nat, i \in S PROVE i + 1 \in S
  <2>1. CASE i + 1 <= n
    <3>1. i + 1 \in 1 .. n /\ (i + 1) - 1 = i /\ i <= n
      BY <2>1
    <3> QED
      BY <1>2, <3>1
  <2>2. CASE ~(i + 1 <= n)
    BY <2>2
  <2> QED
    BY <2>1, <2>2
<1>3. Nat \subseteq S
  <2> HIDE DEF S
  <2> QED
    BY <1>1, <1>2, SetInduction
<1> QED
  BY <1>3

\* Nothing to fold.
LEMMA FoldEmpty == ASSUME NEW k, NEW base PROVE Fold(k, base, <<>>) = base
<1>1. <<>> \in Seq({}) /\ Len(<<>>) = 0
  OBVIOUS
<1>2. PICK h : Trace(h, k, base, <<>>)
  BY <1>1, FoldTrace
<1> QED
  BY <1>1, <1>2 DEF Trace

\* The last element is folded last.
LEMMA FoldAppend ==
  ASSUME NEW k, NEW base, NEW T, NEW q \in Seq(T), NEW m \in T
  PROVE  Fold(k, base, Append(q, m)) = Op(k, Fold(k, base, q), m)
<1>1. PICK g : Trace(g, k, base, q)
  BY FoldTrace
<1> DEFINE r == Append(q, m)
<1>2. /\ r \in Seq(T) /\ Len(r) = Len(q) + 1 /\ r[Len(q) + 1] = m /\ Len(q) \in Nat
      /\ \A i \in 1 .. Len(q) : r[i] = q[i]
  OBVIOUS
<1> HIDE DEF r
<1>3. PICK h : Trace(h, k, base, r)
  BY <1>2, FoldTrace
<1> USE DEF Trace
<1>4. ASSUME NEW i \in 1 .. Len(q), g[i - 1] = h[i - 1] PROVE g[i] = h[i]
  <2>1. i \in 1 .. Len(r) /\ r[i] = q[i]
    BY <1>2
  <2> QED
    BY <1>1, <1>3, <1>4, <2>1
<1>5. \A i \in 0 .. Len(q) : g[i] = h[i]
  <2>1. Alike(g, h, Len(q))
    BY <1>1, <1>3, <1>4 DEF Alike
  <2> QED
    BY <1>2, <2>1, SameTrace
<1>6. h[Len(q) + 1] = Op(k, h[(Len(q) + 1) - 1], r[Len(q) + 1]) /\ (Len(q) + 1) - 1 = Len(q)
  BY <1>2, <1>3
<1>7. Fold(k, base, r) = Op(k, Fold(k, base, q), m)
  BY <1>1, <1>2, <1>3, <1>5, <1>6
<1> QED
  BY <1>7 DEF r

\* A sequence in two parts is folded in two goes.
LEMMA FoldConcat ==
  ASSUME NEW k, NEW base, NEW T, NEW q \in Seq(T), NEW r \in Seq(T)
  PROVE  Fold(k, base, q \o r) = Fold(k, Fold(k, base, q), r)
<1> DEFINE both == q \o r
           mid  == Fold(k, base, q)
<1>1. /\ both \in Seq(T) /\ Len(both) = Len(q) + Len(r) /\ Len(q) \in Nat /\ Len(r) \in Nat
      /\ \A i \in 1 .. Len(q) : both[i] = q[i]
      /\ \A i \in 1 .. Len(r) : both[Len(q) + i] = r[i]
  OBVIOUS
<1> HIDE DEF both
<1>2. PICK g : Trace(g, k, base, q)
  BY FoldTrace
<1> HIDE DEF mid
<1>3. PICK h : Trace(h, k, mid, r)
  BY FoldTrace
<1>4. PICK f : Trace(f, k, base, both)
  BY <1>1, FoldTrace
<1>m. g[Len(q)] = mid
  BY <1>2 DEF Trace, mid
<1> USE DEF Trace
<1>5. \A i \in 0 .. Len(q) : g[i] = f[i]
  <2>1. ASSUME NEW i \in 1 .. Len(q), g[i - 1] = f[i - 1] PROVE g[i] = f[i]
    <3>1. i \in 1 .. Len(both) /\ both[i] = q[i]
      BY <1>1
    <3> QED
      BY <1>2, <1>4, <2>1, <3>1
  <2>2. Alike(g, f, Len(q))
    BY <1>2, <1>4, <2>1 DEF Alike
  <2> QED
    BY <1>1, <2>2, SameTrace
<1> DEFINE later == [i \in 0 .. Len(r) |-> f[Len(q) + i]]
<1>6. /\ later[0] = mid
      /\ \A i \in 1 .. Len(r) : later[i] = Op(k, later[i - 1], r[i])
      /\ later[Len(r)] = Fold(k, base, both)
  <2>1. later[0] = mid
    BY <1>1, <1>m, <1>5
  <2>2. ASSUME NEW i \in 1 .. Len(r) PROVE later[i] = Op(k, later[i - 1], r[i])
    <3>1. /\ Len(q) + i \in 1 .. Len(both) /\ both[Len(q) + i] = r[i]
          /\ (Len(q) + i) - 1 = Len(q) + (i - 1)
          /\ i \in 0 .. Len(r) /\ i - 1 \in 0 .. Len(r)
      BY <1>1
    <3>2. f[Len(q) + i] = Op(k, f[(Len(q) + i) - 1], both[Len(q) + i])
      BY <1>4, <3>1
    <3> QED
      BY <3>1, <3>2
  <2>3. later[Len(r)] = Fold(k, base, both)
    BY <1>1, <1>4
  <2> QED
    BY <2>1, <2>2, <2>3
<1> HIDE DEF later
<1>7. \A i \in 0 .. Len(r) : later[i] = h[i]
  <2>1. ASSUME NEW i \in 1 .. Len(r), later[i - 1] = h[i - 1] PROVE later[i] = h[i]
    BY <1>3, <1>6, <2>1
  <2>2. Alike(later, h, Len(r))
    BY <1>3, <1>6, <2>1 DEF Alike
  <2> QED
    BY <1>1, <2>2, SameTrace
<1>8. Fold(k, base, both) = Fold(k, mid, r)
  BY <1>1, <1>3, <1>6, <1>7
<1> QED
  BY <1>8 DEF both, mid

\* One element.
LEMMA FoldOne == ASSUME NEW k, NEW base, NEW m PROVE Fold(k, base, <<m>>) = Op(k, base, m)
<1> DEFINE q == <<m>>
<1>1. q \in Seq({m}) /\ Len(q) = 1 /\ q[1] = m
  OBVIOUS
<1> HIDE DEF q
<1>2. PICK h : Trace(h, k, base, q)
  BY <1>1, FoldTrace
<1>3. 1 \in 1 .. Len(q) /\ 1 - 1 = 0
  BY <1>1
<1>4. Fold(k, base, q) = Op(k, base, m)
  BY <1>1, <1>2, <1>3 DEF Trace
<1> QED
  BY <1>4 DEF q

\* The first element is folded first.
LEMMA FoldHead ==
  ASSUME NEW k, NEW base, NEW T, NEW q \in Seq(T), q # <<>>
  PROVE  Fold(k, base, q) = Fold(k, Op(k, base, Head(q)), Tail(q))
<1> DEFINE first == <<Head(q)>>
           rest  == Tail(q)
<1>1. q = first \o rest /\ first \in Seq(T) /\ rest \in Seq(T)
  OBVIOUS
<1>2. Fold(k, base, first) = Op(k, base, Head(q))
  BY FoldOne
<1> HIDE DEF first, rest
<1>3. Fold(k, base, first \o rest) = Fold(k, Fold(k, base, first), rest)
  BY <1>1, FoldConcat
<1>4. Fold(k, base, q) = Fold(k, Op(k, base, Head(q)), rest)
  BY <1>1, <1>2, <1>3
<1> QED
  BY <1>4 DEF rest

\* What every application keeps holds of the result.
LEMMA FoldKeeps ==
  ASSUME NEW k, NEW V, NEW base \in V, NEW T, NEW q \in Seq(T),
         \A a \in V, m \in T : Op(k, a, m) \in V
  PROVE  Fold(k, base, q) \in V
<1>1. PICK h : Trace(h, k, base, q)
  BY FoldTrace
<1> USE DEF Trace
<1> DEFINE S == {i \in Nat : i <= Len(q) => h[i] \in V}
<1>2. 0 \in S
  BY <1>1
<1>3. ASSUME NEW i \in Nat, i \in S PROVE i + 1 \in S
  <2>1. CASE i + 1 <= Len(q)
    <3>1. i + 1 \in 1 .. Len(q) /\ (i + 1) - 1 = i /\ i <= Len(q) /\ q[i + 1] \in T
      BY <2>1
    <3>2. h[i] \in V /\ h[i + 1] = Op(k, h[i], q[i + 1])
      BY <1>1, <1>3, <3>1
    <3> QED
      BY <3>1, <3>2
  <2>2. CASE ~(i + 1 <= Len(q))
    BY <2>2
  <2> QED
    BY <2>1, <2>2
<1>4. Nat \subseteq S
  <2> HIDE DEF S
  <2> QED
    BY <1>2, <1>3, SetInduction
<1> QED
  BY <1>1, <1>4

-----------------------------------------------------------------------------
(* Collecting: Op appends what it makes of the elements of K, and passes    *)
(* over the others.                                                        *)

Collects(k, S, K, F, V) ==
    \A a \in Seq(V), m \in S :
        Op(k, a, m) = (IF m \in K THEN Append(a, F[m]) ELSE a) /\ (m \in K => F[m] \in V)

\* Appending to the second of two sequences.
Joins(a, b, m) == Append(a \o b, m) = a \o Append(b, m)

\* Appending and joining may be exchanged.
LEMMA AppendToJoin ==
  ASSUME NEW S, NEW a \in Seq(S), NEW b \in Seq(S), NEW m \in S
  PROVE  Joins(a, b, m)
<1> DEFINE l == Append(a \o b, m)
           r == a \o Append(b, m)
           n == Len(a) + Len(b) + 1
<1>1. /\ Len(a) \in Nat /\ Len(b) \in Nat
      /\ l \in Seq(S) /\ Len(l) = n /\ r \in Seq(S) /\ Len(r) = n
  OBVIOUS
<1>2. l = [i \in 1 .. n |-> l[i]] /\ r = [i \in 1 .. n |-> r[i]]
  <2> HIDE DEF l, r
  <2> QED
    BY <1>1
<1>3. ASSUME NEW i \in 1 .. n PROVE l[i] = r[i]
  <2>1. CASE i <= Len(a)
    BY <2>1, <1>1
  <2>2. CASE Len(a) < i /\ i <= Len(a) + Len(b)
    <3>1. i - Len(a) \in 1 .. Len(b)
      BY <1>1, <2>2
    <3> QED
      BY <1>1, <2>2, <3>1
  <2>3. CASE i = n
    BY <2>3, <1>1
  <2> QED
    BY <1>1, <2>1, <2>2, <2>3
<1> HIDE DEF l, r
<1>4. l = r
  BY <1>2, <1>3
<1> QED
  BY <1>4 DEF l, r, Joins

\* A collection is appended to what was there before.
LEMMA CollectionAppends ==
  ASSUME NEW k, NEW S, NEW K, NEW F, NEW V, Collects(k, S, K, F, V),
         NEW base \in Seq(V), NEW q \in Seq(S)
  PROVE  /\ Fold(k, <<>>, q) \in Seq(V)
         /\ Fold(k, base, q) = base \o Fold(k, <<>>, q)
<1> DEFINE none == <<>>
<1>0. none \in Seq(V) /\ base \o none = base /\ Len(q) \in Nat
  OBVIOUS
<1> HIDE DEF none
<1>1. PICK g : Trace(g, k, base, q)
  BY FoldTrace
<1>2. PICK h : Trace(h, k, none, q)
  BY FoldTrace
<1> DEFINE Same(i) == h[i] \in Seq(V) /\ g[i] = base \o h[i]
           I == {i \in Nat : i <= Len(q) => Same(i)}
<1>3. 0 \in I
  BY <1>0, <1>1, <1>2 DEF Trace
<1>4. ASSUME NEW i \in Nat, i \in I PROVE i + 1 \in I
  <2>1. CASE i + 1 <= Len(q)
    <3>1. i + 1 \in 1 .. Len(q) /\ (i + 1) - 1 = i /\ i <= Len(q) /\ q[i + 1] \in S
      BY <1>0, <2>1
    <3>2. /\ g[i + 1] = Op(k, g[i], q[i + 1])
          /\ h[i + 1] = Op(k, h[i], q[i + 1])
      BY <1>1, <1>2, <3>1 DEF Trace
    <3>6. h[i] \in Seq(V) /\ g[i] = base \o h[i]
      BY <1>4, <3>1
    <3>3. h[i] \in Seq(V) /\ g[i] = base \o h[i] /\ g[i] \in Seq(V)
      BY <3>6
    <3> DEFINE new == F[q[i + 1]]
    <3>4. /\ Op(k, g[i], q[i + 1]) = IF q[i + 1] \in K THEN Append(g[i], new) ELSE g[i]
          /\ Op(k, h[i], q[i + 1]) = IF q[i + 1] \in K THEN Append(h[i], new) ELSE h[i]
          /\ q[i + 1] \in K => new \in V
      BY <3>1, <3>3 DEF Collects
    <3> HIDE DEF new
    <3>5. Same(i + 1)
      <4>1. CASE q[i + 1] \in K
        <5>1. g[i + 1] = Append(base \o h[i], new) /\ h[i + 1] = Append(h[i], new)
          BY <3>2, <3>3, <3>4, <4>1
        <5>2. Append(base \o h[i], new) = base \o Append(h[i], new)
          <6>1. Joins(base, h[i], new)
            BY <3>3, <3>4, <4>1, AppendToJoin
          <6> QED
            BY <6>1 DEF Joins
        <5>3. h[i + 1] \in Seq(V)
          BY <3>3, <3>4, <4>1, <5>1
        <5> QED
          BY <5>1, <5>2, <5>3
      <4>2. CASE q[i + 1] \notin K
        BY <3>2, <3>3, <3>4, <4>2
      <4> QED
        BY <4>1, <4>2
    <3> QED
      BY <3>5
  <2>2. CASE ~(i + 1 <= Len(q))
    BY <2>2
  <2> QED
    BY <2>1, <2>2
<1>5. Nat \subseteq I
  <2> HIDE DEF I
  <2> QED
    BY <1>3, <1>4, SetInduction
<1>6. Same(Len(q))
  BY <1>0, <1>5
<1>7. Fold(k, none, q) \in Seq(V) /\ Fold(k, base, q) = base \o Fold(k, none, q)
  BY <1>1, <1>2, <1>6 DEF Trace
<1> QED
  BY <1>7 DEF none
\* An operator that appends every element copies the sequence.
Copies(k, q) == \A i \in 1 .. Len(q) : \A a : Op(k, a, q[i]) = Append(a, q[i])

\* Folding such an operator over the sequence gives the sequence back.
LEMMA CopyIsWhole ==
  ASSUME NEW k, NEW V, NEW q \in Seq(V), Copies(k, q)
  PROVE  Fold(k, <<>>, q) = q
<1> DEFINE none == <<>>
<1>0. Len(q) \in Nat /\ none = SubSeq(q, 1, 0) /\ SubSeq(q, 1, Len(q)) = q
  OBVIOUS
<1> HIDE DEF none
<1>1. PICK h : Trace(h, k, none, q)
  BY FoldTrace
<1> DEFINE I == {i \in Nat : i <= Len(q) => h[i] = SubSeq(q, 1, i)}
<1>2. 0 \in I
  BY <1>0, <1>1 DEF Trace
<1>3. ASSUME NEW i \in Nat, i \in I PROVE i + 1 \in I
  <2>1. CASE i + 1 <= Len(q)
    <3>1. i + 1 \in 1 .. Len(q) /\ (i + 1) - 1 = i /\ i <= Len(q)
      BY <1>0, <2>1
    <3>2. h[i + 1] = Op(k, h[i], q[i + 1]) /\ h[i] = SubSeq(q, 1, i)
      BY <1>1, <1>3, <3>1 DEF Trace
    <3>3. Op(k, h[i], q[i + 1]) = Append(h[i], q[i + 1])
      BY <3>1 DEF Copies
    <3>4. Append(SubSeq(q, 1, i), q[i + 1]) = SubSeq(q, 1, i + 1)
      <4> DEFINE l == Append(SubSeq(q, 1, i), q[i + 1])
                 r == SubSeq(q, 1, i + 1)
      <4>1. /\ l \in Seq(V) /\ Len(l) = i + 1 /\ r \in Seq(V) /\ Len(r) = i + 1
        BY <1>0, <3>1
      <4>2. \A j \in 1 .. i + 1 : l[j] = r[j]
        BY <1>0, <3>1
      <4>3. l = [j \in 1 .. i + 1 |-> l[j]] /\ r = [j \in 1 .. i + 1 |-> r[j]]
        <5> HIDE DEF l, r
        <5> QED
          BY <4>1
      <4> HIDE DEF l, r
      <4>4. l = r
        BY <4>2, <4>3
      <4> QED
        BY <4>4 DEF l, r
    <3>5. h[i + 1] = SubSeq(q, 1, i + 1)
      BY <3>2, <3>3, <3>4
    <3> QED
      BY <3>5
  <2>2. CASE ~(i + 1 <= Len(q))
    BY <2>2
  <2> QED
    BY <2>1, <2>2
<1>4. Nat \subseteq I
  <2> HIDE DEF I
  <2> QED
    BY <1>2, <1>3, SetInduction
<1>5. Fold(k, none, q) = q
  BY <1>0, <1>1, <1>4 DEF Trace
<1> QED
  BY <1>5 DEF none

=============================================================================
