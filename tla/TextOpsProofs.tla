---------------------------- MODULE TextOpsProofs ----------------------------
(***************************************************************************)
(* The transformation algebra on documents of any length over any          *)
(* characters: what applying an operation gives, when two concurrent       *)
(* operations converge, and that cursors stay in the document.             *)
(***************************************************************************)
EXTENDS TextOps, Integers, SequencesExt, SequenceTheorems, WellFoundedInduction, TLAPS

\* An insertion inside the document: what is where afterwards.
LEMMA InsertionApplied ==
  ASSUME NEW S, NEW t \in Seq(S), NEW x \in Seq(S), NEW p \in 0 .. Len(t), NEW site
  PROVE  /\ ApplyOp(t, Ins(p, x, site)) \in Seq(S)
         /\ Len(ApplyOp(t, Ins(p, x, site))) = Len(t) + Len(x)
         /\ \A i \in 1 .. Len(t) + Len(x) :
               ApplyOp(t, Ins(p, x, site))[i] = IF i <= p THEN t[i]
                                                ELSE IF i <= p + Len(x) THEN x[i - p]
                                                ELSE t[i - Len(x)]
<1> DEFINE left  == SubSeq(t, 1, p)
           right == SubSeq(t, p + 1, Len(t))
<1>0. Len(t) \in Nat /\ Len(x) \in Nat /\ p \in Nat /\ p <= Len(t)
  OBVIOUS
<1>1. ApplyOp(t, Ins(p, x, site)) = (left \o x) \o right
  <2>1. Least(p, Len(t)) = p
    BY <1>0 DEF Least
  <2> QED
    BY <2>1 DEF ApplyOp, Ins
<1>2. /\ left \in Seq(S) /\ Len(left) = p
      /\ \A i \in 1 .. p : left[i] = t[i]
  BY <1>0
<1>3. /\ right \in Seq(S) /\ Len(right) = Len(t) - p
      /\ \A i \in 1 .. Len(t) - p : right[i] = t[p + i]
  BY <1>0
<1> HIDE DEF left, right
<1>4. /\ left \o x \in Seq(S) /\ Len(left \o x) = p + Len(x)
      /\ \A i \in 1 .. p + Len(x) : (left \o x)[i] = IF i <= p THEN left[i] ELSE x[i - p]
  BY <1>2, ConcatProperties
<1>5. /\ (left \o x) \o right \in Seq(S) /\ Len((left \o x) \o right) = p + Len(x) + (Len(t) - p)
      /\ \A i \in 1 .. p + Len(x) + (Len(t) - p) :
            ((left \o x) \o right)[i] = IF i <= p + Len(x) THEN (left \o x)[i]
                                        ELSE right[i - (p + Len(x))]
  <2> DEFINE start == left \o x
  <2>1. start \in Seq(S) /\ Len(start) = p + Len(x)
    BY <1>4
  <2> HIDE DEF start
  <2>2. /\ start \o right \in Seq(S) /\ Len(start \o right) = p + Len(x) + (Len(t) - p)
        /\ \A i \in 1 .. p + Len(x) + (Len(t) - p) :
              (start \o right)[i] = IF i <= p + Len(x) THEN start[i] ELSE right[i - (p + Len(x))]
    <3>1. start \o right \in Seq(S) /\ Len(start \o right) = Len(start) + Len(right)
      BY <1>3, <2>1, ConcatProperties
    <3>2. \A i \in 1 .. Len(start) + Len(right) :
            (start \o right)[i] = IF i <= Len(start) THEN start[i] ELSE right[i - Len(start)]
      BY <1>3, <2>1, ConcatProperties
    <3> QED
      BY <1>3, <2>1, <3>1, <3>2
  <2> QED
    BY <2>2 DEF start
<1> DEFINE r == (left \o x) \o right
<1>r. /\ r \in Seq(S) /\ Len(r) = Len(t) + Len(x)
      /\ \A i \in 1 .. Len(t) + Len(x) :
            r[i] = IF i <= p + Len(x) THEN (left \o x)[i] ELSE right[i - (p + Len(x))]
  <2>1. p + Len(x) + (Len(t) - p) = Len(t) + Len(x)
    BY <1>0
  <2> QED
    BY <1>5, <2>1
<1> HIDE DEF r
<1>6. \A i \in 1 .. Len(t) + Len(x) :
        r[i] = IF i <= p THEN t[i] ELSE IF i <= p + Len(x) THEN x[i - p] ELSE t[i - Len(x)]
  <2> TAKE i \in 1 .. Len(t) + Len(x)
  <2>0. i \in Nat /\ i \in 1 .. p + Len(x) + (Len(t) - p)
    BY <1>0
  <2>1. CASE i <= p
    <3>0. i <= p + Len(x)
      BY <1>0, <2>0, <2>1
    <3>1. r[i] = (left \o x)[i]
      BY <1>r, <3>0
    <3>2. (left \o x)[i] = left[i]
      BY <1>0, <1>4, <2>0, <2>1
    <3> QED
      BY <1>2, <2>0, <2>1, <3>1, <3>2
  <2>2. CASE p < i /\ i <= p + Len(x)
    <3>1. r[i] = (left \o x)[i]
      BY <1>0, <1>r, <2>0, <2>2
    <3>2. (left \o x)[i] = x[i - p]
      BY <1>0, <1>4, <2>0, <2>2
    <3> QED
      BY <1>0, <2>0, <2>2, <3>1, <3>2
  <2>3. CASE p + Len(x) < i
    <3>1. r[i] = right[i - (p + Len(x))]
      BY <1>0, <1>r, <2>0, <2>3
    <3>2. i - (p + Len(x)) \in 1 .. Len(t) - p
      BY <1>0, <2>0, <2>3
    <3>3. right[i - (p + Len(x))] = t[p + (i - (p + Len(x)))]
      BY <1>3, <3>2
    <3>4. p + (i - (p + Len(x))) = i - Len(x)
      BY <1>0, <2>0
    <3>5. r[i] = t[i - Len(x)]
      BY <3>1, <3>3, <3>4
    <3> QED
      BY <1>0, <2>0, <2>3, <3>5
  <2> QED
    BY <1>0, <2>0, <2>1, <2>2, <2>3
<1> QED
  BY <1>0, <1>1, <1>r, <1>6 DEF r

\* A deletion inside the document.
LEMMA DeletionApplied ==
  ASSUME NEW S, NEW t \in Seq(S), NEW p \in Nat, NEW n \in Nat, p + n <= Len(t)
  PROVE  /\ ApplyOp(t, Del(p, n)) \in Seq(S)
         /\ Len(ApplyOp(t, Del(p, n))) = Len(t) - n
         /\ \A i \in 1 .. Len(t) - n :
               ApplyOp(t, Del(p, n))[i] = IF i <= p THEN t[i] ELSE t[i + n]
<1> DEFINE left  == SubSeq(t, 1, p)
           right == SubSeq(t, p + n + 1, Len(t))
<1>0. Len(t) \in Nat /\ p <= Len(t)
  OBVIOUS
<1>1. ApplyOp(t, Del(p, n)) = (left \o <<>>) \o right
  <2>1. Least(p, Len(t)) = p /\ Least(p + n, Len(t)) = p + n
    BY <1>0 DEF Least
  <2> QED
    BY <2>1 DEF ApplyOp, Del
<1>2. /\ left \in Seq(S) /\ Len(left) = p
      /\ \A i \in 1 .. p : left[i] = t[i]
  BY <1>0
<1>3. /\ right \in Seq(S) /\ Len(right) = Len(t) - (p + n)
      /\ \A i \in 1 .. Len(t) - (p + n) : right[i] = t[p + n + i]
  BY <1>0
<1> HIDE DEF left, right
<1>4. left \o <<>> = left
  BY <1>2, ConcatEmptySeq
<1>5. /\ left \o right \in Seq(S) /\ Len(left \o right) = p + (Len(t) - (p + n))
      /\ \A i \in 1 .. p + (Len(t) - (p + n)) :
            (left \o right)[i] = IF i <= p THEN left[i] ELSE right[i - p]
  BY <1>2, <1>3, ConcatProperties
<1>6. \A i \in 1 .. Len(t) - n : (left \o right)[i] = IF i <= p THEN t[i] ELSE t[i + n]
  <2> TAKE i \in 1 .. Len(t) - n
  <2>0. i \in Nat /\ i \in 1 .. p + (Len(t) - (p + n))
    BY <1>0
  <2>1. CASE i <= p
    <3>1. (left \o right)[i] = left[i]
      BY <1>0, <1>5, <2>0, <2>1
    <3> QED
      BY <1>2, <2>0, <2>1, <3>1
  <2>2. CASE p < i
    <3>1. (left \o right)[i] = right[i - p] /\ i - p \in 1 .. Len(t) - (p + n)
      BY <1>0, <1>5, <2>0, <2>2
    <3>2. right[i - p] = t[p + n + (i - p)] /\ p + n + (i - p) = i + n
      BY <1>0, <1>3, <2>0, <3>1
    <3> QED
      BY <2>0, <2>2, <3>1, <3>2
  <2>3. i <= p \/ p < i
    BY <2>0
  <2> QED
    BY <2>1, <2>2, <2>3
<1>7. ApplyOp(t, Del(p, n)) = left \o right
  BY <1>1, <1>4
<1>8. p + (Len(t) - (p + n)) = Len(t) - n
  BY <1>0
<1> QED
  BY <1>5, <1>6, <1>7, <1>8

-----------------------------------------------------------------------------
(* Convergence of two concurrent operations: each side applies its own and *)
(* then the other's, transformed (the first transformation property).      *)

\* The deeper half, where the first insertion is the one that stays put.
LEMMA OrderedInsertionsConverge ==
  ASSUME NEW S, NEW t \in Seq(S), NEW x \in Seq(S), NEW y \in Seq(S), NEW i, NEW j,
         NEW p \in 0 .. Len(t), NEW q \in 0 .. Len(t), p <= q
  PROVE  ApplyOp(ApplyOp(t, Ins(p, x, i)), Ins(q + Len(x), y, j))
            = ApplyOp(ApplyOp(t, Ins(q, y, j)), Ins(p, x, i))
<1>0. Len(t) \in Nat /\ Len(x) \in Nat /\ Len(y) \in Nat /\ p \in Nat /\ q \in Nat
      /\ p <= Len(t) /\ q <= Len(t)
  OBVIOUS
<1> DEFINE u == ApplyOp(t, Ins(p, x, i))
           v == ApplyOp(t, Ins(q, y, j))
           uy == ApplyOp(u, Ins(q + Len(x), y, j))
           vx == ApplyOp(v, Ins(p, x, i))
<1>1. /\ u \in Seq(S) /\ Len(u) = Len(t) + Len(x)
      /\ \A k \in 1 .. Len(t) + Len(x) :
            u[k] = IF k <= p THEN t[k] ELSE IF k <= p + Len(x) THEN x[k - p] ELSE t[k - Len(x)]
  BY InsertionApplied
<1>2. /\ v \in Seq(S) /\ Len(v) = Len(t) + Len(y)
      /\ \A k \in 1 .. Len(t) + Len(y) :
            v[k] = IF k <= q THEN t[k] ELSE IF k <= q + Len(y) THEN y[k - q] ELSE t[k - Len(y)]
  BY InsertionApplied
<1> HIDE DEF u, v
<1>3. /\ uy \in Seq(S) /\ Len(uy) = Len(u) + Len(y)
      /\ \A k \in 1 .. Len(u) + Len(y) :
            uy[k] = IF k <= q + Len(x) THEN u[k]
                    ELSE IF k <= q + Len(x) + Len(y) THEN y[k - (q + Len(x))]
                    ELSE u[k - Len(y)]
  <2>1. q + Len(x) \in 0 .. Len(u)
    BY <1>0, <1>1
  <2> QED
    <3>1. u \in Seq(S)
      BY <1>1
    <3> QED
      BY <2>1, <3>1, InsertionApplied
<1>4. /\ vx \in Seq(S) /\ Len(vx) = Len(v) + Len(x)
      /\ \A k \in 1 .. Len(v) + Len(x) :
            vx[k] = IF k <= p THEN v[k]
                    ELSE IF k <= p + Len(x) THEN x[k - p]
                    ELSE v[k - Len(x)]
  <2>1. p \in 0 .. Len(v)
    BY <1>0, <1>2
  <2> QED
    <3>1. v \in Seq(S)
      BY <1>2
    <3> QED
      BY <2>1, <3>1, InsertionApplied
<1> HIDE DEF uy, vx
<1>5. Len(uy) = Len(vx) /\ Len(uy) = Len(t) + Len(x) + Len(y)
  BY <1>0, <1>1, <1>2, <1>3, <1>4
<1>6. ASSUME NEW k \in 1 .. Len(t) + Len(x) + Len(y)
      PROVE  uy[k] = vx[k]
  <2>0. k \in Nat /\ k \in 1 .. Len(u) + Len(y) /\ k \in 1 .. Len(v) + Len(x) /\ k >= 1
    BY <1>0, <1>1, <1>2
  <2>1. CASE k <= p
    <3>1. k <= q + Len(x) /\ k <= q /\ k \in 1 .. Len(t) + Len(x) /\ k \in 1 .. Len(t) + Len(y)
      BY <1>0, <2>0, <2>1
    <3>2. uy[k] = u[k] /\ u[k] = t[k]
      BY <1>1, <1>3, <2>0, <2>1, <3>1
    <3>3. vx[k] = v[k] /\ v[k] = t[k]
      BY <1>2, <1>4, <2>0, <2>1, <3>1
    <3> QED
      BY <3>2, <3>3
  <2>2. CASE p < k /\ k <= p + Len(x)
    <3>1. k <= q + Len(x) /\ k \in 1 .. Len(t) + Len(x) /\ ~(k <= p)
      BY <1>0, <2>0, <2>2
    <3>2. uy[k] = u[k] /\ u[k] = x[k - p]
      BY <1>1, <1>3, <2>0, <2>2, <3>1
    <3>3. vx[k] = x[k - p]
      BY <1>4, <2>0, <2>2, <3>1
    <3> QED
      BY <3>2, <3>3
  <2>3. CASE p + Len(x) < k /\ k <= q + Len(x)
    <3>1. /\ k \in 1 .. Len(t) + Len(x) /\ ~(k <= p) /\ ~(k <= p + Len(x))
          /\ k - Len(x) \in 1 .. Len(t) + Len(y) /\ k - Len(x) <= q
      BY <1>0, <2>0, <2>3
    <3>2. uy[k] = u[k] /\ u[k] = t[k - Len(x)]
      BY <1>1, <1>3, <2>0, <2>3, <3>1
    <3>3. vx[k] = v[k - Len(x)] /\ v[k - Len(x)] = t[k - Len(x)]
      BY <1>2, <1>4, <2>0, <2>3, <3>1
    <3> QED
      BY <3>2, <3>3
  <2>4. CASE q + Len(x) < k /\ k <= q + Len(x) + Len(y)
    <3>1. /\ ~(k <= q + Len(x)) /\ ~(k <= p) /\ ~(k <= p + Len(x))
          /\ k - Len(x) \in 1 .. Len(t) + Len(y)
          /\ ~(k - Len(x) <= q) /\ k - Len(x) <= q + Len(y)
          /\ (k - Len(x)) - q = k - (q + Len(x))
      BY <1>0, <2>0, <2>4
    <3>2. uy[k] = y[k - (q + Len(x))]
      BY <1>3, <2>0, <2>4, <3>1
    <3>3. vx[k] = v[k - Len(x)] /\ v[k - Len(x)] = y[(k - Len(x)) - q]
      BY <1>2, <1>4, <2>0, <3>1
    <3> QED
      BY <3>1, <3>2, <3>3
  <2>5. CASE q + Len(x) + Len(y) < k
    <3>1. /\ ~(k <= q + Len(x)) /\ ~(k <= q + Len(x) + Len(y)) /\ ~(k <= p) /\ ~(k <= p + Len(x))
          /\ k - Len(x) \in 1 .. Len(t) + Len(y) /\ k - Len(y) \in 1 .. Len(t) + Len(x)
          /\ ~(k - Len(x) <= q) /\ ~(k - Len(x) <= q + Len(y))
          /\ ~(k - Len(y) <= p) /\ ~(k - Len(y) <= p + Len(x))
          /\ (k - Len(x)) - Len(y) = (k - Len(y)) - Len(x)
      BY <1>0, <2>0, <2>5
    <3>2. uy[k] = u[k - Len(y)] /\ u[k - Len(y)] = t[(k - Len(y)) - Len(x)]
      BY <1>1, <1>3, <2>0, <3>1
    <3>3. vx[k] = v[k - Len(x)] /\ v[k - Len(x)] = t[(k - Len(x)) - Len(y)]
      BY <1>2, <1>4, <2>0, <3>1
    <3> QED
      BY <3>1, <3>2, <3>3
  <2>6. \/ k <= p
        \/ p < k /\ k <= p + Len(x)
        \/ p + Len(x) < k /\ k <= q + Len(x)
        \/ q + Len(x) < k /\ k <= q + Len(x) + Len(y)
        \/ q + Len(x) + Len(y) < k
    BY <1>0, <2>0
  <2> QED
    BY <2>1, <2>2, <2>3, <2>4, <2>5, <2>6
<1>7. uy = vx
  BY <1>3, <1>4, <1>5, <1>6, SeqEqual
<1> QED
  BY <1>7 DEF u, v, uy, vx

\* Two sites that insert concurrently, anywhere, end with the same text: the
\* site ids break the tie when both insert at one position (xform_ii).
THEOREM ConcurrentInsertionsConverge ==
  ASSUME NEW S, NEW t \in Seq(S), NEW x \in Seq(S), NEW y \in Seq(S),
         NEW p \in 0 .. Len(t), NEW q \in 0 .. Len(t), NEW i \in Nat, NEW j \in Nat, i # j
  PROVE  ApplyOp(ApplyOp(t, Ins(p, x, i)), XformOp(Ins(q, y, j), Ins(p, x, i)))
            = ApplyOp(ApplyOp(t, Ins(q, y, j)), XformOp(Ins(p, x, i), Ins(q, y, j)))
<1>0. p \in Nat /\ q \in Nat /\ Len(x) \in Nat /\ Len(y) \in Nat
  OBVIOUS
<1>1. CASE p < q \/ (p = q /\ i < j)
  <2>1. /\ XformII(q, j, p, Len(x), i) = q + Len(x)
        /\ XformII(p, i, q, Len(y), j) = p
        /\ p <= q
    BY <1>0, <1>1 DEF XformII
  <2>2. ApplyOp(ApplyOp(t, Ins(p, x, i)), Ins(q + Len(x), y, j))
            = ApplyOp(ApplyOp(t, Ins(q, y, j)), Ins(p, x, i))
    BY <2>1, OrderedInsertionsConverge
  <2>3. /\ XformOp(Ins(q, y, j), Ins(p, x, i)) = Ins(q + Len(x), y, j)
        /\ XformOp(Ins(p, x, i), Ins(q, y, j)) = Ins(p, x, i)
    BY <2>1 DEF XformOp, Ins
  <2> QED
    BY <2>2, <2>3
<1>2. CASE q < p \/ (p = q /\ j < i)
  <2>1. /\ XformII(p, i, q, Len(y), j) = p + Len(y)
        /\ XformII(q, j, p, Len(x), i) = q
        /\ q <= p
    BY <1>0, <1>2 DEF XformII
  <2>2. ApplyOp(ApplyOp(t, Ins(q, y, j)), Ins(p + Len(y), x, i))
            = ApplyOp(ApplyOp(t, Ins(p, x, i)), Ins(q, y, j))
    BY <2>1, OrderedInsertionsConverge
  <2>3. /\ XformOp(Ins(p, x, i), Ins(q, y, j)) = Ins(p + Len(y), x, i)
        /\ XformOp(Ins(q, y, j), Ins(p, x, i)) = Ins(q, y, j)
    BY <2>1 DEF XformOp, Ins
  <2> QED
    BY <2>2, <2>3
<1> QED
  BY <1>0, <1>1, <1>2

\* Two deletions in a row whose ranges touch are one.
LEMMA DeletionsMerge ==
  ASSUME NEW S, NEW t \in Seq(S), NEW p \in Nat, NEW k \in Nat, NEW q \in Nat, NEW n \in Nat,
         p <= q, q <= p + k, p + k + n <= Len(t)
  PROVE  ApplyOp(ApplyOp(t, Del(q, n)), Del(p, k)) = ApplyOp(t, Del(p, k + n))
<1>0. Len(t) \in Nat /\ q + n <= Len(t) /\ p + (k + n) <= Len(t) /\ k + n \in Nat
  OBVIOUS
<1> DEFINE u == ApplyOp(t, Del(q, n))
           v == ApplyOp(u, Del(p, k))
           w == ApplyOp(t, Del(p, k + n))
<1>1. /\ u \in Seq(S) /\ Len(u) = Len(t) - n
      /\ \A i \in 1 .. Len(t) - n : u[i] = IF i <= q THEN t[i] ELSE t[i + n]
  BY <1>0, DeletionApplied
<1>2. /\ w \in Seq(S) /\ Len(w) = Len(t) - (k + n)
      /\ \A i \in 1 .. Len(t) - (k + n) : w[i] = IF i <= p THEN t[i] ELSE t[i + (k + n)]
  BY <1>0, DeletionApplied
<1> HIDE DEF u, w
<1>3. /\ v \in Seq(S) /\ Len(v) = Len(u) - k
      /\ \A i \in 1 .. Len(u) - k : v[i] = IF i <= p THEN u[i] ELSE u[i + k]
  <2>1. u \in Seq(S) /\ p + k <= Len(u) /\ p \in Nat /\ k \in Nat
    BY <1>0, <1>1
  <2>2. ASSUME NEW r \in Seq(S), p + k <= Len(r)
        PROVE  /\ ApplyOp(r, Del(p, k)) \in Seq(S)
               /\ Len(ApplyOp(r, Del(p, k))) = Len(r) - k
               /\ \A i \in 1 .. Len(r) - k :
                     ApplyOp(r, Del(p, k))[i] = IF i <= p THEN r[i] ELSE r[i + k]
    <3>1. ApplyOp(r, Del(p, k)) \in Seq(S)
      BY <2>2, DeletionApplied
    <3>2. Len(ApplyOp(r, Del(p, k))) = Len(r) - k
      BY <2>2, DeletionApplied
    <3>3. \A i \in 1 .. Len(r) - k :
             ApplyOp(r, Del(p, k))[i] = IF i <= p THEN r[i] ELSE r[i + k]
      BY <2>2, DeletionApplied
    <3> QED
      BY <3>1, <3>2, <3>3
  <2> QED
    BY <2>1, <2>2
<1> HIDE DEF v
<1>4. Len(v) = Len(w) /\ Len(v) = Len(t) - (k + n)
  BY <1>0, <1>1, <1>2, <1>3
<1>5. ASSUME NEW i \in 1 .. Len(t) - (k + n)
      PROVE  v[i] = w[i]
  <2>0. i \in Nat /\ i >= 1 /\ i \in 1 .. Len(u) - k
    BY <1>0, <1>1
  <2>1. CASE i <= p
    <3>1. i \in 1 .. Len(t) - n /\ i <= q
      BY <1>0, <2>0, <2>1
    <3> QED
      BY <1>1, <1>2, <1>3, <2>0, <2>1, <3>1
  <2>2. CASE p < i
    <3>1. i + k \in 1 .. Len(t) - n /\ ~(i + k <= q) /\ ~(i <= p) /\ (i + k) + n = i + (k + n)
      BY <1>0, <2>0, <2>2
    <3>2. v[i] = u[i + k] /\ u[i + k] = t[(i + k) + n]
      BY <1>1, <1>3, <2>0, <3>1
    <3>3. w[i] = t[i + (k + n)]
      BY <1>2, <3>1
    <3> QED
      BY <3>1, <3>2, <3>3
  <2>3. i <= p \/ p < i
    BY <2>0
  <2> QED
    BY <2>1, <2>2, <2>3
<1>6. v = w
  BY <1>2, <1>3, <1>4, <1>5, SeqEqual
<1> QED
  BY <1>6 DEF u, v, w

Greatest(a, b) == IF a >= b THEN a ELSE b

\* What a peer does with an operation the transformation may have consumed.
ApplyUnlessConsumed(text, op) == IF op = NoOp THEN text ELSE ApplyOp(text, op)

\* Deleting nothing changes nothing.
LEMMA EmptyDeletion ==
  ASSUME NEW S, NEW t \in Seq(S), NEW p \in 0 .. Len(t)
  PROVE  ApplyOp(t, Del(p, 0)) = t
<1>0. Len(t) \in Nat /\ p \in Nat /\ p + 0 <= Len(t) /\ Len(t) - 0 = Len(t)
  OBVIOUS
<1> DEFINE u == ApplyOp(t, Del(p, 0))
<1>1. /\ u \in Seq(S) /\ Len(u) = Len(t) - 0
      /\ \A i \in 1 .. Len(t) - 0 : u[i] = IF i <= p THEN t[i] ELSE t[i + 0]
  <2>1. p \in Nat /\ 0 \in Nat /\ p + 0 <= Len(t) /\ t \in Seq(S)
    BY <1>0
  <2>2. /\ ApplyOp(t, Del(p, 0)) \in Seq(S)
        /\ Len(ApplyOp(t, Del(p, 0))) = Len(t) - 0
        /\ \A i \in 1 .. Len(t) - 0 :
              ApplyOp(t, Del(p, 0))[i] = IF i <= p THEN t[i] ELSE t[i + 0]
    BY ONLY <2>1, DeletionApplied
  <2> QED
    BY <2>2
<1> HIDE DEF u
<1>2. \A i \in 1 .. Len(u) : u[i] = t[i]
  <2> SUFFICES ASSUME NEW i \in 1 .. Len(u) PROVE u[i] = t[i]
    OBVIOUS
  <2>1. i \in 1 .. Len(t) - 0 /\ i + 0 = i
    BY <1>0, <1>1
  <2> QED
    BY <1>1, <2>1
<1>3. u = t
  BY <1>0, <1>1, <1>2, SeqEqual
<1> QED
  BY <1>3 DEF u

\* The half of the next theorem in which the first range starts first.
LEMMA OrderedDeletionsMerge ==
  ASSUME NEW S, NEW t \in Seq(S), NEW p \in Nat, NEW m \in Nat \ {0}, NEW q \in Nat, NEW n \in Nat \ {0},
         p + m <= Len(t), q + n <= Len(t), p <= q, q <= p + m,
         NEW e \in Nat, e = Greatest(p + m, q + n)
  PROVE  /\ ApplyUnlessConsumed(ApplyOp(t, Del(p, m)), XformDD(q, n, p, m)) = ApplyOp(t, Del(p, e - p))
         /\ ApplyUnlessConsumed(ApplyOp(t, Del(q, n)), XformDD(p, m, q, n)) = ApplyOp(t, Del(p, e - p))
<1>0. /\ Len(t) \in Nat /\ e <= Len(t) /\ p + m <= e /\ q + n <= e
      /\ e = IF p + m >= q + n THEN p + m ELSE q + n
  BY DEF Greatest
<1>d. \A a, b : Del(a, b) # NoOp
  BY DEF Del, NoOp
<1>1. ApplyUnlessConsumed(ApplyOp(t, Del(p, m)), XformDD(q, n, p, m)) = ApplyOp(t, Del(p, e - p))
  <2> DEFINE k == Monus(q + n, p + m)
  <2>1. k \in Nat /\ k + m = e - p /\ Monus(p, q) + k = k /\ Least(q, p) = p
    BY <1>0 DEF Monus, Least
  <2> HIDE DEF k
  <2>2. CASE k = 0
    <3>1. XformDD(q, n, p, m) = NoOp
      BY <2>1, <2>2 DEF XformDD, k
    <3>2. m = e - p
      BY <2>1, <2>2
    <3> QED
      BY <3>1, <3>2 DEF ApplyUnlessConsumed
  <2>3. CASE k # 0
    <3>1. XformDD(q, n, p, m) = Del(p, k)
      BY <2>1, <2>3 DEF XformDD, k
    <3>2. p + k + m <= Len(t) /\ p <= p /\ p <= p + k
      BY <1>0, <2>1
    <3>3. ApplyOp(ApplyOp(t, Del(p, m)), Del(p, k)) = ApplyOp(t, Del(p, k + m))
      BY <2>1, <3>2, DeletionsMerge
    <3> QED
      BY <1>d, <2>1, <3>1, <3>3 DEF ApplyUnlessConsumed
  <2> QED
    BY <2>2, <2>3
<1>2. ApplyUnlessConsumed(ApplyOp(t, Del(q, n)), XformDD(p, m, q, n)) = ApplyOp(t, Del(p, e - p))
  <2> DEFINE k == Monus(q, p) + Monus(p + m, q + n)
  <2>1. k \in Nat /\ k + n = e - p /\ Least(p, q) = p /\ q <= p + k /\ (k = 0 => p = q)
    BY <1>0 DEF Monus, Least
  <2> HIDE DEF k
  <2>2. CASE k = 0
    <3>1. XformDD(p, m, q, n) = NoOp
      BY <2>1, <2>2 DEF XformDD, k
    <3>2. n = e - p /\ p = q
      BY <2>1, <2>2
    <3> QED
      BY <3>1, <3>2 DEF ApplyUnlessConsumed
  <2>3. CASE k # 0
    <3>1. XformDD(p, m, q, n) = Del(p, k)
      BY <2>1, <2>3 DEF XformDD, k
    <3>2. p + k + n <= Len(t)
      BY <1>0, <2>1
    <3>3. ApplyOp(ApplyOp(t, Del(q, n)), Del(p, k)) = ApplyOp(t, Del(p, k + n))
      BY <2>1, <3>2, DeletionsMerge
    <3> QED
      BY <1>d, <2>1, <3>1, <3>3 DEF ApplyUnlessConsumed
  <2> QED
    BY <2>2, <2>3
<1> QED
  BY <1>1, <1>2

\* Two deletions whose ranges overlap or touch: both sides end with the text
\* without the union of the ranges, so nothing is deleted twice and nothing of
\* either deletion is lost (xform_dd, its None result included).
THEOREM OverlappingDeletionsAgree ==
  ASSUME NEW S, NEW t \in Seq(S), NEW p \in Nat, NEW m \in Nat \ {0}, NEW q \in Nat, NEW n \in Nat \ {0},
         p + m <= Len(t), q + n <= Len(t), p <= q + n, q <= p + m,
         NEW e \in Nat, e = Greatest(p + m, q + n)
  PROVE  /\ ApplyUnlessConsumed(ApplyOp(t, Del(p, m)), XformOp(Del(q, n), Del(p, m)))
               = ApplyOp(t, Del(Least(p, q), e - Least(p, q)))
         /\ ApplyUnlessConsumed(ApplyOp(t, Del(q, n)), XformOp(Del(p, m), Del(q, n)))
               = ApplyOp(t, Del(Least(p, q), e - Least(p, q)))
<1>1. /\ XformOp(Del(q, n), Del(p, m)) = XformDD(q, n, p, m)
      /\ XformOp(Del(p, m), Del(q, n)) = XformDD(p, m, q, n)
  BY DEF XformOp, Del
<1>2. CASE p <= q
  <2>1. Least(p, q) = p
    BY <1>2 DEF Least
  <2>2. ApplyUnlessConsumed(ApplyOp(t, Del(p, m)), XformDD(q, n, p, m)) = ApplyOp(t, Del(p, e - p))
    BY <1>2, OrderedDeletionsMerge
  <2>3. ApplyUnlessConsumed(ApplyOp(t, Del(q, n)), XformDD(p, m, q, n)) = ApplyOp(t, Del(p, e - p))
    BY <1>2, OrderedDeletionsMerge
  <2> QED
    BY <1>1, <2>1, <2>2, <2>3
<1>3. CASE q <= p
  <2>1. Least(p, q) = q
    BY <1>3 DEF Least
  <2>2. e = Greatest(q + n, p + m)
    BY DEF Greatest
  <2>3. ApplyUnlessConsumed(ApplyOp(t, Del(q, n)), XformDD(p, m, q, n)) = ApplyOp(t, Del(q, e - q))
    BY <1>3, <2>2, OrderedDeletionsMerge
  <2>4. ApplyUnlessConsumed(ApplyOp(t, Del(p, m)), XformDD(q, n, p, m)) = ApplyOp(t, Del(q, e - q))
    BY <1>3, <2>2, OrderedDeletionsMerge
  <2> QED
    BY <1>1, <2>1, <2>3, <2>4
<1> QED
  BY <1>2, <1>3

\* A cursor inside the document is inside it after any operation, at whatever
\* position of the document it strikes (adjust_cursor_pos with apply_ops_to_rope).
THEOREM CursorStaysInText ==
  ASSUME NEW S, NEW t \in Seq(S), NEW c \in 0 .. Len(t), NEW local \in Nat,
         NEW op,
         \/ \E p \in 0 .. Len(t), x \in Seq(S), site \in Nat : op = Ins(p, x, site)
         \/ \E p \in Nat, n \in Nat : p + n <= Len(t) /\ op = Del(p, n)
  PROVE  AdjustCursorPos(c, op, local) \in 0 .. Len(ApplyOp(t, op))
<1>0. Len(t) \in Nat /\ c \in Nat /\ c <= Len(t)
  OBVIOUS
<1>1. CASE \E p \in 0 .. Len(t), x \in Seq(S), site \in Nat : op = Ins(p, x, site)
  <2>1. PICK p \in 0 .. Len(t), x \in Seq(S), site \in Nat : op = Ins(p, x, site)
    BY <1>1
  <2>2. Len(ApplyOp(t, op)) = Len(t) + Len(x) /\ Len(x) \in Nat
    BY <2>1, InsertionApplied
  <2>3. AdjustCursorPos(c, op, local) = c \/ AdjustCursorPos(c, op, local) = c + Len(x)
    BY <2>1 DEF AdjustCursorPos, Ins
  <2> QED
    BY <1>0, <2>2, <2>3
<1>2. CASE \E p \in Nat, n \in Nat : p + n <= Len(t) /\ op = Del(p, n)
  <2>1. PICK p \in Nat, n \in Nat : p + n <= Len(t) /\ op = Del(p, n)
    BY <1>2
  <2>2. Len(ApplyOp(t, op)) = Len(t) - n
    BY <2>1, DeletionApplied
  <2>3. AdjustCursorPos(c, op, local) = IF p + n <= c THEN c - n ELSE Least(p, c)
    BY <2>1 DEF AdjustCursorPos, Del
  <2> QED
    BY <1>0, <2>1, <2>2, <2>3 DEF Least
<1> QED
  BY <1>1, <1>2

\* An insertion and a deletion that does not reach around it: both sides end
\* with the same text (xform_id and xform_di agree with each other).
THEOREM InsertionOutsideDeletionConverges ==
  ASSUME NEW S, NEW t \in Seq(S), NEW x \in Seq(S), NEW i \in Nat,
         NEW p \in 0 .. Len(t), NEW q \in Nat, NEW n \in Nat \ {0}, q + n <= Len(t),
         p <= q \/ q + n <= p
  PROVE  ApplyOp(ApplyOp(t, Ins(p, x, i)), XformOp(Del(q, n), Ins(p, x, i)))
            = ApplyOp(ApplyOp(t, Del(q, n)), XformOp(Ins(p, x, i), Del(q, n)))
<1>0. /\ Len(t) \in Nat /\ Len(x) \in Nat /\ p \in Nat /\ p <= Len(t)
      /\ t \in Seq(S) /\ x \in Seq(S) /\ q \in Nat /\ n \in Nat /\ n > 0
  OBVIOUS
<1> DEFINE u == ApplyOp(t, Ins(p, x, i))
           v == ApplyOp(t, Del(q, n))
<1>1. /\ u \in Seq(S) /\ Len(u) = Len(t) + Len(x)
      /\ \A k \in 1 .. Len(t) + Len(x) :
            u[k] = IF k <= p THEN t[k] ELSE IF k <= p + Len(x) THEN x[k - p] ELSE t[k - Len(x)]
  BY InsertionApplied
<1>2. /\ v \in Seq(S) /\ Len(v) = Len(t) - n
      /\ \A k \in 1 .. Len(t) - n : v[k] = IF k <= q THEN t[k] ELSE t[k + n]
  BY DeletionApplied
<1> HIDE DEF u, v
<1>i. u \in Seq(S) /\ v \in Seq(S) /\ x \in Seq(S)
  BY <1>1, <1>2
\* Where each side's second operation strikes.
<1>3. ASSUME NEW d \in Nat, NEW r \in Nat, d + n <= Len(u), r <= Len(v),
             d = (IF p <= q THEN q + Len(x) ELSE q), r = (IF p <= q THEN p ELSE p - n)
      PROVE  ApplyOp(u, Del(d, n)) = ApplyOp(v, Ins(r, x, i))
  <2> DEFINE ud == ApplyOp(u, Del(d, n))
             vx == ApplyOp(v, Ins(r, x, i))
  <2>0. d \in Nat /\ n \in Nat /\ d + n <= Len(u) /\ r \in 0 .. Len(v)
    BY <1>0, <1>2, <1>3
  <2>1. ud \in Seq(S) /\ Len(ud) = Len(u) - n
    <3>1. ApplyOp(u, Del(d, n)) \in Seq(S)
      BY <1>i, <2>0, DeletionApplied
    <3>2. Len(ApplyOp(u, Del(d, n))) = Len(u) - n
      BY <1>i, <2>0, DeletionApplied
    <3> QED
      BY <3>1, <3>2
  <2>2. \A k \in 1 .. Len(u) - n : ud[k] = IF k <= d THEN u[k] ELSE u[k + n]
    <3>1. \A k \in 1 .. Len(u) - n :
             ApplyOp(u, Del(d, n))[k] = IF k <= d THEN u[k] ELSE u[k + n]
      BY <1>i, <2>0, DeletionApplied
    <3> QED
      BY <3>1
  <2>3. vx \in Seq(S) /\ Len(vx) = Len(v) + Len(x)
    <3>1. ApplyOp(v, Ins(r, x, i)) \in Seq(S)
      BY <1>i, <2>0, InsertionApplied
    <3>2. Len(ApplyOp(v, Ins(r, x, i))) = Len(v) + Len(x)
      BY <1>i, <2>0, InsertionApplied
    <3> QED
      BY <3>1, <3>2
  <2>4. \A k \in 1 .. Len(v) + Len(x) :
           vx[k] = IF k <= r THEN v[k] ELSE IF k <= r + Len(x) THEN x[k - r] ELSE v[k - Len(x)]
    <3>1. \A k \in 1 .. Len(v) + Len(x) :
             ApplyOp(v, Ins(r, x, i))[k]
                = IF k <= r THEN v[k] ELSE IF k <= r + Len(x) THEN x[k - r] ELSE v[k - Len(x)]
      BY <1>i, <2>0, InsertionApplied
    <3> QED
      BY <3>1
  <2> HIDE DEF ud, vx
  <2>5. Len(ud) = Len(vx) /\ Len(ud) = Len(t) + Len(x) - n
    BY <1>0, <1>1, <1>2, <2>1, <2>3
  <2>6. ASSUME NEW k \in 1 .. Len(t) + Len(x) - n
        PROVE  ud[k] = vx[k]
    <3>0. k \in Nat /\ k >= 1 /\ k \in 1 .. Len(u) - n /\ k \in 1 .. Len(v) + Len(x)
      BY <1>0, <1>1, <1>2
    <3>1. ud[k] = IF k <= d THEN u[k] ELSE u[k + n]
      BY <2>2, <3>0
    <3>2. vx[k] = IF k <= r THEN v[k] ELSE IF k <= r + Len(x) THEN x[k - r] ELSE v[k - Len(x)]
      BY <2>4, <3>0
    <3>3. CASE p <= q
      <4>1. d = q + Len(x) /\ r = p
        BY <1>3, <3>3
      <4>2. CASE k <= p
        <5>1. k <= d /\ k \in 1 .. Len(t) + Len(x) /\ k \in 1 .. Len(t) - n /\ k <= q
          BY <1>0, <3>0, <3>3, <4>1, <4>2
        <5> QED
          BY <1>1, <1>2, <3>1, <3>2, <4>1, <4>2, <5>1
      <4>3. CASE p < k /\ k <= p + Len(x)
        <5>1. k <= d /\ k \in 1 .. Len(t) + Len(x) /\ ~(k <= p)
          BY <1>0, <3>0, <3>3, <4>1, <4>3
        <5> QED
          BY <1>1, <3>1, <3>2, <4>1, <4>3, <5>1
      <4>4. CASE p + Len(x) < k /\ k <= d
        <5>1. /\ k \in 1 .. Len(t) + Len(x) /\ ~(k <= p) /\ ~(k <= p + Len(x))
              /\ k - Len(x) \in 1 .. Len(t) - n /\ k - Len(x) <= q
          BY <1>0, <3>0, <3>3, <4>1, <4>4
        <5>2. ud[k] = u[k] /\ u[k] = t[k - Len(x)]
          BY <1>1, <3>1, <4>4, <5>1
        <5>3. vx[k] = v[k - Len(x)] /\ v[k - Len(x)] = t[k - Len(x)]
          BY <1>2, <3>2, <4>1, <5>1
        <5> QED
          BY <5>2, <5>3
      <4>5. CASE d < k
        <5>1. /\ k + n \in 1 .. Len(t) + Len(x) /\ ~(k <= d)
              /\ ~(k + n <= p) /\ ~(k + n <= p + Len(x))
              /\ ~(k <= p) /\ ~(k <= p + Len(x))
              /\ k - Len(x) \in 1 .. Len(t) - n /\ ~(k - Len(x) <= q)
              /\ (k + n) - Len(x) = (k - Len(x)) + n
          BY <1>0, <3>0, <3>3, <4>1, <4>5
        <5>2. ud[k] = u[k + n] /\ u[k + n] = t[(k + n) - Len(x)]
          BY <1>1, <3>1, <5>1
        <5>3. vx[k] = v[k - Len(x)] /\ v[k - Len(x)] = t[(k - Len(x)) + n]
          BY <1>2, <3>2, <4>1, <5>1
        <5> QED
          BY <5>1, <5>2, <5>3
      <4> QED
        BY <1>0, <3>0, <4>1, <4>2, <4>3, <4>4, <4>5
    <3>4. CASE q + n <= p
      <4>1. d = q /\ r = p - n /\ r \in Nat /\ ~(p <= q)
        BY <1>0, <1>3, <3>4
      <4>2. CASE k <= q
        <5>1. k <= r /\ k <= p /\ k \in 1 .. Len(t) + Len(x) /\ k \in 1 .. Len(t) - n
          BY <1>0, <3>0, <3>4, <4>1, <4>2
        <5> QED
          BY <1>1, <1>2, <3>1, <3>2, <4>1, <4>2, <5>1
      <4>3. CASE q < k /\ k <= r
        <5>1. /\ ~(k <= q) /\ k + n \in 1 .. Len(t) + Len(x) /\ k + n <= p
              /\ k \in 1 .. Len(t) - n
          BY <1>0, <3>0, <3>4, <4>1, <4>3
        <5>2. ud[k] = u[k + n] /\ u[k + n] = t[k + n]
          BY <1>1, <3>1, <4>1, <5>1
        <5>3. vx[k] = v[k] /\ v[k] = t[k + n]
          BY <1>2, <3>2, <4>3, <5>1
        <5> QED
          BY <5>2, <5>3
      <4>4. CASE r < k /\ k <= r + Len(x)
        <5>1. /\ ~(k <= q) /\ ~(k <= r) /\ k + n \in 1 .. Len(t) + Len(x)
              /\ ~(k + n <= p) /\ k + n <= p + Len(x) /\ (k + n) - p = k - r
          BY <1>0, <3>0, <3>4, <4>1, <4>4
        <5>2. ud[k] = u[k + n] /\ u[k + n] = x[(k + n) - p]
          BY <1>1, <3>1, <4>1, <5>1
        <5>3. vx[k] = x[k - r]
          BY <3>2, <4>4, <5>1
        <5> QED
          BY <5>1, <5>2, <5>3
      <4>5. CASE r + Len(x) < k
        <5>1. /\ ~(k <= q) /\ ~(k <= r) /\ ~(k <= r + Len(x)) /\ k + n \in 1 .. Len(t) + Len(x)
              /\ ~(k + n <= p) /\ ~(k + n <= p + Len(x))
              /\ k - Len(x) \in 1 .. Len(t) - n /\ ~(k - Len(x) <= q)
              /\ (k + n) - Len(x) = (k - Len(x)) + n
          BY <1>0, <3>0, <3>4, <4>1, <4>5
        <5>2. ud[k] = u[k + n] /\ u[k + n] = t[(k + n) - Len(x)]
          BY <1>1, <3>1, <4>1, <5>1
        <5>3. vx[k] = v[k - Len(x)] /\ v[k - Len(x)] = t[(k - Len(x)) + n]
          BY <1>2, <3>2, <5>1
        <5> QED
          BY <5>1, <5>2, <5>3
      <4> QED
        BY <1>0, <3>0, <4>1, <4>2, <4>3, <4>4, <4>5
    <3> QED
      BY <3>3, <3>4
  <2>7. ud = vx
    BY <2>1, <2>3, <2>5, <2>6, SeqEqual
  <2> QED
    BY <2>7 DEF ud, vx
<1>4. CASE p <= q
  <2>1. /\ XformOp(Del(q, n), Ins(p, x, i)) = Del(q + Len(x), n)
        /\ XformOp(Ins(p, x, i), Del(q, n)) = Ins(p, x, i)
    BY <1>4 DEF XformOp, XformDI, XformID, Ins, Del
  <2>2. q + Len(x) \in Nat /\ q + Len(x) + n <= Len(u) /\ p <= Len(v)
    BY <1>0, <1>1, <1>2, <1>4
  <2>3. ApplyOp(u, Del(q + Len(x), n)) = ApplyOp(v, Ins(p, x, i))
    BY <1>0, <1>3, <1>4, <2>2
  <2> QED
    BY <2>1, <2>3 DEF u, v
<1>5. CASE q + n <= p
  <2>0. ~(p <= q) /\ p >= q + n /\ p - n \in Nat
    BY <1>0, <1>5
  <2>1. /\ XformOp(Del(q, n), Ins(p, x, i)) = Del(q, n)
        /\ XformOp(Ins(p, x, i), Del(q, n)) = Ins(p - n, x, i)
    BY <2>0 DEF XformOp, XformDI, XformID, Ins, Del
  <2>2. q + n <= Len(u) /\ p - n <= Len(v)
    BY <1>0, <1>1, <1>2, <1>5
  <2>3. ApplyOp(u, Del(q, n)) = ApplyOp(v, Ins(p - n, x, i))
    BY <1>0, <1>3, <2>0, <2>2
  <2> QED
    BY <2>1, <2>3 DEF u, v
<1> QED
  BY <1>4, <1>5

-----------------------------------------------------------------------------
(* From a change of the document to operations and back.                   *)

\* The prefix and the suffix the diff chooses exist: the first mismatch.
LEMMA LeastElement ==
  ASSUME NEW T \in SUBSET Nat, T # {}
  PROVE  \E k \in T : \A j \in T : k <= j
<1>1. \E k \in T : \A j \in T : ~ (<<j, k>> \in OpToRel(<, Nat))
  BY NatLessThanWellFounded, WFMin
<1>2. PICK k \in T : \A j \in T : ~ (<<j, k>> \in OpToRel(<, Nat))
  BY <1>1
<1>3. ASSUME NEW j \in T PROVE k <= j
  <2>1. j \in Nat /\ k \in Nat
    OBVIOUS
  <2>2. ~ (j < k)
    BY <1>2, <2>1 DEF OpToRel
  <2> QED
    BY <2>1, <2>2
<1> QED
  BY <1>3

\* The prefix extract_ops measures is common to both texts.
LEMMA CommonPrefixFound ==
  ASSUME NEW S, NEW s \in Seq(S), NEW t \in Seq(S)
  PROVE  /\ CommonPrefix(s, t) \in 0 .. Least(Len(s), Len(t))
         /\ \A i \in 1 .. CommonPrefix(s, t) : s[i] = t[i]
<1> DEFINE max == Least(Len(s), Len(t))
           T == {k \in 0 .. max : k < max => s[k + 1] # t[k + 1]}
<1>1. max \in Nat
  BY DEF Least
<1> HIDE DEF max
<1>2. T \in SUBSET Nat /\ max \in T
  BY <1>1
<1>3. PICK k \in T : \A j \in T : k <= j
  BY <1>2, LeastElement
<1>4. \A i \in 1 .. k : s[i] = t[i]
  <2> SUFFICES ASSUME NEW i \in 1 .. k PROVE s[i] = t[i]
    OBVIOUS
  <2>1. i - 1 \in 0 .. max /\ i - 1 < max /\ ~(k <= i - 1) /\ (i - 1) + 1 = i
    BY <1>1, <1>2, <1>3
  <2>2. i - 1 \notin T
    BY <1>3, <2>1
  <2> QED
    BY <2>1, <2>2
<1>5. k \in 0 .. max /\ (k < max => s[k + 1] # t[k + 1])
  BY <1>3
<1> QED
  BY <1>4, <1>5 DEF CommonPrefix, max

\* The suffix extract_ops measures is common too, and no longer than it is told.
LEMMA CommonSuffixFound ==
  ASSUME NEW S, NEW s \in Seq(S), NEW t \in Seq(S), NEW max \in Nat
  PROVE  /\ CommonSuffix(s, t, max) \in 0 .. max
         /\ \A i \in 0 .. CommonSuffix(s, t, max) - 1 : s[Len(s) - i] = t[Len(t) - i]
<1> DEFINE T == {k \in 0 .. max : k < max => s[Len(s) - k] # t[Len(t) - k]}
<1>2. T \in SUBSET Nat /\ max \in T
  OBVIOUS
<1>3. PICK k \in T : \A j \in T : k <= j
  BY <1>2, LeastElement
<1>4. \A i \in 0 .. k - 1 : s[Len(s) - i] = t[Len(t) - i]
  <2> SUFFICES ASSUME NEW i \in 0 .. k - 1 PROVE s[Len(s) - i] = t[Len(t) - i]
    OBVIOUS
  <2>1. i \in 0 .. max /\ i < max /\ ~(k <= i)
    BY <1>2, <1>3
  <2>2. i \notin T
    BY <1>3, <2>1
  <2> QED
    BY <2>1, <2>2
<1>5. k \in 0 .. max /\ (k < max => s[Len(s) - k] # t[Len(t) - k])
  BY <1>3
<1> QED
  BY <1>4, <1>5 DEF CommonSuffix

\* Deleting what lies between prefix and suffix and inserting what replaces it
\* turns the old text into the new one.
LEMMA ReplacementRebuilds ==
  ASSUME NEW S, NEW s \in Seq(S), NEW t \in Seq(S), NEW site, NEW a \in Nat, NEW z \in Nat,
         a + z <= Len(s), a + z <= Len(t),
         \A i \in 1 .. a : s[i] = t[i],
         \A i \in 0 .. z - 1 : s[Len(s) - i] = t[Len(t) - i]
  PROVE  /\ SubSeq(t, a + 1, Len(t) - z) \in Seq(S)
         /\ Len(SubSeq(t, a + 1, Len(t) - z)) = Len(t) - z - a
         /\ ApplyOp(ApplyOp(s, Del(a, Len(s) - a - z)),
                    Ins(a, SubSeq(t, a + 1, Len(t) - z), site)) = t
<1> DEFINE n == Len(s) - a - z
           x == SubSeq(t, a + 1, Len(t) - z)
           u == ApplyOp(s, Del(a, n))
           v == ApplyOp(u, Ins(a, x, site))
<1>0. /\ Len(s) \in Nat /\ Len(t) \in Nat /\ n \in Nat /\ a + n <= Len(s)
      /\ Len(t) - z - a \in Nat /\ n = Len(s) - a - z
  OBVIOUS
<1>1. /\ x \in Seq(S) /\ Len(x) = Len(t) - z - a
      /\ \A i \in 1 .. Len(t) - z - a : x[i] = t[a + i]
  BY <1>0
<1> HIDE DEF n, x
<1>d. s \in Seq(S) /\ a \in Nat /\ n \in Nat /\ a + n <= Len(s)
  BY <1>0
<1>2. u \in Seq(S) /\ Len(u) = Len(s) - n
  <2>1. ApplyOp(s, Del(a, n)) \in Seq(S)
    BY ONLY <1>d, DeletionApplied
  <2>2. Len(ApplyOp(s, Del(a, n))) = Len(s) - n
    BY ONLY <1>d, DeletionApplied
  <2> QED
    BY <2>1, <2>2
<1>3. \A i \in 1 .. Len(s) - n : u[i] = IF i <= a THEN s[i] ELSE s[i + n]
  <2>1. \A i \in 1 .. Len(s) - n :
           ApplyOp(s, Del(a, n))[i] = IF i <= a THEN s[i] ELSE s[i + n]
    BY ONLY <1>d, DeletionApplied
  <2> QED
    BY <2>1
<1> HIDE DEF u
<1>4. a \in 0 .. Len(u) /\ Len(u) = a + z /\ x \in Seq(S) /\ u \in Seq(S)
  BY <1>0, <1>1, <1>2
<1>5. v \in Seq(S) /\ Len(v) = Len(u) + Len(x)
  <2>1. v \in Seq(S)
    BY <1>4, InsertionApplied
  <2>2. Len(v) = Len(u) + Len(x)
    BY <1>4, InsertionApplied
  <2> QED
    BY <2>1, <2>2
<1>e. a \in 0 .. Len(u) /\ x \in Seq(S) /\ u \in Seq(S)
  BY <1>4
<1>6. \A i \in 1 .. Len(u) + Len(x) :
         v[i] = IF i <= a THEN u[i] ELSE IF i <= a + Len(x) THEN x[i - a] ELSE u[i - Len(x)]
  <2>1. \A i \in 1 .. Len(u) + Len(x) :
           ApplyOp(u, Ins(a, x, site))[i]
              = IF i <= a THEN u[i] ELSE IF i <= a + Len(x) THEN x[i - a] ELSE u[i - Len(x)]
    BY ONLY <1>e, InsertionApplied
  <2> QED
    BY <2>1
<1> HIDE DEF v
<1>7. Len(v) = Len(t)
  BY <1>0, <1>1, <1>4, <1>5
<1>8. ASSUME NEW i \in 1 .. Len(t)
      PROVE  v[i] = t[i]
  <2>0. i \in Nat /\ i >= 1 /\ i \in 1 .. Len(u) + Len(x)
    BY <1>0, <1>1, <1>4
  <2>1. v[i] = IF i <= a THEN u[i] ELSE IF i <= a + Len(x) THEN x[i - a] ELSE u[i - Len(x)]
    BY <1>6, <2>0
  <2>2. CASE i <= a
    <3>1. i \in 1 .. Len(s) - n /\ i \in 1 .. a
      BY <1>0, <2>0, <2>2
    <3> QED
      BY <1>3, <2>1, <2>2, <3>1
  <2>3. CASE a < i /\ i <= a + Len(x)
    <3>1. ~(i <= a) /\ i - a \in 1 .. Len(t) - z - a /\ a + (i - a) = i
      BY <1>0, <1>1, <2>0, <2>3
    <3>2. v[i] = x[i - a] /\ x[i - a] = t[a + (i - a)]
      BY <1>1, <2>1, <2>3, <3>1
    <3> QED
      BY <3>1, <3>2
  <2>4. CASE a + Len(x) < i
    <3>1. /\ ~(i <= a) /\ ~(i <= a + Len(x)) /\ ~(i - Len(x) <= a)
          /\ i - Len(x) \in 1 .. Len(s) - n
          /\ Len(t) - i \in 0 .. z - 1
          /\ (i - Len(x)) + n = Len(s) - (Len(t) - i) /\ Len(t) - (Len(t) - i) = i
      BY <1>0, <1>1, <2>0, <2>4
    <3>2. v[i] = u[i - Len(x)] /\ u[i - Len(x)] = s[(i - Len(x)) + n]
      BY <1>3, <2>1, <3>1
    <3>3. s[Len(s) - (Len(t) - i)] = t[Len(t) - (Len(t) - i)]
      BY <3>1
    <3> QED
      BY <3>1, <3>2, <3>3
  <2>5. i <= a \/ (a < i /\ i <= a + Len(x)) \/ a + Len(x) < i
    BY <1>1, <1>0, <2>0
  <2> QED
    BY <2>2, <2>3, <2>4, <2>5
<1>9. v = t
  BY <1>5, <1>7, <1>8, SeqEqual
<1> QED
  BY <1>1, <1>9 DEF n, x, u, v

\* One element and one more.
LEMMA SingletonsJoin == ASSUME NEW u, NEW v PROVE <<u>> \o <<v>> = <<u, v>>
<1> DEFINE S == {u, v}
           one == <<u>>
           other == <<v>>
           both == one \o other
           two == <<u, v>>
<1>1. one \in Seq(S) /\ other \in Seq(S) /\ Len(one) = 1 /\ Len(other) = 1
  OBVIOUS
<1>2. /\ one[1] = u /\ other[1] = v /\ two[1] = u /\ two[2] = v
      /\ two \in Seq(S) /\ Len(two) = 2
  OBVIOUS
<1> HIDE DEF S, one, other, two
<1>3. /\ both \in Seq(S) /\ Len(both) = Len(one) + Len(other)
      /\ \A i \in 1 .. Len(one) + Len(other) :
            both[i] = IF i <= Len(one) THEN one[i] ELSE other[i - Len(one)]
  BY <1>1, ConcatProperties
<1> HIDE DEF both
<1>4. Len(both) = 2 /\ both[1] = u /\ both[2] = v
  BY <1>1, <1>2, <1>3
<1>5. both = two
  BY <1>2, <1>3, <1>4, SeqEqual
<1> QED
  BY <1>5 DEF one, other, both, two

\* A change of before into after, and the operations that extract_ops makes of
\* it: n characters deleted at a, and x inserted there.
Change(S, before, after, site, a, n, x) ==
    /\ a \in Nat /\ n \in Nat /\ a + n <= Len(before) /\ x \in Seq(S)
    /\ \/ /\ n = 0 /\ x = <<>> /\ ExtractOps(before, after, site) = <<>>
          /\ after = before
       \/ /\ n > 0 /\ x = <<>> /\ ExtractOps(before, after, site) = <<Del(a, n)>>
          /\ after = ApplyOp(before, Del(a, n))
       \/ /\ n = 0 /\ x # <<>> /\ ExtractOps(before, after, site) = <<Ins(a, x, site)>>
          /\ after = ApplyOp(before, Ins(a, x, site))
       \/ /\ n > 0 /\ x # <<>>
          /\ ExtractOps(before, after, site) = <<Del(a, n), Ins(a, x, site)>>
          /\ after = ApplyOp(ApplyOp(before, Del(a, n)), Ins(a, x, site))

\* Whatever an edit did to the document, extract_ops finds such a change.
LEMMA ExtractedChange ==
  ASSUME NEW S, NEW before \in Seq(S), NEW after \in Seq(S), NEW site
  PROVE  \E a, n, x : Change(S, before, after, site, a, n, x)
<1> DEFINE a == CommonPrefix(before, after)
           max == Least(Len(before) - a, Len(after) - a)
           z == CommonSuffix(before, after, max)
           n == Len(before) - a - z
           x == SubSeq(after, a + 1, Len(after) - z)
<1>0. Len(before) \in Nat /\ Len(after) \in Nat
  OBVIOUS
<1>1. /\ a \in Nat /\ a <= Len(before) /\ a <= Len(after)
      /\ \A i \in 1 .. a : before[i] = after[i]
  <2>1. /\ a \in 0 .. Least(Len(before), Len(after))
        /\ \A i \in 1 .. a : before[i] = after[i]
    BY CommonPrefixFound
  <2> QED
    BY <1>0, <2>1 DEF Least
<1> HIDE DEF a
<1>2. max \in Nat /\ max <= Len(before) - a /\ max <= Len(after) - a
  BY <1>0, <1>1 DEF Least
<1> HIDE DEF max
<1>3. /\ z \in 0 .. max
      /\ \A i \in 0 .. z - 1 : before[Len(before) - i] = after[Len(after) - i]
  BY <1>2, CommonSuffixFound
<1> HIDE DEF z
<1>4. z \in Nat /\ a + z <= Len(before) /\ a + z <= Len(after)
  BY <1>0, <1>1, <1>2, <1>3
<1>5. x \in Seq(S) /\ Len(x) = Len(after) - z - a
  BY <1>1, <1>3, <1>4, ReplacementRebuilds
<1>6. ApplyOp(ApplyOp(before, Del(a, n)), Ins(a, x, site)) = after
  BY <1>1, <1>3, <1>4, ReplacementRebuilds
<1>7. ExtractOps(before, after, site)
         = (IF n > 0 THEN <<Del(a, n)>> ELSE <<>>) \o (IF x # <<>> THEN <<Ins(a, x, site)>> ELSE <<>>)
  BY DEF ExtractOps, a, max, z
<1>8. n \in Nat /\ a + n <= Len(before) /\ a \in 0 .. Len(before)
  BY <1>0, <1>1, <1>4
<1> HIDE DEF n, x
\* Deleting nothing and inserting nothing may be left out.
<1>9. n = 0 => ApplyOp(before, Del(a, n)) = before
  BY <1>8, EmptyDeletion
<1>10. x = <<>> => ApplyOp(before, Del(a, n)) = after
  <2> SUFFICES ASSUME x = <<>> PROVE ApplyOp(before, Del(a, n)) = after
    OBVIOUS
  <2> DEFINE u == ApplyOp(before, Del(a, n))
  <2>d. before \in Seq(S) /\ a \in Nat /\ n \in Nat /\ a + n <= Len(before)
    BY <1>1, <1>8
  <2>1. u \in Seq(S)
    BY ONLY <2>d, DeletionApplied
  <2>2. Len(ApplyOp(before, Del(a, n))) = Len(before) - n
    BY ONLY <2>d, DeletionApplied
  <2>3. Len(u) = Len(before) - n
    BY <2>2
  <2> HIDE DEF u
  <2>4. Len(u) \in Nat /\ a \in 0 .. Len(u) /\ u \in Seq(S) /\ Least(a, Len(u)) = a
    BY <1>0, <1>8, <1>1, <2>1, <2>3 DEF Least
  <2>5. ApplyOp(u, Ins(a, x, site)) = ApplyOp(u, Del(a, 0))
    <3>1. Least(a + 0, Len(u)) = a
      BY <1>1, <2>4
    <3> QED
      BY <2>4, <3>1 DEF ApplyOp, Ins, Del
  <2>6. ApplyOp(u, Del(a, 0)) = u
    BY <2>4, EmptyDeletion
  <2> QED
    BY <1>6, <2>5, <2>6 DEF u
<1>11. ASSUME n > 0, x # <<>>
       PROVE  ExtractOps(before, after, site) = <<Del(a, n), Ins(a, x, site)>>
  <2>1. \A u, v : <<u>> \o <<v>> = <<u, v>>
    BY SingletonsJoin
  <2> QED
    BY <1>7, <1>11, <2>1
<1>12. ASSUME n > 0, x = <<>> PROVE ExtractOps(before, after, site) = <<Del(a, n)>>
  BY <1>7, <1>12
<1>13. ASSUME n = 0, x # <<>> PROVE ExtractOps(before, after, site) = <<Ins(a, x, site)>>
  BY <1>7, <1>13
<1>14. ASSUME n = 0, x = <<>>
       PROVE  ExtractOps(before, after, site) = <<>> /\ after = before
  <2>1. ExtractOps(before, after, site) = <<>>
    BY <1>7, <1>14
  <2>2. before = after
    BY <1>9, <1>10, <1>14
  <2> QED
    BY <2>1, <2>2
<1>15. Change(S, before, after, site, a, n, x)
  <2>1. a + n <= Len(before) /\ (n = 0 \/ n > 0)
    BY <1>8
  <2> QED
    BY <1>1, <1>5, <1>6, <1>8, <1>9, <1>10, <1>11, <1>12, <1>13, <1>14, <2>1 DEF Change
<1> QED
  BY <1>15

-----------------------------------------------------------------------------
(* Sequences of operations: what the folds over them compute, by the       *)
(* lemmas of FoldFacts.                                                    *)

\* The operations a peer may send, over some set of characters.
TextOperation(S) ==
    {Ins(p, x, site) : p \in Nat, x \in Seq(S), site \in Nat} \union
    {Del(p, n) : p \in Nat, n \in Nat}

Applying  == INSTANCE FoldFacts WITH Op <- LAMBDA k, text, op : ApplyOp(text, op)
Adjusting == INSTANCE FoldFacts WITH
                Op <- LAMBDA localSite, pos, op : AdjustCursorPos(pos, op, localSite)
Xforming  == INSTANCE FoldFacts WITH Op <- LAMBDA k, acc, op : XformStep(acc, op)
Rebasing  == INSTANCE FoldFacts WITH Op <- LAMBDA k, acc, op : RebaseStep(acc, op)
Integrating == INSTANCE FoldFacts WITH Op <- LAMBDA k, acc, entry : IntegrateStep(acc, entry)

\* The model's folds are those the lemmas are about.
LEMMA ApplyingFolds == ASSUME NEW t, NEW ops PROVE ApplyOps(t, ops) = Applying!Fold(0, t, ops)
  BY DEF ApplyOps, FoldLeft, MapThenFoldSet, Max,
         Applying!Fold, Applying!Iterates, Applying!Top
\* The same for a cursor that follows them.
LEMMA AdjustingFolds ==
  ASSUME NEW c, NEW ops, NEW site
  PROVE  AdjustCursor(c, ops, site) = Adjusting!Fold(site, c, ops)
  BY DEF AdjustCursor, FoldLeft, MapThenFoldSet, Max,
         Adjusting!Fold, Adjusting!Iterates, Adjusting!Top
\* The same for a compound transformed against one operation.
LEMMA XformingFolds ==
  ASSUME NEW ops, NEW b
  PROVE  XformCompoundAgainstOp(ops, b) = Xforming!Fold(0, [a |-> <<>>, b |-> b], ops)
  BY DEF XformCompoundAgainstOp, FoldLeft, MapThenFoldSet, Max,
         Xforming!Fold, Xforming!Iterates, Xforming!Top
\* The same for an in-flight entry against a compound.
LEMMA RebasingFolds ==
  ASSUME NEW base, NEW ops
  PROVE  FoldLeft(RebaseStep, base, ops) = Rebasing!Fold(0, base, ops)
  BY DEF FoldLeft, MapThenFoldSet, Max, Rebasing!Fold, Rebasing!Iterates, Rebasing!Top
\* The same for the whole in-flight queue.
LEMMA IntegratingFolds ==
  ASSUME NEW remote, NEW inflight
  PROVE  IntegrateRemoteAgainstInflight(remote, inflight) =
             Integrating!Fold(0, [remote |-> remote, inflight |-> <<>>], inflight)
  BY DEF IntegrateRemoteAgainstInflight, FoldLeft, MapThenFoldSet, Max,
         Integrating!Fold, Integrating!Iterates, Integrating!Top

\* An insertion strikes where it says, or at the end of a shorter document.
LEMMA InsertionClamped ==
  ASSUME NEW S, NEW t \in Seq(S), NEW x \in Seq(S), NEW p \in Nat, NEW site
  PROVE  ApplyOp(t, Ins(p, x, site)) = ApplyOp(t, Ins(Least(p, Len(t)), x, site))
<1>1. Len(t) \in Nat
  OBVIOUS
<1>2. Least(Least(p, Len(t)), Len(t)) = Least(p, Len(t))
  BY <1>1 DEF Least
<1> QED
  BY <1>2 DEF ApplyOp, Ins
\* A deletion takes what there is of its range.
LEMMA DeletionClamped ==
  ASSUME NEW S, NEW t \in Seq(S), NEW p \in Nat, NEW n \in Nat,
         NEW q, q = Least(p, Len(t)), NEW r, r = Least(p + n, Len(t)) - q
  PROVE  ApplyOp(t, Del(p, n)) = ApplyOp(t, Del(q, r))
<1>1. Len(t) \in Nat
  OBVIOUS
<1>2. /\ Least(q, Len(t)) = q /\ Least(q + r, Len(t)) = Least(p + n, Len(t))
      /\ Least(q + n, Len(t)) = Least(p + n, Len(t))
  BY <1>1 DEF Least
<1> DEFINE rest == SubSeq(t, Least(p + n, Len(t)) + 1, Len(t))
<1>3. ApplyOp(t, Del(p, n)) = SubSeq(t, 1, q) \o <<>> \o rest
  BY <1>2 DEF ApplyOp, Del
<1>4. ApplyOp(t, Del(q, r)) = SubSeq(t, 1, q) \o <<>> \o rest
  BY <1>2 DEF ApplyOp, Del
<1> QED
  BY <1>3, <1>4

\* After any operation, wherever its author's document had it, the text is a
\* text and a cursor of the document is in it.
OperationSound(S, t, op, c, local) ==
    /\ ApplyOp(t, op) \in Seq(S)
    /\ AdjustCursorPos(c, op, local) \in 0 .. Len(ApplyOp(t, op))

\* Applying any operation within a text is sound in this sense.
LEMMA OperationApplied ==
  ASSUME NEW S, NEW t \in Seq(S), NEW op \in TextOperation(S), NEW c \in 0 .. Len(t),
         NEW local \in Nat
  PROVE  OperationSound(S, t, op, c, local)
<1>0. Len(t) \in Nat /\ c \in Nat /\ c <= Len(t)
  OBVIOUS
<1>1. CASE \E p \in Nat, x \in Seq(S), site \in Nat : op = Ins(p, x, site)
  <2>1. PICK p \in Nat, x \in Seq(S), site \in Nat : op = Ins(p, x, site)
    BY <1>1
  <2>2. Least(p, Len(t)) \in 0 .. Len(t)
    BY <1>0 DEF Least
  <2>3. /\ ApplyOp(t, op) \in Seq(S) /\ Len(ApplyOp(t, op)) = Len(t) + Len(x)
        /\ Len(x) \in Nat
    BY <2>1, <2>2, InsertionClamped, InsertionApplied
  <2>4. AdjustCursorPos(c, op, local) = c \/ AdjustCursorPos(c, op, local) = c + Len(x)
    BY <2>1 DEF AdjustCursorPos, Ins
  <2> QED
    BY <1>0, <2>3, <2>4 DEF OperationSound
<1>2. CASE \E p \in Nat, n \in Nat : op = Del(p, n)
  <2>1. PICK p \in Nat, n \in Nat : op = Del(p, n)
    BY <1>2
  <2> DEFINE q == Least(p, Len(t))
             r == Least(p + n, Len(t)) - q
  <2>2. q \in Nat /\ r \in Nat /\ q + r <= Len(t)
    BY <1>0 DEF Least
  <2>3. ApplyOp(t, op) = ApplyOp(t, Del(q, r))
    BY <2>1, DeletionClamped
  <2> HIDE DEF q, r
  <2>d. ASSUME NEW m \in Nat, NEW l \in Nat, m + l <= Len(t)
        PROVE  ApplyOp(t, Del(m, l)) \in Seq(S) /\ Len(ApplyOp(t, Del(m, l))) = Len(t) - l
    BY <2>d, DeletionApplied
  <2>4. ApplyOp(t, op) \in Seq(S) /\ Len(ApplyOp(t, op)) = Len(t) - r
    BY <2>2, <2>3, <2>d
  <2>5. AdjustCursorPos(c, op, local) = IF p + n <= c THEN c - n ELSE Least(p, c)
    BY <2>1 DEF AdjustCursorPos, Del
  <2>6. (IF p + n <= c THEN c - n ELSE Least(p, c)) \in 0 .. Len(t) - r
    <3>1. CASE p + n <= c
      <4>1. p <= Len(t) /\ p + n <= Len(t)
        BY <1>0, <3>1
      <4>2. q = p /\ r = n
        BY <1>0, <4>1 DEF Least, q, r
      <4> QED
        BY <1>0, <3>1, <4>2
    <3>2. CASE c < p + n /\ p <= Len(t)
      <4>1. q = p /\ p + r <= Len(t)
        BY <1>0, <2>2, <3>2 DEF Least, q
      <4>2. Least(p, c) \in Nat /\ Least(p, c) <= p
        BY <1>0 DEF Least
      <4> QED
        BY <1>0, <2>2, <3>2, <4>1, <4>2
    <3>3. CASE c < p + n /\ Len(t) < p
      <4>1. q = Len(t) /\ r = 0 /\ Least(p, c) = c
        BY <1>0, <3>3 DEF Least, q, r
      <4> QED
        BY <1>0, <3>3, <4>1
    <3> QED
      BY <1>0, <3>1, <3>2, <3>3
  <2> QED
    BY <2>4, <2>5, <2>6 DEF OperationSound
<1> QED
  BY <1>1, <1>2 DEF TextOperation

\* A sequence of operations, whatever document it was made for: the text stays a
\* text, and the cursor adjusted by the same operations is in it.
LEMMA OperationsApplied ==
  ASSUME NEW S, NEW t \in Seq(S), NEW ops \in Seq(TextOperation(S)), NEW c \in 0 .. Len(t),
         NEW local \in Nat
  PROVE  /\ ApplyOps(t, ops) \in Seq(S)
         /\ AdjustCursor(c, ops, local) \in 0 .. Len(ApplyOps(t, ops))
<1>1. PICK g : Applying!Trace(g, 0, t, ops)
  BY Applying!FoldTrace
<1>2. PICK h : Adjusting!Trace(h, local, c, ops)
  BY Adjusting!FoldTrace
<1>3. /\ g[0] = t /\ ApplyOps(t, ops) = g[Len(ops)]
      /\ \A i \in 1 .. Len(ops) : g[i] = ApplyOp(g[i - 1], ops[i])
  BY <1>1, ApplyingFolds DEF Applying!Trace
<1>4. /\ h[0] = c /\ AdjustCursor(c, ops, local) = h[Len(ops)]
      /\ \A i \in 1 .. Len(ops) : h[i] = AdjustCursorPos(h[i - 1], ops[i], local)
  BY <1>2, AdjustingFolds DEF Adjusting!Trace
<1> DEFINE Sound(i) == g[i] \in Seq(S) /\ h[i] \in 0 .. Len(g[i])
           I == {i \in Nat : i <= Len(ops) => Sound(i)}
<1>5. 0 \in I
  BY <1>3, <1>4
<1>6. ASSUME NEW i \in Nat, i \in I PROVE i + 1 \in I
  <2>1. CASE i + 1 <= Len(ops)
    <3>1. /\ i + 1 \in 1 .. Len(ops) /\ (i + 1) - 1 = i /\ i <= Len(ops)
          /\ ops[i + 1] \in TextOperation(S)
      BY <2>1
    <3>2. /\ g[i + 1] = ApplyOp(g[i], ops[i + 1])
          /\ h[i + 1] = AdjustCursorPos(h[i], ops[i + 1], local)
      BY <1>3, <1>4, <3>1
    <3>3. Sound(i)
      BY <1>6, <3>1
    <3>4. OperationSound(S, g[i], ops[i + 1], h[i], local)
      BY <3>1, <3>3, OperationApplied
    <3>5. Sound(i + 1)
      BY <3>2, <3>4 DEF OperationSound
    <3> QED
      BY <3>5
  <2>2. CASE ~(i + 1 <= Len(ops))
    BY <2>2
  <2> QED
    BY <2>1, <2>2
<1>7. Nat \subseteq I
  <2> HIDE DEF I
  <2> QED
    BY <1>5, <1>6, Applying!SetInduction
<1>8. Len(ops) \in Nat
  OBVIOUS
<1>9. Sound(Len(ops))
  BY <1>7, <1>8
<1> QED
  BY <1>3, <1>4, <1>9

\* Applying no operation, one, or two.
OneByOne(t, a, b) ==
    /\ ApplyOps(t, <<>>) = t
    /\ ApplyOps(t, <<a>>) = ApplyOp(t, a)
    /\ ApplyOps(t, <<a, b>>) = ApplyOp(ApplyOp(t, a), b)

\* A short compound is applied one operation after the other.
LEMMA AppliedOneByOne == ASSUME NEW t, NEW a, NEW b PROVE OneByOne(t, a, b)
<1>1. ApplyOps(t, <<>>) = t
  BY ApplyingFolds, Applying!FoldEmpty
<1>2. ApplyOps(t, <<a>>) = ApplyOp(t, a)
  BY ApplyingFolds, Applying!FoldOne
<1>3. ApplyOps(t, <<a, b>>) = ApplyOp(ApplyOp(t, a), b)
  <2> DEFINE T == {a, b}
             one == <<a>>
             two == <<a, b>>
  <2>1. one \in Seq(T) /\ b \in T /\ two = Append(one, b)
    OBVIOUS
  <2>2. ApplyOps(t, one) = ApplyOp(t, a)
    BY <1>2
  <2> HIDE DEF T, one, two
  <2>3. ApplyOps(t, two) = ApplyOp(ApplyOps(t, one), b)
    BY <2>1, ApplyingFolds, Applying!FoldAppend
  <2> QED
    BY <2>2, <2>3 DEF two
<1> QED
  BY <1>1, <1>2, <1>3 DEF OneByOne

\* What extract_ops reads off a change, applied in order to the old text, gives
\* the new one: whatever an edit did to the document, the receivers' documents
\* follow (extract_ops with apply_ops_to_rope).
THEOREM ExtractedOpsRebuild ==
  ASSUME NEW S, NEW before \in Seq(S), NEW after \in Seq(S), NEW site
  PROVE  ApplyOps(before, ExtractOps(before, after, site)) = after
<1>1. PICK a, n, x : Change(S, before, after, site, a, n, x)
  BY ExtractedChange
<1> DEFINE ops == ExtractOps(before, after, site)
<1>2. \/ ops = <<>> /\ after = before
      \/ ops = <<Del(a, n)>> /\ after = ApplyOp(before, Del(a, n))
      \/ ops = <<Ins(a, x, site)>> /\ after = ApplyOp(before, Ins(a, x, site))
      \/ /\ ops = <<Del(a, n), Ins(a, x, site)>>
         /\ after = ApplyOp(ApplyOp(before, Del(a, n)), Ins(a, x, site))
  BY <1>1 DEF Change
<1> HIDE DEF ops
<1> DEFINE d == Del(a, n)
           i == Ins(a, x, site)
<1>4. \/ ops = <<>> /\ after = before
      \/ ops = <<d>> /\ after = ApplyOp(before, d)
      \/ ops = <<i>> /\ after = ApplyOp(before, i)
      \/ ops = <<d, i>> /\ after = ApplyOp(ApplyOp(before, d), i)
  BY <1>2
<1> HIDE DEF d, i
<1>3. /\ ApplyOps(before, <<>>) = before
      /\ ApplyOps(before, <<d>>) = ApplyOp(before, d)
      /\ ApplyOps(before, <<i>>) = ApplyOp(before, i)
      /\ ApplyOps(before, <<d, i>>) = ApplyOp(ApplyOp(before, d), i)
  <2>1. OneByOne(before, d, i) /\ OneByOne(before, i, d)
    BY AppliedOneByOne
  <2> QED
    BY <2>1 DEF OneByOne
<1>5. ApplyOps(before, ops) = after
  BY <1>3, <1>4
<1> QED
  BY <1>5 DEF ops

-----------------------------------------------------------------------------
(* Rebasing keeps operations operations, and entries in their places.      *)

\* One operation transformed against another is one, or is consumed.
LEMMA XformedOperation ==
  ASSUME NEW S, NEW R, NEW a \in TextOperation(S), NEW b \in TextOperation(R)
  PROVE  XformOp(a, b) \in TextOperation(S) \union {NoOp}
<1> DEFINE Inserts == {Ins(p, x, site) : p \in Nat, x \in Seq(S), site \in Nat}
           Others == {Ins(p, x, site) : p \in Nat, x \in Seq(R), site \in Nat}
           Deletes == {Del(p, n) : p \in Nat, n \in Nat}
<1>1. CASE a \in Inserts /\ b \in Others
  <2>1. PICK p \in Nat, x \in Seq(S), i \in Nat : a = Ins(p, x, i)
    BY <1>1
  <2>2. PICK q \in Nat, y \in Seq(R), j \in Nat : b = Ins(q, y, j)
    BY <1>1
  <2>3. XformOp(a, b) = Ins(XformII(p, i, q, Len(y), j), x, i)
    BY <2>1, <2>2 DEF XformOp, Ins
  <2>4. XformII(p, i, q, Len(y), j) \in Nat
    BY DEF XformII
  <2> QED
    BY <2>3, <2>4 DEF TextOperation
<1>2. CASE a \in Inserts /\ b \in Deletes
  <2>1. PICK p \in Nat, x \in Seq(S), i \in Nat : a = Ins(p, x, i)
    BY <1>2
  <2>2. PICK q \in Nat, n \in Nat : b = Del(q, n)
    BY <1>2
  <2>3. XformOp(a, b) = Ins(XformID(p, q, n), x, i)
    BY <2>1, <2>2 DEF XformOp, Ins, Del
  <2>4. XformID(p, q, n) \in Nat
    BY DEF XformID
  <2> QED
    BY <2>3, <2>4 DEF TextOperation
<1>3. CASE a \in Deletes /\ b \in Others
  <2>1. PICK q \in Nat, n \in Nat : a = Del(q, n)
    BY <1>3
  <2>2. PICK p \in Nat, x \in Seq(R), i \in Nat : b = Ins(p, x, i)
    BY <1>3
  <2>3. XformOp(a, b) = XformDI(q, n, p, Len(x)) /\ Len(x) \in Nat
    BY <2>1, <2>2 DEF XformOp, Ins, Del
  <2>4. XformDI(q, n, p, Len(x)) \in Deletes
    <3>1. XformDI(q, n, p, Len(x)) \in {Del(q + Len(x), n), Del(q, n), Del(q, n + Len(x))}
      BY DEF XformDI
    <3>2. \A m, l \in Nat : Del(m, l) \in Deletes
      OBVIOUS
    <3>3. q + Len(x) \in Nat /\ n + Len(x) \in Nat
      BY <2>3
    <3> HIDE DEF Deletes
    <3> QED
      BY <3>1, <3>2, <3>3
  <2> QED
    BY <2>3, <2>4 DEF TextOperation
<1>4. CASE a \in Deletes /\ b \in Deletes
  <2>1. PICK p \in Nat, k \in Nat : a = Del(p, k)
    BY <1>4
  <2>2. PICK q \in Nat, n \in Nat : b = Del(q, n)
    BY <1>4
  <2>3. XformOp(a, b) = XformDD(p, k, q, n)
    BY <2>1, <2>2 DEF XformOp, Del
  <2>4. Monus(q, p) + Monus(p + k, q + n) \in Nat /\ Least(p, q) \in Nat
    BY DEF Monus, Least
  <2>5. XformDD(p, k, q, n) \in Deletes \union {NoOp}
    BY <2>4 DEF XformDD
  <2> QED
    BY <2>3, <2>5 DEF TextOperation
<1> QED
  BY <1>1, <1>2, <1>3, <1>4 DEF TextOperation

\* A compound transformed against one operation is a compound.
Compound(S) == Seq(TextOperation(S))

\* Every member of the result is an operation, and what is left of b is one or nothing.
LEMMA XformedCompound ==
  ASSUME NEW S, NEW R, NEW ops \in Compound(S), NEW b \in TextOperation(R) \union {NoOp}
  PROVE  XformCompoundAgainstOp(ops, b) \in
            [a : Compound(S), b : TextOperation(R) \union {NoOp}]
<1> DEFINE T == TextOperation(S)
           U == TextOperation(R)
           V == [a : Seq(T), b : U \union {NoOp}]
           base == [a |-> <<>>, b |-> b]
<1>1. base \in V
  OBVIOUS
<1>2. ASSUME NEW acc \in V, NEW op \in T PROVE XformStep(acc, op) \in V
  <2>1. CASE acc.b = NoOp
    <3>1. XformStep(acc, op) = [acc EXCEPT !.a = Append(@, op)]
      BY <2>1 DEF XformStep
    <3> HIDE DEF T, U
    <3>2. Append(acc.a, op) \in Seq(T)
      OBVIOUS
    <3>3. XformStep(acc, op) = [a |-> Append(acc.a, op), b |-> acc.b]
      BY <3>1
    <3> QED
      BY <3>2, <3>3
  <2>2. CASE acc.b # NoOp
    <3>1. acc.b \in U
      BY <2>2
    <3>2. XformOp(op, acc.b) \in T \union {NoOp} /\ XformOp(acc.b, op) \in U \union {NoOp}
      BY <3>1, XformedOperation
    <3>3. XformStep(acc, op) =
             [a |-> Append(acc.a, IF XformOp(op, acc.b) = NoOp THEN op ELSE XformOp(op, acc.b)),
              b |-> XformOp(acc.b, op)]
      BY <2>2 DEF XformStep
    <3> HIDE DEF T, U
    <3> QED
      BY <3>2, <3>3
  <2> QED
    BY <2>1, <2>2
<1> HIDE DEF V, T, U
<1>3. ops \in Seq(T)
  BY DEF T, Compound
<1>4. Xforming!Fold(0, base, ops) \in V
  BY <1>1, <1>2, <1>3, Xforming!FoldKeeps
<1>5. XformCompoundAgainstOp(ops, b) = Xforming!Fold(0, base, ops)
  BY XformingFolds
<1> QED
  BY <1>4, <1>5 DEF V, T, U, Compound

\* One in-flight entry and the remote compound, each rebased over the other.
LEMMA RebasedEntry ==
  ASSUME NEW S, NEW R, NEW ops \in Compound(S), NEW remote \in Compound(R)
  PROVE  FoldLeft(RebaseStep, [ops |-> ops, remote |-> <<>>], remote) \in
            [ops : Compound(S), remote : Compound(R)]
<1> DEFINE T == TextOperation(R)
           V == [ops : Compound(S), remote : Compound(R)]
           base == [ops |-> ops, remote |-> <<>>]
<1>1. base \in V
  BY DEF Compound
<1>2. ASSUME NEW acc \in V, NEW op \in T PROVE RebaseStep(acc, op) \in V
  <2> DEFINE x == XformCompoundAgainstOp(acc.ops, op)
  <2>1. x \in [a : Compound(S), b : T \union {NoOp}]
    BY XformedCompound
  <2>2. RebaseStep(acc, op) =
           [ops |-> x.a, remote |-> IF x.b = NoOp THEN acc.remote ELSE Append(acc.remote, x.b)]
    BY DEF RebaseStep
  <2> HIDE DEF x, T
  <2>3. ASSUME x.b # NoOp PROVE Append(acc.remote, x.b) \in Compound(R)
    <3>1. acc.remote \in Seq(T) /\ x.b \in T
      BY <2>1, <2>3 DEF Compound, T
    <3> QED
      BY <3>1 DEF Compound, T
  <2> QED
    BY <2>1, <2>2, <2>3
<1> HIDE DEF V, T
<1>3. remote \in Seq(T)
  BY DEF T, Compound
<1>4. Rebasing!Fold(0, base, remote) \in V
  BY <1>1, <1>2, <1>3, Rebasing!FoldKeeps
<1> QED
  BY <1>4, RebasingFolds DEF V

\* What is in flight at a guest: each edit with the clock it was sent under.
Entries(S) == Seq([clock : Nat, ops : Compound(S)])
SameClocks(q, r) == Len(q) = Len(r) /\ \A i \in 1 .. Len(q) : q[i].clock = r[i].clock

\* Integrating a remote compound leaves a compound to apply and every in-flight
\* entry in its place, under its clock.
LEMMA IntegratedCompound ==
  ASSUME NEW S, NEW R, NEW remote \in Compound(R), NEW inflight \in Entries(S)
  PROVE  LET r == IntegrateRemoteAgainstInflight(remote, inflight) IN
         /\ r.remote \in Compound(R) /\ r.inflight \in Entries(S)
         /\ SameClocks(r.inflight, inflight)
<1> DEFINE E == [clock : Nat, ops : Compound(S)]
           base == [remote |-> remote, inflight |-> <<>>]
           r == IntegrateRemoteAgainstInflight(remote, inflight)
<1>1. inflight \in Seq(E) /\ Len(inflight) \in Nat
  BY DEF Entries
<1>2. PICK h : Integrating!Trace(h, 0, base, inflight)
  BY <1>1, Integrating!FoldTrace
<1>3. /\ h[0] = base /\ r = h[Len(inflight)]
      /\ \A i \in 1 .. Len(inflight) : h[i] = IntegrateStep(h[i - 1], inflight[i])
  BY <1>2, IntegratingFolds DEF Integrating!Trace
<1> HIDE DEF r, E
<1> DEFINE Good(i) == /\ h[i].remote \in Compound(R) /\ h[i].inflight \in Seq(E)
                      /\ Len(h[i].inflight) = i
                      /\ \A j \in 1 .. i : h[i].inflight[j].clock = inflight[j].clock
           I == {i \in Nat : i <= Len(inflight) => Good(i)}
<1>4. 0 \in I
  <2>1. h[0].remote = remote /\ h[0].inflight = <<>>
    BY <1>3
  <2>2. <<>> \in Seq(E) /\ Len(<<>>) = 0
    OBVIOUS
  <2>3. Good(0)
    BY <2>1, <2>2
  <2> HIDE DEF Good
  <2> QED
    BY <2>3
<1>5. ASSUME NEW i \in Nat, i \in I PROVE i + 1 \in I
  <2>1. CASE i + 1 <= Len(inflight)
    <3> DEFINE entry == inflight[i + 1]
               x == FoldLeft(RebaseStep, [ops |-> entry.ops, remote |-> <<>>], h[i].remote)
               moved == [entry EXCEPT !.ops = x.ops]
    <3>1. /\ i + 1 \in 1 .. Len(inflight) /\ (i + 1) - 1 = i /\ Good(i)
          /\ entry \in E
      BY <1>1, <1>5, <2>1
    <3>2. h[i + 1] = IntegrateStep(h[i], entry)
      BY <1>3, <3>1
    <3>3. h[i + 1] = [remote |-> x.remote, inflight |-> Append(h[i].inflight, moved)]
      BY <3>2 DEF IntegrateStep
    <3>4. x \in [ops : Compound(S), remote : Compound(R)]
      <4>1. entry.ops \in Compound(S) /\ h[i].remote \in Compound(R)
        BY <3>1 DEF E
      <4> QED
        BY <4>1, RebasedEntry
    <3> HIDE DEF x
    <3>5. moved \in E /\ moved.clock = entry.clock
      BY <3>1, <3>4 DEF E
    <3> HIDE DEF moved
    <3>6. /\ h[i + 1].remote \in Compound(R)
          /\ h[i + 1].inflight = Append(h[i].inflight, moved)
      BY <3>3, <3>4
    <3>7. /\ h[i + 1].inflight \in Seq(E) /\ Len(h[i + 1].inflight) = i + 1
          /\ h[i + 1].inflight[i + 1] = moved
          /\ \A j \in 1 .. i : h[i + 1].inflight[j] = h[i].inflight[j]
      BY <3>1, <3>5, <3>6
    <3>8. \A j \in 1 .. i + 1 : h[i + 1].inflight[j].clock = inflight[j].clock
      <4> TAKE j \in 1 .. i + 1
      <4>1. CASE j = i + 1
        BY <3>5, <3>7, <4>1
      <4>2. CASE j \in 1 .. i
        BY <3>1, <3>7, <4>2
      <4> QED
        BY <4>1, <4>2
    <3>9. Good(i + 1)
      BY <3>6, <3>7, <3>8
    <3> QED
      BY <3>9
  <2>2. CASE ~(i + 1 <= Len(inflight))
    BY <2>2
  <2> QED
    BY <2>1, <2>2
<1>6. Nat \subseteq I
  <2> HIDE DEF I
  <2> QED
    BY <1>4, <1>5, Applying!SetInduction
<1>7. Good(Len(inflight))
  BY <1>1, <1>6
<1>8. /\ r.remote \in Compound(R) /\ r.inflight \in Entries(S)
      /\ SameClocks(r.inflight, inflight)
  BY <1>3, <1>7 DEF Entries, SameClocks, E
<1> QED
  BY <1>8 DEF r

\* What extract_ops reads off a change is a compound of the author's operations.
LEMMA ExtractedCompound ==
  ASSUME NEW S, NEW before \in Seq(S), NEW after \in Seq(S), NEW site \in Nat
  PROVE  ExtractOps(before, after, site) \in Compound(S)
<1>1. PICK a, n, x : Change(S, before, after, site, a, n, x)
  BY ExtractedChange
<1>2. Del(a, n) \in TextOperation(S) /\ Ins(a, x, site) \in TextOperation(S)
  BY <1>1 DEF Change, TextOperation
<1> DEFINE T == TextOperation(S)
           ops == ExtractOps(before, after, site)
           d == Del(a, n)
           i == Ins(a, x, site)
<1>3. ops = <<>> \/ ops = <<d>> \/ ops = <<i>> \/ ops = <<d, i>>
  BY <1>1 DEF Change
<1> HIDE DEF T, ops, d, i
<1>4. d \in T /\ i \in T
  BY <1>2 DEF T, d, i
<1>5. <<>> \in Seq(T) /\ <<d>> \in Seq(T) /\ <<i>> \in Seq(T) /\ <<d, i>> \in Seq(T)
  BY <1>4
<1>6. ops \in Seq(T)
  BY <1>3, <1>5
<1> QED
  BY <1>6 DEF Compound, T, ops

\* A cursor stays an offset even when the document it was in has become shorter.
LEMMA AdjustedCursor ==
  ASSUME NEW S, NEW ops \in Compound(S), NEW c \in Nat, NEW local \in Nat
  PROVE  AdjustCursor(c, ops, local) \in Nat
<1>1. ASSUME NEW pos \in Nat, NEW op \in TextOperation(S)
      PROVE  AdjustCursorPos(pos, op, local) \in Nat
  <2>1. CASE \E p \in Nat, x \in Seq(S), site \in Nat : op = Ins(p, x, site)
    <3>1. PICK p \in Nat, x \in Seq(S), site \in Nat : op = Ins(p, x, site)
      BY <2>1
    <3>2. AdjustCursorPos(pos, op, local) = pos \/ AdjustCursorPos(pos, op, local) = pos + Len(x)
      BY <3>1 DEF AdjustCursorPos, Ins
    <3>3. Len(x) \in Nat
      OBVIOUS
    <3> QED
      BY <3>2, <3>3
  <2>2. CASE \E p \in Nat, n \in Nat : op = Del(p, n)
    <3>1. PICK p \in Nat, n \in Nat : op = Del(p, n)
      BY <2>2
    <3>2. AdjustCursorPos(pos, op, local) = IF p + n <= pos THEN pos - n ELSE Least(p, pos)
      BY <3>1 DEF AdjustCursorPos, Del
    <3> QED
      BY <3>2 DEF Least
  <2> QED
    BY <2>1, <2>2 DEF TextOperation
<1> DEFINE T == TextOperation(S)
<1>2. ops \in Seq(T)
  BY DEF Compound
<1>3. \A pos \in Nat, op \in T : AdjustCursorPos(pos, op, local) \in Nat
  BY <1>1
<1> HIDE DEF T
<1>4. Adjusting!Fold(local, c, ops) \in Nat
  BY <1>2, <1>3, Adjusting!FoldKeeps
<1> QED
  BY <1>4, AdjustingFolds

-----------------------------------------------------------------------------
(* A cursor keeps its place among the characters that stay.                *)

\* Every character of u is one of X or comes from t, where it was on the same
\* side of the cursor.
Placed(X, t, c, u, d) ==
    /\ d \in 0 .. Len(u)
    /\ \A i \in 1 .. Len(u) :
          u[i] \in X \/ \E j \in 1 .. Len(t) : u[i] = t[j] /\ (i <= d <=> j <= c)

\* One insertion: what is left of it stays, what is right of it moves on.
LEMMA InsertionPlaces ==
  ASSUME NEW S, NEW X, X \subseteq S, NEW t \in Seq(S), NEW c \in 0 .. Len(t), NEW local \in Nat,
         NEW q \in Nat, NEW x \in Seq(X), NEW site \in Nat,
         NEW op, op = Ins(q, x, site), NEW u, u = ApplyOp(t, op),
         NEW d, d = AdjustCursorPos(c, op, local)
  PROVE  Placed(X, t, c, u, d)
<1> DEFINE p == Least(q, Len(t))
<1>0. Len(t) \in Nat /\ c \in Nat /\ c <= Len(t) /\ Len(x) \in Nat /\ x \in Seq(S)
  OBVIOUS
<1>1. p \in 0 .. Len(t) /\ p <= q /\ (p < q => p = Len(t))
  BY <1>0 DEF Least
<1>2. u = ApplyOp(t, Ins(p, x, site))
  BY <1>0, InsertionClamped
<1>3. /\ u \in Seq(S) /\ Len(u) = Len(t) + Len(x)
      /\ \A i \in 1 .. Len(t) + Len(x) :
            u[i] = IF i <= p THEN t[i] ELSE IF i <= p + Len(x) THEN x[i - p] ELSE t[i - Len(x)]
  <2> HIDE DEF p
  <2> QED
    BY <1>0, <1>1, <1>2, InsertionApplied
<1> HIDE DEF p
<1>4. d = IF q < c \/ (q = c /\ site < local) THEN c + Len(x) ELSE c
  BY DEF AdjustCursorPos, Ins
<1>5. /\ p \in Nat
      /\ \/ p <= c /\ d = c + Len(x)
         \/ c <= p /\ d = c
  BY <1>0, <1>1, <1>4
<1>6. d \in 0 .. Len(u)
  BY <1>0, <1>3, <1>5
<1>7. ASSUME NEW i \in 1 .. Len(u)
      PROVE  u[i] \in X \/ \E j \in 1 .. Len(t) : u[i] = t[j] /\ (i <= d <=> j <= c)
  <2>1. CASE i <= p
    <3>1. u[i] = t[i] /\ i \in 1 .. Len(t) /\ (i <= d <=> i <= c)
      BY <1>0, <1>1, <1>3, <1>5, <2>1
    <3> QED
      BY <3>1
  <2>2. CASE p < i /\ i <= p + Len(x)
    <3>1. u[i] = x[i - p] /\ i - p \in 1 .. Len(x)
      BY <1>0, <1>3, <1>5, <2>2
    <3> QED
      BY <3>1
  <2>3. CASE p + Len(x) < i
    <3>1. /\ u[i] = t[i - Len(x)] /\ i - Len(x) \in 1 .. Len(t)
          /\ (i <= d <=> i - Len(x) <= c)
      BY <1>0, <1>3, <1>5, <2>3
    <3> QED
      BY <3>1
  <2> QED
    BY <1>0, <1>5, <2>1, <2>2, <2>3
<1> QED
  BY <1>6, <1>7 DEF Placed

\* One deletion: what is right of it moves back.
LEMMA DeletionPlaces ==
  ASSUME NEW S, NEW X, NEW t \in Seq(S), NEW c \in 0 .. Len(t), NEW local \in Nat,
         NEW q \in Nat, NEW n \in Nat,
         NEW op, op = Del(q, n), NEW u, u = ApplyOp(t, op),
         NEW d, d = AdjustCursorPos(c, op, local)
  PROVE  Placed(X, t, c, u, d)
<1> DEFINE p == Least(q, Len(t))
           r == Least(q + n, Len(t)) - p
<1>0. Len(t) \in Nat /\ c \in Nat /\ c <= Len(t)
  OBVIOUS
<1>1. /\ p \in Nat /\ r \in Nat /\ p + r <= Len(t) /\ p <= q
      /\ q + n <= Len(t) => p = q /\ r = n
      /\ Len(t) < q + n => p + r = Len(t)
      /\ p = q \/ p = Len(t)
  BY <1>0 DEF Least
<1>2. u = ApplyOp(t, Del(p, r))
  BY <1>0, DeletionClamped
<1> HIDE DEF p, r
<1>3. /\ u \in Seq(S) /\ Len(u) = Len(t) - r
      /\ \A i \in 1 .. Len(t) - r : u[i] = IF i <= p THEN t[i] ELSE t[i + r]
  <2>1. p \in Nat /\ r \in Nat /\ p + r <= Len(t)
    BY <1>1
  <2>2. /\ ApplyOp(t, Del(p, r)) \in Seq(S)
        /\ Len(ApplyOp(t, Del(p, r))) = Len(t) - r
        /\ \A i \in 1 .. Len(t) - r :
              ApplyOp(t, Del(p, r))[i] = IF i <= p THEN t[i] ELSE t[i + r]
    BY ONLY <2>1, t \in Seq(S), DeletionApplied
  <2> QED
    BY <1>2, <2>2
<1>4. d = IF q + n <= c THEN c - n ELSE Least(q, c)
  BY DEF AdjustCursorPos, Del
<1>5. \/ q + n <= c /\ p = q /\ r = n /\ d = c - r /\ p <= d
      \/ c < q + n /\ p <= c /\ p = q /\ d = p /\ (c < p + r \/ p + r = Len(t))
      \/ c < q + n /\ c <= p /\ d = c
  BY <1>0, <1>1, <1>4 DEF Least
<1>6. d \in 0 .. Len(u)
  BY <1>0, <1>1, <1>3, <1>5
<1>7. ASSUME NEW i \in 1 .. Len(u)
      PROVE  u[i] \in X \/ \E j \in 1 .. Len(t) : u[i] = t[j] /\ (i <= d <=> j <= c)
  <2>1. CASE i <= p
    <3>1. u[i] = t[i] /\ i \in 1 .. Len(t) /\ (i <= d <=> i <= c)
      BY <1>0, <1>1, <1>3, <1>5, <2>1
    <3> QED
      BY <3>1
  <2>2. CASE p < i
    <3>1. u[i] = t[i + r] /\ i + r \in 1 .. Len(t)
      BY <1>0, <1>1, <1>3, <2>2
    <3>2. i <= d <=> i + r <= c
      BY <1>0, <1>1, <1>3, <1>5, <2>2
    <3> QED
      BY <3>1, <3>2
  <2> QED
    BY <1>1, <2>1, <2>2
<1> QED
  BY <1>6, <1>7 DEF Placed

\* Places are kept from step to step.
LEMMA PlacedAgain ==
  ASSUME NEW X, NEW t, NEW c, NEW u, NEW d, NEW v, NEW e, Placed(X, t, c, u, d), Placed(X, u, d, v, e)
  PROVE  Placed(X, t, c, v, e)
<1>1. ASSUME NEW i \in 1 .. Len(v), v[i] \notin X
      PROVE  \E j \in 1 .. Len(t) : v[i] = t[j] /\ (i <= e <=> j <= c)
  <2>1. PICK k \in 1 .. Len(u) : v[i] = u[k] /\ (i <= e <=> k <= d)
    BY <1>1 DEF Placed
  <2>2. u[k] \notin X
    BY <1>1, <2>1
  <2>3. PICK j \in 1 .. Len(t) : u[k] = t[j] /\ (k <= d <=> j <= c)
    BY <2>2 DEF Placed
  <2> QED
    BY <2>1, <2>3
<1> QED
  BY <1>1 DEF Placed

\* A cursor adjusted by a sequence of operations, in the text they are applied
\* to: whatever they insert, a character that is not inserted stays on its side
\* of the cursor (adjust_cursor with apply_ops_to_rope).
THEOREM CursorKeepsPlace ==
  ASSUME NEW S, NEW X, X \subseteq S, NEW t \in Seq(S), NEW c \in 0 .. Len(t), NEW local \in Nat,
         NEW ops \in Compound(X)
  PROVE  Placed(X, t, c, ApplyOps(t, ops), AdjustCursor(c, ops, local))
<1>1. PICK g : Applying!Trace(g, 0, t, ops)
  BY Applying!FoldTrace DEF Compound
<1>2. PICK h : Adjusting!Trace(h, local, c, ops)
  BY Adjusting!FoldTrace DEF Compound
<1>3. /\ g[0] = t /\ ApplyOps(t, ops) = g[Len(ops)]
      /\ \A i \in 1 .. Len(ops) : g[i] = ApplyOp(g[i - 1], ops[i])
  BY <1>1, ApplyingFolds DEF Applying!Trace
<1>4. /\ h[0] = c /\ AdjustCursor(c, ops, local) = h[Len(ops)]
      /\ \A i \in 1 .. Len(ops) : h[i] = AdjustCursorPos(h[i - 1], ops[i], local)
  BY <1>2, AdjustingFolds DEF Adjusting!Trace
<1> DEFINE Sound(i) == g[i] \in Seq(S) /\ Placed(X, t, c, g[i], h[i])
           I == {i \in Nat : i <= Len(ops) => Sound(i)}
<1>5. 0 \in I
  <2>1. \A i \in 1 .. Len(t) : \E j \in 1 .. Len(t) : t[i] = t[j] /\ (i <= c <=> j <= c)
    OBVIOUS
  <2>2. Placed(X, t, c, t, c)
    BY <2>1 DEF Placed
  <2> QED
    BY <1>3, <1>4, <2>2
<1>6. ASSUME NEW i \in Nat, i \in I PROVE i + 1 \in I
  <2>1. CASE i + 1 <= Len(ops)
    <3>1. /\ i + 1 \in 1 .. Len(ops) /\ (i + 1) - 1 = i /\ i <= Len(ops)
          /\ ops[i + 1] \in TextOperation(X)
      BY <2>1 DEF Compound
    <3>2. /\ g[i + 1] = ApplyOp(g[i], ops[i + 1])
          /\ h[i + 1] = AdjustCursorPos(h[i], ops[i + 1], local)
      BY <1>3, <1>4, <3>1
    <3>3. g[i] \in Seq(S) /\ Placed(X, t, c, g[i], h[i])
      BY <1>6, <3>1
    <3>4. h[i] \in 0 .. Len(g[i])
      BY <3>3 DEF Placed
    <3>5. Placed(X, g[i], h[i], g[i + 1], h[i + 1])
      <4>1. CASE \E p \in Nat, x \in Seq(X), site \in Nat : ops[i + 1] = Ins(p, x, site)
        <5>1. PICK p \in Nat, x \in Seq(X), site \in Nat : ops[i + 1] = Ins(p, x, site)
          BY <4>1
        <5> QED
          BY <3>2, <3>3, <3>4, <5>1, InsertionPlaces
      <4>2. CASE \E p \in Nat, n \in Nat : ops[i + 1] = Del(p, n)
        <5>1. PICK p \in Nat, n \in Nat : ops[i + 1] = Del(p, n)
          BY <4>2
        <5> QED
          BY <3>2, <3>3, <3>4, <5>1, DeletionPlaces
      <4> QED
        BY <3>1, <4>1, <4>2 DEF TextOperation
    <3>6. g[i + 1] \in Seq(S)
      <4>1. ops[i + 1] \in TextOperation(S)
        <5>1. Seq(X) \subseteq Seq(S)
          OBVIOUS
        <5> QED
          BY <3>1, <5>1 DEF TextOperation
      <4>2. OperationSound(S, g[i], ops[i + 1], h[i], local)
        BY <3>3, <3>4, <4>1, OperationApplied
      <4> QED
        BY <3>2, <4>2 DEF OperationSound
    <3>7. Sound(i + 1)
      BY <3>3, <3>5, <3>6, PlacedAgain
    <3> QED
      BY <3>7
  <2>2. CASE ~(i + 1 <= Len(ops))
    BY <2>2
  <2> QED
    BY <2>1, <2>2
<1>7. Nat \subseteq I
  <2> HIDE DEF I
  <2> QED
    BY <1>5, <1>6, Applying!SetInduction
<1>8. Len(ops) \in Nat
  BY DEF Compound
<1>9. Sound(Len(ops))
  BY <1>7, <1>8
<1> QED
  BY <1>3, <1>4, <1>9

-----------------------------------------------------------------------------
\* A channel is a sequence of frames of any kind.
Channel(q) == q \in Seq(ToSet(q))

\* An empty channel carries nothing.
LEMMA EmptyChannel == Channel(<<>>) /\ ToSet(<<>>) = {}
  BY DEF Channel, ToSet

\* Whatever a sequence ranges over, it is a channel.
LEMMA SeqIsChannel ==
  ASSUME NEW S, NEW q \in Seq(S)
  PROVE  Channel(q) /\ ToSet(q) \subseteq S
<1>1. ToSet(q) \subseteq S
  BY DEF ToSet
<1>2. q = [i \in 1 .. Len(q) |-> q[i]] /\ Len(q) \in Nat /\ DOMAIN q = 1 .. Len(q)
  OBVIOUS
<1>3. \A i \in 1 .. Len(q) : q[i] \in ToSet(q)
  BY <1>2 DEF ToSet
<1>4. [i \in 1 .. Len(q) |-> q[i]] \in Seq(ToSet(q))
  BY <1>2, <1>3
<1> QED
  BY <1>1, <1>2, <1>4 DEF Channel

\* A channel with one frame.
LEMMA OneFrame == ASSUME NEW m PROVE Channel(<<m>>) /\ ToSet(<<m>>) = {m}
<1>1. <<m>> \in Seq({m}) /\ DOMAIN <<m>> = {1} /\ <<m>>[1] = m
  OBVIOUS
<1>2. ToSet(<<m>>) = {m}
  BY <1>1 DEF ToSet
<1> QED
  BY <1>1, <1>2, SeqIsChannel

\* Sending: the new frame comes last and the others stay.
LEMMA SendFrame ==
  ASSUME NEW q, Channel(q), NEW m
  PROVE  /\ Channel(Append(q, m))
         /\ ToSet(Append(q, m)) = ToSet(q) \union {m}
         /\ Len(Append(q, m)) = Len(q) + 1 /\ Len(q) \in Nat
         /\ Append(q, m)[Len(q) + 1] = m
         /\ \A i \in 1 .. Len(q) : Append(q, m)[i] = q[i]
<1> DEFINE S == ToSet(q) \union {m}
<1>1. q \in Seq(S) /\ m \in S
  BY DEF Channel
<1>2. /\ Append(q, m) \in Seq(S) /\ Len(q) \in Nat /\ Len(Append(q, m)) = Len(q) + 1
      /\ Append(q, m)[Len(q) + 1] = m
      /\ \A i \in 1 .. Len(q) : Append(q, m)[i] = q[i]
      /\ DOMAIN q = 1 .. Len(q) /\ DOMAIN Append(q, m) = 1 .. Len(q) + 1
  BY <1>1
<1>3. ToSet(Append(q, m)) = S
  BY <1>2 DEF ToSet
<1> QED
  BY <1>2, <1>3, SeqIsChannel

\* Receiving: the head was on the channel and the rest is what is left.
LEMMA ReceiveFrame ==
  ASSUME NEW q, Channel(q), q # <<>>
  PROVE  /\ Channel(Tail(q)) /\ Head(q) \in ToSet(q) /\ ToSet(Tail(q)) \subseteq ToSet(q)
         /\ Head(q) = q[1]
         /\ Len(q) \in Nat \ {0} /\ Len(Tail(q)) = Len(q) - 1
         /\ \A i \in 1 .. Len(Tail(q)) : Tail(q)[i] = q[i + 1]
<1>1. q \in Seq(ToSet(q))
  BY DEF Channel
<1>2. /\ Len(q) \in Nat \ {0} /\ Tail(q) \in Seq(ToSet(q)) /\ Head(q) \in ToSet(q)
      /\ Len(Tail(q)) = Len(q) - 1 /\ Head(q) = q[1]
      /\ \A i \in 1 .. Len(Tail(q)) : Tail(q)[i] = q[i + 1]
  BY <1>1
<1> QED
  BY <1>2, SeqIsChannel

\* Nothing is left behind the only frame.
LEMMA OnlyFrame ==
  ASSUME NEW q, Channel(q), q # <<>>, Len(q) = 1
  PROVE  Len(Tail(q)) = 0 /\ ToSet(Tail(q)) = {}
<1>1. Channel(Tail(q)) /\ Len(Tail(q)) = 0
  BY ReceiveFrame
<1>2. ASSUME NEW r, Channel(r), Len(r) = 0 PROVE ToSet(r) = {}
  <2>1. r \in Seq(ToSet(r))
    BY <1>2 DEF Channel
  <2>2. DOMAIN r = 1 .. Len(r)
    BY <2>1
  <2>3. DOMAIN r = {}
    BY <1>2, <2>2
  <2> QED
    BY <2>3 DEF ToSet
<1> QED
  BY <1>1, <1>2

\* Losing the end of a channel.
LEMMA LoseFrames ==
  ASSUME NEW q, Channel(q), NEW k \in 0 .. Len(q)
  PROVE  /\ Channel(SubSeq(q, 1, k)) /\ ToSet(SubSeq(q, 1, k)) \subseteq ToSet(q)
         /\ Len(SubSeq(q, 1, k)) = k
         /\ \A i \in 1 .. k : SubSeq(q, 1, k)[i] = q[i] /\ i \in 1 .. Len(q)
<1>1. q \in Seq(ToSet(q)) /\ Len(q) \in Nat
  BY DEF Channel
<1>2. /\ SubSeq(q, 1, k) \in Seq(ToSet(q)) /\ Len(SubSeq(q, 1, k)) = k
      /\ \A i \in 1 .. k : SubSeq(q, 1, k)[i] = q[i] /\ i \in 1 .. Len(q)
  BY <1>1
<1> QED
  BY <1>2, SeqIsChannel

\* Sending several frames, or what comes after what is already there.
LEMMA JoinChannels ==
  ASSUME NEW q, NEW r, Channel(q), Channel(r)
  PROVE  /\ Channel(q \o r) /\ ToSet(q \o r) = ToSet(q) \union ToSet(r)
         /\ Len(q \o r) = Len(q) + Len(r) /\ Len(q) \in Nat /\ Len(r) \in Nat
         /\ \A i \in 1 .. Len(q) : (q \o r)[i] = q[i]
         /\ \A i \in 1 .. Len(r) : (q \o r)[Len(q) + i] = r[i] /\ r[i] \in ToSet(r)
<1> DEFINE S == ToSet(q) \union ToSet(r)
<1>1. q \in Seq(S) /\ r \in Seq(S)
  BY DEF Channel
<1>2. /\ q \o r \in Seq(S) /\ Len(q) \in Nat /\ Len(r) \in Nat
      /\ Len(q \o r) = Len(q) + Len(r)
      /\ DOMAIN q = 1 .. Len(q) /\ DOMAIN r = 1 .. Len(r)
      /\ \A i \in 1 .. Len(q) : (q \o r)[i] = q[i]
      /\ \A i \in 1 .. Len(r) : (q \o r)[Len(q) + i] = r[i]
  BY <1>1
<1>3. ToSet(q \o r) \subseteq S
  BY <1>2, SeqIsChannel
<1>4. ToSet(q) \subseteq ToSet(q \o r)
  <2>1. \A i \in DOMAIN q : i \in DOMAIN (q \o r) /\ (q \o r)[i] = q[i]
    BY <1>2
  <2> QED
    BY <2>1 DEF ToSet
<1>5. ToSet(r) \subseteq ToSet(q \o r)
  <2>1. \A i \in DOMAIN r : Len(q) + i \in DOMAIN (q \o r) /\ (q \o r)[Len(q) + i] = r[i]
    BY <1>2
  <2> QED
    BY <2>1 DEF ToSet
<1>6. \A i \in 1 .. Len(r) : r[i] \in ToSet(r)
  BY <1>2 DEF ToSet
<1> QED
  BY <1>2, <1>3, <1>4, <1>5, <1>6, SeqIsChannel
=============================================================================
