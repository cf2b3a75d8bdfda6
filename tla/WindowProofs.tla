---------------------------- MODULE WindowProofs ----------------------------
(***************************************************************************)
(* The window: that its panes, the tree they are laid out in and what they *)
(* show fit each other whatever is split, closed, dragged and stopped, and *)
(* that no escape sequence or size leads out of a terminal's grid, for     *)
(* windows and terminals of any size and any number of steps.              *)
(***************************************************************************)
EXTENDS PanesSafety, TerminalSafety, SequenceTheorems, FiniteSetTheorems, WellFoundedInduction,
        TLAPS

-----------------------------------------------------------------------------
(* The layout: a finite tree in which any two leaves stand in an order.    *)

Path == Seq({0, 1})
Ordered(p, q) == p = q \/ LeftOf(p, q) \/ LeftOf(q, p)
Tree(t) ==
    /\ t = [p \in DOMAIN t |-> t[p]]
    /\ DOMAIN t \subseteq Path /\ IsFiniteSet(DOMAIN t)
    /\ \A p, q \in DOMAIN t : Ordered(p, q)
    /\ \A p, q \in DOMAIN t : t[p] = t[q] => p = q

LEMMA PathShape ==
  ASSUME NEW p \in Path
  PROVE  Len(p) \in Nat /\ DOMAIN p = 1 .. Len(p) /\ \A k \in 1 .. Len(p) : p[k] \in {0, 1}
  BY DEF Path

\* Left of is a strict order.
LEMMA LeftOfIsStrict == ASSUME NEW p \in Path PROVE ~LeftOf(p, p)
<1>1. \A k \in DOMAIN p : p[k] \in {0, 1}
  BY PathShape
<1> QED
  BY <1>1 DEF LeftOf

LEMMA LeftOfIsTransitive ==
  ASSUME NEW p \in Path, NEW q \in Path, NEW r \in Path, LeftOf(p, q), LeftOf(q, r)
  PROVE  LeftOf(p, r)
<1> DEFINE first(a, b, k) == a[k] < b[k] /\ \A j \in 1 .. k - 1 : a[j] = b[j]
<1>0. /\ Len(p) \in Nat /\ DOMAIN p = 1 .. Len(p) /\ \A k \in 1 .. Len(p) : p[k] \in {0, 1}
      /\ Len(q) \in Nat /\ DOMAIN q = 1 .. Len(q) /\ \A k \in 1 .. Len(q) : q[k] \in {0, 1}
      /\ Len(r) \in Nat /\ DOMAIN r = 1 .. Len(r) /\ \A k \in 1 .. Len(r) : r[k] \in {0, 1}
  BY PathShape
<1>1. PICK k \in DOMAIN p \cap DOMAIN q : first(p, q, k)
  BY DEF LeftOf
<1>2. PICK l \in DOMAIN q \cap DOMAIN r : first(q, r, l)
  BY DEF LeftOf
<1>3. k \in 1 .. Len(p) /\ k \in 1 .. Len(q) /\ l \in 1 .. Len(q) /\ l \in 1 .. Len(r)
  BY <1>0
<1>4. SUFFICES \E i \in DOMAIN p \cap DOMAIN r : first(p, r, i)
  BY DEF LeftOf
<1>5. CASE k <= l
  <2>1. k \in DOMAIN p \cap DOMAIN r
    BY <1>0, <1>3, <1>5
  <2>2. \A j \in 1 .. k - 1 : j \in 1 .. l - 1 /\ p[j] = r[j]
    BY <1>1, <1>2, <1>3, <1>5
  <2>3. k < l => q[k] = r[k]
    BY <1>2, <1>3
  <2>4. p[k] < q[k] /\ (q[k] = r[k] \/ q[k] < r[k])
    BY <1>1, <1>2, <1>3, <1>5, <2>3
  <2>5. p[k] < r[k]
    BY <1>0, <1>3, <2>1, <2>4
  <2> QED
    BY <2>1, <2>2, <2>5
<1>6. CASE l < k
  <2>1. l \in DOMAIN p \cap DOMAIN r
    BY <1>0, <1>3, <1>6
  <2>2. \A j \in 1 .. l - 1 : j \in 1 .. k - 1 /\ p[j] = r[j]
    BY <1>1, <1>2, <1>3, <1>6
  <2>3. p[l] = q[l] /\ q[l] < r[l]
    BY <1>1, <1>2, <1>3, <1>6
  <2> QED
    BY <2>1, <2>2, <2>3
<1> QED
  BY <1>3, <1>5, <1>6

\* A set of numbers that is not empty has a least element.
LEMMA LeastOf ==
  ASSUME NEW S \in SUBSET Nat, S # {}
  PROVE  \E x \in S : \A y \in S : x <= y
<1>1. PICK R : R = OpToRel(<, Nat)
  OBVIOUS
<1>2. IsWellFoundedOn(R, Nat)
  BY <1>1, NatLessThanWellFounded, Zenon
<1>3. \A x, y \in Nat : y < x => <<y, x>> \in R
  BY <1>1 DEF OpToRel
<1>4. PICK x \in S : \A y \in S : ~(<<y, x>> \in R)
  BY <1>2, WFMin
<1>5. \A y \in S : ~(y < x)
  BY <1>3, <1>4
<1> QED
  BY <1>4, <1>5

\* So among some leaves there is a first one.
LEMMA FirstPathExists ==
  ASSUME NEW S \in SUBSET Path, IsFiniteSet(S), S # {},
         \A p, q \in S : Ordered(p, q)
  PROVE  \E p \in S : \A q \in S \ {p} : LeftOf(p, q)
<1> DEFINE below(p) == {q \in S : LeftOf(q, p)}
           sizes == {Cardinality(below(p)) : p \in S}
<1>1. \A p \in S : below(p) \in SUBSET S /\ IsFiniteSet(below(p)) /\ Cardinality(below(p)) \in Nat
  BY FS_Subset, FS_CardinalityType
<1>2. sizes \in SUBSET Nat /\ sizes # {}
  BY <1>1
<1>3. PICK n \in sizes : \A m \in sizes : n <= m
  <2> HIDE DEF sizes
  <2> QED
    BY <1>2, LeastOf
<1>4. PICK p \in S : n = Cardinality(below(p))
  OBVIOUS
<1>5. ASSUME NEW q \in S, LeftOf(q, p) PROVE FALSE
  <2>1. \A r \in below(q) : r \in below(p)
    BY <1>5, LeftOfIsTransitive
  <2>2. q \in below(p) /\ q \notin below(q)
    BY <1>5, LeftOfIsStrict
  <2>3. Cardinality(below(p)) <= Cardinality(below(q))
    BY <1>3, <1>4
  <2>4. PICK a : a = below(p)
    OBVIOUS
  <2>5. PICK b : b = below(q)
    OBVIOUS
  <2>6. b \in SUBSET a /\ b # a /\ IsFiniteSet(a)
    BY <1>1, <2>1, <2>2, <2>4, <2>5
  <2>7. Cardinality(b) <= Cardinality(a) /\ Cardinality(b) # Cardinality(a)
    BY <2>6, FS_Subset
  <2>8. Cardinality(a) \in Nat /\ Cardinality(b) \in Nat /\ Cardinality(a) <= Cardinality(b)
    BY <1>1, <2>3, <2>4, <2>5
  <2> QED
    BY <2>7, <2>8
<1>6. \A q \in S \ {p} : LeftOf(p, q)
  BY <1>5 DEF Ordered
<1> QED
  BY <1>6

\* FirstLeaf finds one of the panes it is asked for.
LEMMA FirstLeafFound ==
  ASSUME NEW t, Tree(t), NEW ids, Leaves(t) \cap ids # {}
  PROVE  FirstLeaf(t, ids) \in Leaves(t) \cap ids
<1> DEFINE paths == {path \in DOMAIN t : t[path] \in ids}
<1>1. paths \in SUBSET Path /\ IsFiniteSet(paths) /\ \A p, q \in paths : Ordered(p, q)
  BY FS_Subset DEF Tree
<1>2. paths # {}
  BY DEF Leaves, Range
<1>3. \E p \in paths : \A q \in paths \ {p} : LeftOf(p, q)
  <2> HIDE DEF paths
  <2> QED
    BY <1>1, <1>2, FirstPathExists
<1>4. PICK p : p = CHOOSE path \in paths : \A other \in paths \ {path} : LeftOf(path, other)
  OBVIOUS
<1>5. p \in paths /\ FirstLeaf(t, ids) = t[p]
  BY <1>3, <1>4 DEF FirstLeaf
<1> QED
  BY <1>5 DEF Leaves, Range

\* A longer path is where the shorter one was.
LEMMA LongerPaths ==
  ASSUME NEW p \in Path, NEW q \in Path, NEW k \in {0, 1}
  PROVE  /\ Append(p, k) \in Path /\ Append(p, k)[Len(p) + 1] = k /\ Last(Append(p, k)) = k
         /\ LeftOf(p, q) => LeftOf(Append(p, k), q)
         /\ LeftOf(q, p) => LeftOf(q, Append(p, k))
<1>0. /\ Len(p) \in Nat /\ DOMAIN p = 1 .. Len(p) /\ \A i \in 1 .. Len(p) : p[i] \in {0, 1}
      /\ Len(q) \in Nat /\ DOMAIN q = 1 .. Len(q) /\ \A i \in 1 .. Len(q) : q[i] \in {0, 1}
  BY PathShape
<1>1. PICK r : r = Append(p, k)
  OBVIOUS
<1>2. /\ r \in Path /\ Len(r) = Len(p) + 1 /\ r[Len(p) + 1] = k
      /\ \A i \in 1 .. Len(p) : r[i] = p[i]
  BY <1>1 DEF Path
<1>3. DOMAIN r = 1 .. Len(p) + 1
  BY <1>2, PathShape
<1>4. Last(r) = k
  BY <1>2 DEF Last
<1>5. ASSUME LeftOf(p, q) PROVE LeftOf(r, q)
  <2>1. PICK i \in DOMAIN p \cap DOMAIN q : p[i] < q[i] /\ \A j \in 1 .. i - 1 : p[j] = q[j]
    BY <1>5 DEF LeftOf
  <2>2. i \in DOMAIN r \cap DOMAIN q /\ r[i] < q[i] /\ \A j \in 1 .. i - 1 : r[j] = q[j]
    BY <1>0, <1>2, <1>3, <2>1
  <2> QED
    BY <2>2 DEF LeftOf
<1>6. ASSUME LeftOf(q, p) PROVE LeftOf(q, r)
  <2>1. PICK i \in DOMAIN q \cap DOMAIN p : q[i] < p[i] /\ \A j \in 1 .. i - 1 : q[j] = p[j]
    BY <1>6 DEF LeftOf
  <2>2. i \in DOMAIN q \cap DOMAIN r /\ q[i] < r[i] /\ \A j \in 1 .. i - 1 : q[j] = r[j]
    BY <1>0, <1>2, <1>3, <2>1
  <2> QED
    BY <2>2 DEF LeftOf
<1> QED
  BY <1>1, <1>2, <1>4, <1>5, <1>6

LEMMA HalvesInOrder ==
  ASSUME NEW p \in Path
  PROVE  LeftOf(Append(p, 0), Append(p, 1))
<1>1. PICK a : a = Append(p, 0)
  OBVIOUS
<1>2. PICK b : b = Append(p, 1)
  OBVIOUS
<1>3. /\ Len(p) \in Nat
      /\ a \in Path /\ Len(a) = Len(p) + 1 /\ a[Len(p) + 1] = 0
      /\ b \in Path /\ Len(b) = Len(p) + 1 /\ b[Len(p) + 1] = 1
      /\ \A i \in 1 .. Len(p) : a[i] = p[i] /\ b[i] = p[i]
  BY <1>1, <1>2 DEF Path
<1>4. Len(p) + 1 \in DOMAIN a \cap DOMAIN b
  BY <1>3, PathShape
<1>5. LeftOf(a, b)
  BY <1>3, <1>4 DEF LeftOf
<1> QED
  BY <1>1, <1>2, <1>5

\* A split keeps the tree, and the new pane is in it.
LEMMA InsertKeepsTree ==
  ASSUME NEW t, Tree(t), NEW target \in Leaves(t), NEW new, new \notin Leaves(t),
         NEW half \in {0, 1}
  PROVE  /\ Tree(InsertPane(t, target, new, half))
         /\ Leaves(InsertPane(t, target, new, half)) = Leaves(t) \cup {new}
<1>1. PICK s \in DOMAIN t : t[s] = target
  BY DEF Leaves, Range
<1>2. /\ t = [p \in DOMAIN t |-> t[p]] /\ DOMAIN t \subseteq Path /\ IsFiniteSet(DOMAIN t)
      /\ \A p, q \in DOMAIN t : Ordered(p, q)
      /\ \A p, q \in DOMAIN t : t[p] = t[q] => p = q
  BY DEF Tree
<1>3. \A p \in DOMAIN t : t[p] # new /\ t[p] \in Leaves(t)
  BY DEF Leaves, Range
<1> DEFINE kept == DOMAIN t \ {s}
           a == Append(s, 0)
           b == Append(s, 1)
           u == InsertPane(t, target, new, half)
<1>4. PICK zero : zero = a
  OBVIOUS
<1>5. PICK one : one = b
  OBVIOUS
<1>6. s \in Path /\ zero \in Path /\ one \in Path /\ LeftOf(zero, one)
      /\ Last(zero) = 0 /\ Last(one) = 1
  BY <1>1, <1>2, <1>4, <1>5, LongerPaths, HalvesInOrder
<1>7. \A q \in kept :
        /\ LeftOf(s, q) => LeftOf(zero, q) /\ LeftOf(one, q)
        /\ LeftOf(q, s) => LeftOf(q, zero) /\ LeftOf(q, one)
  BY <1>1, <1>2, <1>4, <1>5, LongerPaths
<1>8. \A q \in kept : LeftOf(s, q) \/ LeftOf(q, s)
  BY <1>1, <1>2 DEF Ordered
<1>9. \A q \in kept : q # zero /\ q # one
  BY <1>2, <1>6, <1>7, <1>8, LeftOfIsStrict
<1>10. zero # one
  BY <1>6, LeftOfIsStrict
<1>11. {path \in DOMAIN t : t[path] = target} = {s}
  BY <1>1, <1>2
<1>12. {Append(at, k) : at \in {s}, k \in {0, 1}} = {zero, one}
  BY <1>4, <1>5
<1> DEFINE dom == kept \cup {zero, one}
<1>13. u = [p \in dom |-> IF p \in kept THEN t[p] ELSE IF Last(p) = half THEN new ELSE target]
  BY <1>11, <1>12 DEF InsertPane
<1>v. PICK v : v = u
  OBVIOUS
<1> HIDE DEF u, a, b, kept
<1>14. /\ v = [p \in DOMAIN v |-> v[p]] /\ DOMAIN v = dom
       /\ \A p \in kept : v[p] = t[p]
       /\ v[zero] = IF half = 0 THEN new ELSE target
       /\ v[one] = IF half = 1 THEN new ELSE target
  BY <1>6, <1>9, <1>13, <1>v
<1>15. DOMAIN v \subseteq Path /\ IsFiniteSet(DOMAIN v)
  <2>1. IsFiniteSet(kept)
    BY <1>2, FS_Subset DEF kept
  <2>2. IsFiniteSet(kept \cup {zero})
    BY <2>1, FS_AddElement
  <2>3. IsFiniteSet((kept \cup {zero}) \cup {one})
    BY <2>2, FS_AddElement
  <2>4. (kept \cup {zero}) \cup {one} = dom
    OBVIOUS
  <2> QED
    BY <1>2, <1>6, <1>14, <2>3, <2>4 DEF kept
<1>16. \A p, q \in DOMAIN v : Ordered(p, q)
  <2>1. \A p, q \in kept : Ordered(p, q)
    BY <1>2 DEF kept
  <2>2. \A q \in kept : Ordered(zero, q) /\ Ordered(one, q) /\ Ordered(q, zero) /\ Ordered(q, one)
    BY <1>7, <1>8 DEF Ordered
  <2>3. Ordered(zero, one) /\ Ordered(one, zero) /\ Ordered(zero, zero) /\ Ordered(one, one)
    BY <1>6 DEF Ordered
  <2> QED
    BY <1>14, <2>1, <2>2, <2>3
<1>17. \A p \in kept : t[p] # target /\ t[p] # new
  BY <1>1, <1>2, <1>3 DEF kept
<1>18. target # new
  BY <1>1, <1>3
<1>19. \A p, q \in DOMAIN v : v[p] = v[q] => p = q
  <2>1. \A p, q \in kept : v[p] = v[q] => p = q
    BY <1>2, <1>14 DEF kept
  <2>2. \A p \in kept : v[p] # v[zero] /\ v[p] # v[one]
    BY <1>14, <1>17
  <2>3. v[zero] # v[one]
    BY <1>14, <1>18
  <2> QED
    BY <1>14, <2>1, <2>2, <2>3
<1>20. Leaves(v) = Leaves(t) \cup {new}
  <2>1. Leaves(v) = {v[p] : p \in dom}
    BY <1>14 DEF Leaves, Range
  <2>2. Leaves(t) = {t[p] : p \in kept} \cup {target}
    BY <1>1 DEF Leaves, Range, kept
  <2>3. {v[p] : p \in dom} = {v[p] : p \in kept} \cup {v[zero], v[one]}
    OBVIOUS
  <2>4. {v[p] : p \in kept} = {t[p] : p \in kept}
    BY <1>14
  <2>5. {v[zero], v[one]} = {target, new}
    BY <1>14
  <2> QED
    BY <2>1, <2>2, <2>3, <2>4, <2>5
<1>21. Tree(v)
  BY <1>14, <1>15, <1>16, <1>19 DEF Tree
<1> QED
  BY <1>20, <1>21, <1>v DEF u

\* Removing a leaf lifts the other half of its split by one step.
Lift(g, p) == IF IsPrefix(Front(g), p)
              THEN Front(g) \o SubSeq(p, Len(g) + 1, Len(p)) ELSE p
Under(n, g, p) == n <= Len(p) /\ \A j \in 1 .. n : p[j] = g[j]
IsLifted(n, g, p, u) ==
    /\ u \in Path
    /\ ~Under(n, g, p) => u = p
    /\ Under(n, g, p) => /\ n + 1 <= Len(p) /\ p[n + 1] = 1 - g[n + 1]
                         /\ Len(u) = Len(p) - 1
                         /\ \A j \in 1 .. n : u[j] = p[j]
                         /\ \A j \in n + 2 .. Len(p) : u[j - 1] = p[j]

LEMMA LiftedPath ==
  ASSUME NEW g \in Path, NEW p \in Path, LeftOf(p, g) \/ LeftOf(g, p)
  PROVE  \E n \in Nat : Len(g) = n + 1 /\ IsLifted(n, g, p, Lift(g, p))
<1>0. /\ Len(p) \in Nat /\ DOMAIN p = 1 .. Len(p) /\ \A i \in 1 .. Len(p) : p[i] \in {0, 1}
      /\ Len(g) \in Nat /\ DOMAIN g = 1 .. Len(g) /\ \A i \in 1 .. Len(g) : g[i] \in {0, 1}
  BY PathShape
<1>1. PICK k \in DOMAIN p \cap DOMAIN g : p[k] # g[k] /\ \A j \in 1 .. k - 1 : p[j] = g[j]
  <2>1. CASE LeftOf(p, g)
    <3>1. PICK k \in DOMAIN p \cap DOMAIN g : p[k] < g[k] /\ \A j \in 1 .. k - 1 : p[j] = g[j]
      BY <2>1 DEF LeftOf
    <3>2. p[k] # g[k]
      BY <1>0, <3>1
    <3> QED
      BY <3>1, <3>2
  <2>2. CASE LeftOf(g, p)
    <3>1. PICK k \in DOMAIN g \cap DOMAIN p : g[k] < p[k] /\ \A j \in 1 .. k - 1 : g[j] = p[j]
      BY <2>2 DEF LeftOf
    <3>2. p[k] # g[k]
      BY <1>0, <3>1
    <3> QED
      BY <3>1, <3>2
  <2> QED
    BY <2>1, <2>2
<1>2. k \in 1 .. Len(p) /\ k \in 1 .. Len(g)
  BY <1>0, <1>1
<1>n. PICK n \in Nat : n = Len(g) - 1
  <2>1. Len(g) - 1 \in Nat
    BY <1>0, <1>2
  <2> QED
    BY <2>1
<1>s. PICK s : s = Front(g)
  OBVIOUS
<1>3. s \in Path /\ Len(s) = n /\ \A j \in 1 .. n : s[j] = g[j]
  BY <1>0, <1>n, <1>s DEF Front, Path
<1>4. IsPrefix(s, p) <=> Under(n, g, p)
  <2>1. IsPrefix(s, p) <=> n <= Len(p) /\ SubSeq(s, 1, n) = SubSeq(p, 1, n)
    BY <1>3 DEF IsPrefix
  <2>2. SubSeq(s, 1, n) = [j \in 1 .. n |-> s[j]]
    BY <1>3 DEF Path
  <2>3. n <= Len(p) => SubSeq(p, 1, n) = [j \in 1 .. n |-> p[j]]
    BY DEF Path
  <2>4. ASSUME n <= Len(p), SubSeq(s, 1, n) = SubSeq(p, 1, n) PROVE Under(n, g, p)
    <3>1. [j \in 1 .. n |-> s[j]] = [j \in 1 .. n |-> p[j]]
      BY <2>2, <2>3, <2>4
    <3>2. \A j \in 1 .. n : s[j] = p[j]
      BY <3>1
    <3> QED
      BY <1>n, <1>3, <2>4, <3>2 DEF Under
  <2>5. ASSUME Under(n, g, p) PROVE n <= Len(p) /\ SubSeq(s, 1, n) = SubSeq(p, 1, n)
    <3>1. n <= Len(p) /\ \A j \in 1 .. n : s[j] = p[j]
      BY <1>n, <1>3, <2>5 DEF Under
    <3> QED
      BY <2>2, <2>3, <3>1
  <2> QED
    BY <2>1, <2>4, <2>5
<1>5. ASSUME Under(n, g, p) PROVE IsLifted(n, g, p, Lift(g, p))
  <2>1. k = n + 1
    BY <1>0, <1>1, <1>2, <1>n, <1>5 DEF Under
  <2>2. n + 1 <= Len(p) /\ p[n + 1] = 1 - g[n + 1]
    BY <1>0, <1>1, <1>2, <2>1
  <2>r. PICK r : r = SubSeq(p, n + 2, Len(p))
    OBVIOUS
  <2>3. r \in Path /\ Len(r) = Len(p) - (n + 1) /\ \A j \in 1 .. Len(p) - (n + 1) : r[j] = p[n + 1 + j]
    <3>1. PICK m \in Nat : m = Len(p)
      BY <1>0
    <3>2. n + 2 \in 1 .. m + 1 /\ n + 1 <= m
      BY <2>2, <3>1
    <3>3. \A i \in n + 2 .. m : i \in DOMAIN p
      BY <1>0, <3>1, <3>2
    <3>4. /\ r \in Path /\ Len(r) = IF n + 2 <= m THEN m - (n + 2) + 1 ELSE 0
          /\ \A i \in 1 .. m - (n + 2) + 1 : r[i] = p[n + 2 + i - 1]
      <4>1. n + 2 \in 1 .. Len(p) + 1 /\ m \in n + 2 - 1 .. Len(p)
        BY <3>1, <3>2
      <4> QED
        BY <2>r, <3>1, <4>1, SubSeqProperties DEF Path
    <3> QED
      BY <3>1, <3>2, <3>4
  <2>u. PICK u : u = s \o r
    OBVIOUS
  <2>4. /\ u \in Path /\ Len(u) = n + Len(r)
        /\ \A j \in 1 .. n : u[j] = s[j]
        /\ \A j \in 1 .. Len(r) : u[n + j] = r[j]
    <3>1. s \in Seq({0, 1}) /\ r \in Seq({0, 1})
      BY <1>3, <2>3 DEF Path
    <3>2. PICK m \in Nat : m = Len(r)
      BY <3>1
    <3>3. /\ u \in Path /\ Len(u) = n + m
          /\ \A i \in 1 .. n + m : u[i] = IF i <= n THEN s[i] ELSE r[i - n]
      <4>1. /\ s \o r \in Seq({0, 1}) /\ Len(s \o r) = Len(s) + Len(r)
            /\ \A i \in 1 .. Len(s) + Len(r) :
                  (s \o r)[i] = IF i <= Len(s) THEN s[i] ELSE r[i - Len(s)]
        BY <3>1, ConcatProperties
      <4> QED
        BY <1>3, <2>u, <3>2, <4>1 DEF Path
    <3>4. \A i \in 1 .. n : i \in 1 .. n + m /\ i <= n
      BY <3>2
    <3>5. \A i \in 1 .. m : n + i \in 1 .. n + m /\ ~(n + i <= n) /\ n + i - n = i
      BY <3>2
    <3> QED
      BY <3>2, <3>3, <3>4, <3>5
  <2>5. Lift(g, p) = u
    <3>1. Len(g) + 1 = n + 2
      BY <1>0, <1>n
    <3> QED
      BY <1>4, <1>5, <1>s, <2>r, <2>u, <3>1 DEF Lift
  <2>6. Len(u) = Len(p) - 1
    BY <1>0, <2>3, <2>4
  <2>7. \A j \in 1 .. n : u[j] = p[j]
    BY <1>3, <1>n, <1>5, <2>4 DEF Under
  <2>8. \A j \in n + 2 .. Len(p) : u[j - 1] = p[j]
    <3> TAKE j \in n + 2 .. Len(p)
    <3>1. PICK i \in 1 .. Len(p) - (n + 1) : j = n + 1 + i
      <4>1. j - (n + 1) \in 1 .. Len(p) - (n + 1) /\ j = n + 1 + (j - (n + 1))
        BY <1>0, <2>2
      <4> QED
        BY <4>1
    <3>2. u[n + i] = r[i] /\ r[i] = p[n + 1 + i] /\ j - 1 = n + i
      BY <2>3, <2>4, <3>1
    <3> QED
      BY <3>1, <3>2
  <2> QED
    BY <1>5, <2>2, <2>4, <2>5, <2>6, <2>7, <2>8 DEF IsLifted
<1>6. ASSUME ~Under(n, g, p) PROVE IsLifted(n, g, p, Lift(g, p))
  <2>1. Lift(g, p) = p
    BY <1>2, <1>4, <1>6, <1>s DEF Lift
  <2> QED
    BY <1>6, <2>1 DEF IsLifted
<1>7. Len(g) = n + 1
  BY <1>0, <1>n
<1>8. IsLifted(n, g, p, Lift(g, p))
  BY <1>5, <1>6
<1> QED
  BY <1>7, <1>8

\* Lifting keeps the order.
LEMMA LiftKeepsOrder ==
  ASSUME NEW g \in Path, NEW p \in Path, NEW q \in Path,
         LeftOf(p, g) \/ LeftOf(g, p), LeftOf(q, g) \/ LeftOf(g, q), LeftOf(p, q)
  PROVE  LeftOf(Lift(g, p), Lift(g, q))
<1>0. /\ Len(p) \in Nat /\ DOMAIN p = 1 .. Len(p) /\ \A i \in 1 .. Len(p) : p[i] \in {0, 1}
      /\ Len(q) \in Nat /\ DOMAIN q = 1 .. Len(q) /\ \A i \in 1 .. Len(q) : q[i] \in {0, 1}
      /\ Len(g) \in Nat /\ DOMAIN g = 1 .. Len(g) /\ \A i \in 1 .. Len(g) : g[i] \in {0, 1}
  BY PathShape
<1>1. PICK k \in DOMAIN p \cap DOMAIN q : p[k] < q[k] /\ \A j \in 1 .. k - 1 : p[j] = q[j]
  BY DEF LeftOf
<1>u. PICK u : u = Lift(g, p)
  OBVIOUS
<1>v. PICK v : v = Lift(g, q)
  OBVIOUS
<1>n. PICK n \in Nat : Len(g) = n + 1 /\ IsLifted(n, g, p, u)
  BY <1>u, LiftedPath
<1>m. PICK m \in Nat : Len(g) = m + 1 /\ IsLifted(m, g, q, v)
  BY <1>v, LiftedPath
<1>nm. m = n
  BY <1>n, <1>m
<1>2. /\ u \in Path
      /\ ~Under(n, g, p) => u = p
      /\ Under(n, g, p) => /\ n + 1 <= Len(p) /\ p[n + 1] = 1 - g[n + 1]
                           /\ Len(u) = Len(p) - 1
                           /\ \A j \in 1 .. n : u[j] = p[j]
                           /\ \A j \in n + 2 .. Len(p) : u[j - 1] = p[j]
  BY <1>n DEF IsLifted
<1>3. /\ v \in Path
      /\ ~Under(n, g, q) => v = q
      /\ Under(n, g, q) => /\ n + 1 <= Len(q) /\ q[n + 1] = 1 - g[n + 1]
                           /\ Len(v) = Len(q) - 1
                           /\ \A j \in 1 .. n : v[j] = q[j]
                           /\ \A j \in n + 2 .. Len(q) : v[j - 1] = q[j]
  BY <1>m, <1>nm DEF IsLifted
<1>4. Under(n, g, p) <=> n <= Len(p) /\ \A j \in 1 .. n : p[j] = g[j]
  BY DEF Under
<1>5. Under(n, g, q) <=> n <= Len(q) /\ \A j \in 1 .. n : q[j] = g[j]
  BY DEF Under
<1>6. k \in 1 .. Len(p) /\ k \in 1 .. Len(q) /\ DOMAIN u = 1 .. Len(u) /\ DOMAIN v = 1 .. Len(v)
  BY <1>0, <1>1, <1>2, <1>3, PathShape
<1> SUFFICES \E i \in DOMAIN u \cap DOMAIN v : u[i] < v[i] /\ \A j \in 1 .. i - 1 : u[j] = v[j]
  BY <1>u, <1>v DEF LeftOf
<1>7. CASE Under(n, g, p) /\ Under(n, g, q)
  <2>1. k > n + 1
    <3>1. p[n + 1] = q[n + 1] /\ \A j \in 1 .. n : p[j] = q[j]
      BY <1>2, <1>3, <1>4, <1>5, <1>7
    <3>2. p[n + 1] \in {0, 1}
      BY <1>0, <1>2, <1>7
    <3>3. k # n + 1
      BY <1>1, <3>1, <3>2
    <3>4. k \notin 1 .. n
      <4>1. p[k] # q[k]
        BY <1>0, <1>1, <1>6
      <4> QED
        BY <3>1, <4>1
    <3> QED
      BY <1>6, <3>3, <3>4
  <2>2. k - 1 \in DOMAIN u \cap DOMAIN v
    BY <1>0, <1>2, <1>3, <1>6, <1>7, <2>1
  <2>3. u[k - 1] < v[k - 1]
    <3>1. k \in n + 2 .. Len(p) /\ k \in n + 2 .. Len(q)
      BY <1>0, <1>6, <2>1
    <3> QED
      BY <1>1, <1>2, <1>3, <1>7, <3>1
  <2>4. \A j \in 1 .. (k - 1) - 1 : u[j] = v[j]
    <3> TAKE j \in 1 .. (k - 1) - 1
    <3>1. CASE j <= n
      <4>1. j \in 1 .. n /\ j \in 1 .. k - 1
        BY <1>6, <3>1
      <4> QED
        BY <1>1, <1>2, <1>3, <1>7, <4>1
    <3>2. CASE j > n
      <4>1. /\ j + 1 \in n + 2 .. Len(p) /\ j + 1 \in n + 2 .. Len(q) /\ (j + 1) - 1 = j
            /\ j + 1 \in 1 .. k - 1
        BY <1>0, <1>6, <3>2
      <4>2. u[(j + 1) - 1] = p[j + 1] /\ v[(j + 1) - 1] = q[j + 1] /\ p[j + 1] = q[j + 1]
        BY <1>1, <1>2, <1>3, <1>7, <4>1
      <4> QED
        BY <4>1, <4>2
    <3> QED
      BY <1>6, <3>1, <3>2
  <2> QED
    BY <2>2, <2>3, <2>4
<1>8. CASE Under(n, g, p) /\ ~Under(n, g, q)
  <2>1. k <= n
    <3>1. ASSUME k > n PROVE FALSE
      <4>1. n <= Len(q) /\ \A j \in 1 .. n : j \in 1 .. k - 1
        BY <1>0, <1>6, <3>1
      <4>2. \A j \in 1 .. n : q[j] = g[j]
        BY <1>1, <1>4, <1>8, <4>1
      <4> QED
        BY <1>5, <1>8, <4>1, <4>2
    <3> QED
      BY <1>6, <3>1
  <2>2. k \in 1 .. n /\ \A j \in 1 .. k - 1 : j \in 1 .. n
    BY <1>6, <2>1
  <2>3. k \in DOMAIN u \cap DOMAIN v
    <3>1. k \in 1 .. Len(q) /\ v = q /\ k <= Len(p) - 1 /\ Len(u) = Len(p) - 1
      <4>1. Len(u) = Len(p) - 1 /\ n + 1 <= Len(p)
        BY <1>2, <1>8
      <4>2. v = q /\ k \in 1 .. Len(q)
        BY <1>2, <1>3, <1>6, <1>8
      <4>3. k <= Len(p) - 1
        BY <1>0, <2>2, <4>1
      <4> QED
        BY <4>1, <4>2, <4>3
    <3> QED
      BY <1>0, <1>6, <3>1
  <2> QED
    BY <1>1, <1>2, <1>3, <1>8, <2>2, <2>3
<1>9. CASE ~Under(n, g, p) /\ Under(n, g, q)
  <2>1. k <= n
    <3>1. ASSUME k > n PROVE FALSE
      <4>1. n <= Len(p) /\ \A j \in 1 .. n : j \in 1 .. k - 1
        BY <1>0, <1>6, <3>1
      <4>2. \A j \in 1 .. n : p[j] = g[j]
        BY <1>1, <1>5, <1>9, <4>1
      <4> QED
        BY <1>4, <1>9, <4>1, <4>2
    <3> QED
      BY <1>6, <3>1
  <2>2. k \in 1 .. n /\ \A j \in 1 .. k - 1 : j \in 1 .. n
    BY <1>6, <2>1
  <2>3. k \in DOMAIN u \cap DOMAIN v
    <3>1. k \in 1 .. Len(p) /\ u = p /\ k <= Len(q) - 1 /\ Len(v) = Len(q) - 1
      <4>1. Len(v) = Len(q) - 1 /\ n + 1 <= Len(q)
        BY <1>3, <1>9
      <4>2. u = p /\ k \in 1 .. Len(p)
        BY <1>2, <1>3, <1>6, <1>9
      <4>3. k <= Len(q) - 1
        BY <1>0, <2>2, <4>1
      <4> QED
        BY <4>1, <4>2, <4>3
    <3> QED
      BY <1>0, <1>6, <3>1
  <2> QED
    BY <1>1, <1>2, <1>3, <1>9, <2>2, <2>3
<1>10. CASE ~Under(n, g, p) /\ ~Under(n, g, q)
  BY <1>1, <1>2, <1>3, <1>10
<1> QED
  BY <1>7, <1>8, <1>9, <1>10

LEMMA NoTreeIsTree == Tree(NoTree) /\ Leaves(NoTree) = {}
<1>1. PICK e : e = NoTree
  OBVIOUS
<1>2. DOMAIN e = {} /\ e = [p \in DOMAIN e |-> e[p]]
  BY <1>1 DEF NoTree
<1>3. IsFiniteSet({})
  BY FS_EmptySet
<1>4. Tree(e) /\ Leaves(e) = {}
  BY <1>2, <1>3 DEF Tree, Leaves, Range
<1> QED
  BY <1>1, <1>4

\* Removing a pane keeps the tree and all other panes in it.
LEMMA RemoveKeepsTree ==
  ASSUME NEW t, Tree(t), NEW target
  PROVE  /\ Tree(RemovePane(t, target))
         /\ Leaves(RemovePane(t, target)) = Leaves(t) \ {target}
<1>1. CASE target \notin Leaves(t)
  BY <1>1 DEF RemovePane
<1>2. CASE target \in Leaves(t)
  <2> DEFINE g == CHOOSE path \in DOMAIN t : t[path] = target
             kept == DOMAIN t \ {g}
  <2>1. g \in DOMAIN t /\ t[g] = target
    BY <1>2 DEF Leaves, Range
  <2>2. /\ t = [p \in DOMAIN t |-> t[p]] /\ DOMAIN t \subseteq Path /\ IsFiniteSet(DOMAIN t)
        /\ \A p, q \in DOMAIN t : Ordered(p, q)
        /\ \A p, q \in DOMAIN t : t[p] = t[q] => p = q
    BY DEF Tree
  <2>3. Leaves(t) \ {target} = {t[p] : p \in kept}
    BY <2>1, <2>2 DEF Leaves, Range
  <2>4. RemovePane(t, target) =
          IF kept = {} THEN NoTree
          ELSE [path \in {Lift(g, p) : p \in kept} |-> t[CHOOSE p \in kept : Lift(g, p) = path]]
    BY <1>2 DEF RemovePane, Lift
  <2>k. kept = DOMAIN t \ {g}
    OBVIOUS
  <2> HIDE DEF g, kept
  <2>5. CASE kept = {}
    BY <2>3, <2>4, <2>5, NoTreeIsTree
  <2>6. CASE kept # {}
    <3>1. \A p \in kept : p \in Path /\ g \in Path /\ (LeftOf(p, g) \/ LeftOf(g, p))
      BY <2>1, <2>2, <2>k DEF Ordered
    <3>2. \A p, q \in kept : LeftOf(p, q) => LeftOf(Lift(g, p), Lift(g, q))
      BY <3>1, LiftKeepsOrder
    <3>3. \A p \in kept : Lift(g, p) \in Path
      <4> TAKE p \in kept
      <4>1. PICK n \in Nat : IsLifted(n, g, p, Lift(g, p))
        BY <3>1, LiftedPath
      <4> QED
        BY <4>1 DEF IsLifted
    <3>4. \A p, q \in kept : p = q \/ LeftOf(p, q) \/ LeftOf(q, p)
      BY <2>2, <2>k DEF Ordered
    <3>5. \A p, q \in kept : Lift(g, p) = Lift(g, q) => p = q
      BY <3>2, <3>3, <3>4, LeftOfIsStrict
    <3>d. PICK dom : dom = {Lift(g, p) : p \in kept}
      OBVIOUS
    <3>v. PICK v : v = [path \in dom |-> t[CHOOSE p \in kept : Lift(g, p) = path]]
      OBVIOUS
    <3>6. v = RemovePane(t, target) /\ DOMAIN v = dom /\ v = [p \in DOMAIN v |-> v[p]]
      BY <2>4, <2>6, <3>d, <3>v
    <3>7. \A p \in kept : Lift(g, p) \in dom /\ v[Lift(g, p)] = t[p]
      <4> TAKE p \in kept
      <4>1. Lift(g, p) \in dom
        BY <3>d
      <4>2. (CHOOSE q \in kept : Lift(g, q) = Lift(g, p)) = p
        BY <3>5
      <4> QED
        BY <3>v, <4>1, <4>2
    <3>8. \A x \in dom : \E p \in kept : x = Lift(g, p)
      BY <3>d
    <3>9. DOMAIN v \subseteq Path
      BY <3>3, <3>6, <3>8
    <3>10. IsFiniteSet(DOMAIN v)
      <4>1. IsFiniteSet(kept)
        BY <2>2, <2>k, FS_Subset
      <4>2. PICK f : f = [p \in kept |-> Lift(g, p)]
        OBVIOUS
      <4>3. f \in Surjection(kept, dom)
        BY <3>7, <3>8, <4>2 DEF Surjection
      <4> QED
        BY <3>6, <4>1, <4>3, FS_Surjection
    <3>11. \A x, y \in DOMAIN v : Ordered(x, y)
      BY <3>2, <3>4, <3>6, <3>8 DEF Ordered
    <3>12. \A x, y \in DOMAIN v : v[x] = v[y] => x = y
      BY <2>2, <2>k, <3>6, <3>7, <3>8
    <3>13. Leaves(v) = {t[p] : p \in kept}
      BY <3>6, <3>7, <3>8 DEF Leaves, Range
    <3> QED
      BY <2>3, <3>6, <3>9, <3>10, <3>11, <3>12, <3>13 DEF Tree
  <2> QED
    BY <2>5, <2>6
<1> QED
  BY <1>1, <1>2

LEMMA LeafIsTree == ASSUME NEW id PROVE Tree(Leaf(id)) /\ Leaves(Leaf(id)) = {id}
<1>1. PICK e : e = Leaf(id)
  OBVIOUS
<1>2. DOMAIN e = {<<>>} /\ e = [p \in {<<>>} |-> id]
  BY <1>1 DEF Leaf
<1>3. IsFiniteSet({<<>>}) /\ <<>> \in Path
  <2>1. \A x : IsFiniteSet({x})
    BY FS_Singleton
  <2>2. <<>> \in Path
    BY DEF Path
  <2> QED
    BY <2>1, <2>2
<1>4. Tree(e) /\ Leaves(e) = {id}
  BY <1>2, <1>3 DEF Tree, Leaves, Range, Ordered
<1> QED
  BY <1>1, <1>4

-----------------------------------------------------------------------------
(* What a pane holds.                                                      *)

List(q) == \E S : q \in Seq(S)

LEMMA ListShape ==
  ASSUME NEW q, List(q)
  PROVE  /\ Len(q) \in Nat /\ DOMAIN q = 1 .. Len(q) /\ q \in Seq(Range(q))
         /\ Len(q) = 0 => q = <<>> /\ Range(q) = {}
<1>1. PICK S : q \in Seq(S)
  BY DEF List
<1>2. Len(q) \in Nat /\ DOMAIN q = 1 .. Len(q) /\ q = [i \in 1 .. Len(q) |-> q[i]]
  BY <1>1
<1>3. \A i \in 1 .. Len(q) : q[i] \in Range(q)
  BY <1>2 DEF Range
<1>4. PICK n \in Nat : n = Len(q)
  BY <1>2
<1>5. PICK f : f = [i \in 1 .. n |-> q[i]]
  OBVIOUS
<1>6. f \in [1 .. n -> Range(q)] /\ f = q
  BY <1>2, <1>3, <1>4, <1>5
<1>7. f \in Seq(Range(q))
  BY <1>6, SeqDef
<1>8. Len(q) = 0 => q = <<>>
  BY <1>1
<1>9. Len(q) = 0 => Range(q) = {}
  BY <1>2 DEF Range
<1> QED
  BY <1>2, <1>6, <1>7, <1>8, <1>9

LEMMA ListRemoval ==
  ASSUME NEW q, List(q), NEW i \in DOMAIN q
  PROVE  /\ List(RemoveAt(q, i)) /\ Len(RemoveAt(q, i)) = Len(q) - 1 /\ Len(q) >= 1
         /\ \A j \in 1 .. Len(q) - 1 : RemoveAt(q, i)[j] = IF j < i THEN q[j] ELSE q[j + 1]
<1>1. PICK S : q \in Seq(S)
  BY DEF List
<1>2. PICK n \in Nat : n = Len(q)
  BY <1>1
<1>3. i \in 1 .. n
  BY <1>1, <1>2
<1>4. PICK a : a = SubSeq(q, 1, i - 1)
  OBVIOUS
<1>5. PICK b : b = SubSeq(q, i + 1, n)
  OBVIOUS
<1>6. \A j \in 1 .. n : q[j] \in S
  BY <1>1, <1>2
<1>7. a \in Seq(S) /\ Len(a) = i - 1 /\ \A j \in 1 .. i - 1 : a[j] = q[j]
  <2>1. 1 \in Int /\ i - 1 \in Int /\ \A j \in 1 .. i - 1 : q[j] \in S
    BY <1>3, <1>6
  <2>2. /\ a \in Seq(S) /\ Len(a) = IF 1 <= i - 1 THEN i - 1 - 1 + 1 ELSE 0
        /\ \A j \in 1 .. i - 1 - 1 + 1 : a[j] = q[1 + j - 1]
    BY <1>4, <2>1, SubSeqProperties
  <2> QED
    BY <1>3, <2>2
<1>8. b \in Seq(S) /\ Len(b) = n - i /\ \A j \in 1 .. n - i : b[j] = q[i + j]
  <2>1. i + 1 \in Int /\ n \in Int /\ \A j \in i + 1 .. n : q[j] \in S
    BY <1>3, <1>6
  <2>2. /\ b \in Seq(S) /\ Len(b) = IF i + 1 <= n THEN n - (i + 1) + 1 ELSE 0
        /\ \A j \in 1 .. n - (i + 1) + 1 : b[j] = q[i + 1 + j - 1]
    BY <1>5, <2>1, SubSeqProperties
  <2> QED
    BY <1>3, <2>2
<1>9. PICK r : r = a \o b
  OBVIOUS
<1>10. /\ r \in Seq(S) /\ Len(r) = Len(a) + Len(b)
       /\ \A j \in 1 .. Len(a) + Len(b) : r[j] = IF j <= Len(a) THEN a[j] ELSE b[j - Len(a)]
  BY <1>7, <1>8, <1>9, ConcatProperties
<1>11. Len(r) = n - 1
  BY <1>3, <1>7, <1>8, <1>10
<1>12. \A j \in 1 .. n - 1 : r[j] = IF j < i THEN q[j] ELSE q[j + 1]
  <2> TAKE j \in 1 .. n - 1
  <2>1. j \in 1 .. Len(a) + Len(b)
    BY <1>3, <1>7, <1>8
  <2>2. CASE j < i
    BY <1>3, <1>7, <1>10, <2>1, <2>2
  <2>3. CASE ~(j < i)
    <3>1. j - (i - 1) \in 1 .. n - i /\ i + (j - (i - 1)) = j + 1 /\ ~(j <= i - 1)
      BY <1>3, <2>3
    <3> QED
      BY <1>7, <1>8, <1>10, <2>1, <2>3, <3>1
  <2> QED
    BY <2>2, <2>3
<1>13. RemoveAt(q, i) = r
  BY <1>2, <1>4, <1>5, <1>9 DEF RemoveAt
<1> QED
  BY <1>2, <1>3, <1>10, <1>11, <1>12, <1>13 DEF List

\* A list in which each element stands once: removing and appending.
Once(q) == \A i, j \in DOMAIN q : q[i] = q[j] => i = j

LEMMA OnceWithout ==
  ASSUME NEW q, List(q), Once(q), NEW i \in DOMAIN q
  PROVE  /\ Once(RemoveAt(q, i))
         /\ Range(RemoveAt(q, i)) = Range(q) \ {q[i]}
<1>1. PICK n \in Nat : n = Len(q)
  BY ListShape
<1>2. PICK r : r = RemoveAt(q, i)
  OBVIOUS
<1>3. DOMAIN q = 1 .. n /\ DOMAIN r = 1 .. n - 1 /\ i \in 1 .. n
  BY <1>1, <1>2, ListRemoval, ListShape
<1>4. \A j \in 1 .. n - 1 : r[j] = IF j < i THEN q[j] ELSE q[j + 1]
  BY <1>1, <1>2, ListRemoval
<1>5. \A j, k \in 1 .. n - 1 : r[j] = r[k] => j = k
  <2> TAKE j, k \in 1 .. n - 1
  <2> HAVE r[j] = r[k]
  <2> DEFINE a == IF j < i THEN j ELSE j + 1
             b == IF k < i THEN k ELSE k + 1
  <2>1. a \in 1 .. n /\ b \in 1 .. n
    BY <1>3
  <2>2. r[j] = q[a] /\ r[k] = q[b]
    BY <1>4
  <2>3. a = b
    <3> HIDE DEF a, b
    <3> QED
      BY <1>3, <2>1, <2>2 DEF Once
  <2> QED
    BY <1>3, <2>3
<1>6. \A j \in 1 .. n - 1 : r[j] \in Range(q) /\ r[j] # q[i]
  <2> TAKE j \in 1 .. n - 1
  <2>1. PICK a : a = IF j < i THEN j ELSE j + 1
    OBVIOUS
  <2>2. a \in 1 .. n /\ a # i
    BY <1>3, <2>1
  <2>3. r[j] = q[a]
    BY <1>4, <2>1
  <2>4. q[a] # q[i] /\ q[a] \in Range(q)
    BY <1>3, <2>2 DEF Once, Range
  <2> QED
    BY <2>3, <2>4
<1>7. \A k \in 1 .. n : k # i => \E j \in 1 .. n - 1 : r[j] = q[k]
  <2> TAKE k \in 1 .. n
  <2>1. CASE k < i
    <3>1. k \in 1 .. n - 1
      BY <1>3, <2>1
    <3> QED
      BY <1>4, <2>1, <3>1
  <2>2. CASE i < k
    <3>1. k - 1 \in 1 .. n - 1 /\ ~(k - 1 < i) /\ (k - 1) + 1 = k
      BY <1>3, <2>2
    <3> QED
      BY <1>4, <3>1
  <2> QED
    BY <1>3, <2>1, <2>2
<1>8. Range(r) = Range(q) \ {q[i]}
  BY <1>3, <1>6, <1>7 DEF Range
<1> QED
  BY <1>2, <1>3, <1>5, <1>8 DEF Once

LEMMA ListAppend ==
  ASSUME NEW q, List(q), NEW x
  PROVE  /\ List(Append(q, x)) /\ Len(Append(q, x)) = Len(q) + 1
         /\ Range(Append(q, x)) = Range(q) \cup {x}
         /\ Once(q) /\ x \notin Range(q) => Once(Append(q, x))
<1>1. PICK n \in Nat : n = Len(q)
  BY ListShape
<1> DEFINE S == Range(q) \cup {x}
<1>2. q \in Seq(S) /\ x \in S
  <2>1. q \in Seq(Range(q)) /\ Range(q) \subseteq S
    BY ListShape
  <2> QED
    BY <2>1, SeqMonotonic
<1>3. PICK r : r = Append(q, x)
  OBVIOUS
<1>4. r \in Seq(S) /\ Len(r) = n + 1 /\ r[n + 1] = x /\ \A j \in 1 .. n : r[j] = q[j]
  BY <1>1, <1>2, <1>3, AppendProperties
<1>5. DOMAIN q = 1 .. n /\ DOMAIN r = 1 .. n + 1
  BY <1>1, <1>4, ListShape
<1>6. Range(r) = S
  BY <1>4, <1>5 DEF Range
<1>7. ASSUME Once(q), x \notin Range(q) PROVE Once(r)
  <2>1. \A j \in 1 .. n : q[j] # x
    BY <1>5, <1>7 DEF Range
  <2>2. \A j, k \in 1 .. n + 1 : r[j] = r[k] => j = k
    BY <1>4, <1>5, <1>7, <2>1 DEF Once
  <2> QED
    BY <1>5, <2>2 DEF Once
<1> QED
  BY <1>1, <1>3, <1>4, <1>6, <1>7 DEF List

-----------------------------------------------------------------------------
(* Panes.                                                                  *)

Kinds == {"Editor", "Terminal", "MarkdownPreview"}
IsPane(p) ==
    /\ p = [kind |-> p.kind, tabs |-> p.tabs, terms |-> p.terms, shown |-> p.shown]
    /\ p.kind \in Kinds /\ List(p.tabs) /\ List(p.terms) /\ Once(p.terms)
    /\ p.kind # "Terminal" => p.terms = <<>>
    /\ p.shown \in Nat \ {0}
    /\ p.kind # "MarkdownPreview" => p.shown <= Len(Items(p))
Terms(p) == Range(p.terms)

LEMMA PaneItems ==
  ASSUME NEW p, IsPane(p)
  PROVE  /\ List(Items(p)) /\ Len(Items(p)) \in Nat /\ DOMAIN Items(p) = 1 .. Len(Items(p))
         /\ p.kind = "Terminal" => Items(p) = p.terms
         /\ p.kind # "Terminal" => Items(p) = p.tabs /\ Terms(p) = {}
         /\ p.kind # "MarkdownPreview" => p.shown \in DOMAIN Items(p)
<1>1. List(Items(p))
  BY DEF IsPane, Items
<1>2. Len(Items(p)) \in Nat /\ DOMAIN Items(p) = 1 .. Len(Items(p))
  BY <1>1, ListShape
<1>3. p.kind # "Terminal" => Terms(p) = {}
  BY DEF IsPane, Terms, Range
<1> QED
  BY <1>1, <1>2, <1>3 DEF IsPane, Items

LEMMA NewPanesArePanes ==
  ASSUME NEW x
  PROVE  /\ IsPane(EditorPane(x)) /\ Terms(EditorPane(x)) = {} /\ EditorPane(x).kind = "Editor"
         /\ IsPane(TerminalPane(x)) /\ Terms(TerminalPane(x)) = {x}
         /\ TerminalPane(x).kind = "Terminal"
         /\ LET p == NewPane("MarkdownPreview", <<>>, <<>>)
            IN  IsPane(p) /\ Terms(p) = {} /\ p.kind = "MarkdownPreview"
<1> USE DEF NewPane, Kinds
<1>1. PICK e : e = <<>>
  OBVIOUS
<1>2. PICK q : q = <<x>>
  OBVIOUS
<1>3. e \in Seq({}) /\ Len(e) = 0 /\ DOMAIN e = {}
  BY <1>1
<1>4. q \in Seq({x}) /\ Len(q) = 1 /\ DOMAIN q = {1} /\ q[1] = x
  BY <1>2
<1>5. List(e) /\ Once(e) /\ Range(e) = {} /\ List(q) /\ Once(q) /\ Range(q) = {x}
  BY <1>3, <1>4 DEF List, Once, Range
<1>6. IsPane(EditorPane(x)) /\ Terms(EditorPane(x)) = {} /\ EditorPane(x).kind = "Editor"
  BY <1>1, <1>2, <1>4, <1>5 DEF IsPane, Terms, EditorPane, Items
<1>7. IsPane(TerminalPane(x)) /\ Terms(TerminalPane(x)) = {x} /\ TerminalPane(x).kind = "Terminal"
  BY <1>1, <1>2, <1>4, <1>5 DEF IsPane, Terms, TerminalPane, Items
<1>8. LET p == NewPane("MarkdownPreview", <<>>, <<>>)
      IN  IsPane(p) /\ Terms(p) = {} /\ p.kind = "MarkdownPreview"
  BY <1>1, <1>5 DEF IsPane, Terms, Items
<1> QED
  BY <1>6, <1>7, <1>8

\* A tab or terminal is taken from a pane that has another one.
LEMMA RemovedIsPane ==
  ASSUME NEW p, IsPane(p), p.kind # "MarkdownPreview",
         NEW i \in DOMAIN Items(p), Len(Items(p)) > 1
  PROVE  /\ IsPane(Removed(p, i)) /\ Removed(p, i).kind = p.kind
         /\ Terms(Removed(p, i)) = IF p.kind = "Terminal" THEN Terms(p) \ {Items(p)[i]} ELSE Terms(p)
<1>1. PICK q : q = Items(p)
  OBVIOUS
<1>2. PICK r : r = RemoveAt(q, i)
  OBVIOUS
<1>3. PICK n \in Nat : n = Len(q)
  BY <1>1, PaneItems
<1>4. List(q) /\ List(r) /\ Len(r) = n - 1 /\ n > 1 /\ i \in DOMAIN q
  BY <1>1, <1>2, <1>3, PaneItems, ListRemoval
<1>5. PICK k : k = Clamp(p.shown, Len(r))
  OBVIOUS
<1>6. p.shown \in Nat \ {0} /\ p.shown <= n
  BY <1>1, <1>3 DEF IsPane
<1>7. k \in Nat \ {0} /\ k <= Len(r)
  BY <1>4, <1>5, <1>6 DEF Clamp
<1>8. CASE p.kind = "Terminal"
  <2>1. Removed(p, i) = [kind |-> p.kind, tabs |-> p.tabs, terms |-> r, shown |-> k]
    <3>1. PICK w : w = WithItems(p, r)
      OBVIOUS
    <3>2. w = [kind |-> p.kind, tabs |-> p.tabs, terms |-> r, shown |-> p.shown]
      BY <1>8, <3>1 DEF WithItems, IsPane
    <3>3. Removed(p, i) = [w EXCEPT !.shown = Clamp(@, Len(r))]
      BY <1>1, <1>2, <3>1 DEF Removed
    <3> QED
      BY <1>5, <3>2, <3>3
  <2>2. q = p.terms
    BY <1>1, <1>8 DEF Items
  <2>3. Once(r) /\ Range(r) = Range(q) \ {q[i]}
    BY <1>2, <1>4, <2>2, OnceWithout DEF IsPane
  <2>4. PICK w : w = Removed(p, i)
    OBVIOUS
  <2>5. IsPane(w)
    BY <1>4, <1>7, <1>8, <2>1, <2>3, <2>4 DEF IsPane, Items
  <2> QED
    BY <1>1, <1>8, <2>1, <2>2, <2>3, <2>4, <2>5 DEF Terms
<1>9. CASE p.kind # "Terminal"
  <2>1. Removed(p, i) = [kind |-> p.kind, tabs |-> r, terms |-> p.terms, shown |-> k]
    <3>1. PICK w : w = WithItems(p, r)
      OBVIOUS
    <3>2. w = [kind |-> p.kind, tabs |-> r, terms |-> p.terms, shown |-> p.shown]
      BY <1>9, <3>1 DEF WithItems, IsPane
    <3>3. Removed(p, i) = [w EXCEPT !.shown = Clamp(@, Len(r))]
      BY <1>1, <1>2, <3>1 DEF Removed
    <3> QED
      BY <1>5, <3>2, <3>3
  <2>4. PICK w : w = Removed(p, i)
    OBVIOUS
  <2>5. IsPane(w)
    BY <1>4, <1>7, <1>9, <2>1, <2>4 DEF IsPane, Items
  <2> QED
    BY <1>1, <1>9, <2>1, <2>4, <2>5 DEF Terms
<1> QED
  BY <1>8, <1>9

\* A tab or terminal comes behind the others and is shown.
LEMMA AddedIsPane ==
  ASSUME NEW p, IsPane(p), p.kind # "MarkdownPreview", NEW x,
         p.kind = "Terminal" => x \notin Terms(p)
  PROVE  /\ IsPane(Added(p, x)) /\ Added(p, x).kind = p.kind
         /\ Terms(Added(p, x)) = IF p.kind = "Terminal" THEN Terms(p) \cup {x} ELSE Terms(p)
<1>1. PICK q : q = Items(p)
  OBVIOUS
<1>2. PICK r : r = Append(q, x)
  OBVIOUS
<1>3. PICK n \in Nat : n = Len(q)
  BY <1>1, PaneItems
<1>4. List(q) /\ List(r) /\ Len(r) = n + 1 /\ Range(r) = Range(q) \cup {x}
      /\ (Once(q) /\ x \notin Range(q) => Once(r))
  BY <1>1, <1>2, <1>3, PaneItems, ListAppend
<1>8. CASE p.kind = "Terminal"
  <2>1. Added(p, x) = [kind |-> p.kind, tabs |-> p.tabs, terms |-> r, shown |-> n + 1]
    <3>1. PICK w : w = WithItems(p, r)
      OBVIOUS
    <3>2. w = [kind |-> p.kind, tabs |-> p.tabs, terms |-> r, shown |-> p.shown]
      BY <1>8, <3>1 DEF WithItems, IsPane
    <3>3. Added(p, x) = [w EXCEPT !.shown = n + 1]
      BY <1>1, <1>2, <1>3, <3>1 DEF Added
    <3> QED
      BY <3>2, <3>3
  <2>2. q = p.terms
    BY <1>1, <1>8 DEF Items
  <2>3. Once(r)
    BY <1>4, <1>8, <2>2 DEF IsPane, Terms
  <2>4. PICK w : w = Added(p, x)
    OBVIOUS
  <2>5. IsPane(w)
    BY <1>4, <1>8, <2>1, <2>3, <2>4 DEF IsPane, Items
  <2> QED
    BY <1>4, <1>8, <2>1, <2>2, <2>4, <2>5 DEF Terms
<1>9. CASE p.kind # "Terminal"
  <2>1. Added(p, x) = [kind |-> p.kind, tabs |-> r, terms |-> p.terms, shown |-> n + 1]
    <3>1. PICK w : w = WithItems(p, r)
      OBVIOUS
    <3>2. w = [kind |-> p.kind, tabs |-> r, terms |-> p.terms, shown |-> p.shown]
      BY <1>9, <3>1 DEF WithItems, IsPane
    <3>3. Added(p, x) = [w EXCEPT !.shown = n + 1]
      BY <1>1, <1>2, <1>3, <3>1 DEF Added
    <3> QED
      BY <3>2, <3>3
  <2>4. PICK w : w = Added(p, x)
    OBVIOUS
  <2>5. IsPane(w)
    BY <1>4, <1>9, <2>1, <2>4 DEF IsPane, Items
  <2> QED
    BY <1>9, <2>1, <2>4, <2>5 DEF Terms
<1> QED
  BY <1>8, <1>9

\* A tab takes the place of the blank one, or comes behind the others.
LEMMA PutIsPane ==
  ASSUME NEW p, IsPane(p), p.kind = "Editor", NEW tab
  PROVE  IsPane(Put(p, tab)) /\ Put(p, tab).kind = "Editor" /\ Terms(Put(p, tab)) = {}
<1>1. Terms(p) = {} /\ Items(p) = p.tabs /\ p.shown \in DOMAIN p.tabs
  BY PaneItems
<1>2. CASE p.tabs[p.shown].kind = "blank"
  <2>1. PICK q : q = [p.tabs EXCEPT ![p.shown] = tab]
    OBVIOUS
  <2>2. Put(p, tab) = [kind |-> p.kind, tabs |-> q, terms |-> p.terms, shown |-> p.shown]
    BY <1>2, <2>1 DEF Put, IsPane
  <2>3. List(q) /\ Len(q) = Len(p.tabs)
    <3>1. PICK S : p.tabs \in Seq(S)
      BY DEF IsPane, List
    <3>2. p.tabs \in Seq(S \cup {tab}) /\ p.shown \in 1 .. Len(p.tabs)
      <4>1. p.tabs \in Seq(S \cup {tab})
        BY <3>1, SeqMonotonic
      <4>2. DOMAIN p.tabs = 1 .. Len(p.tabs)
        BY <3>1
      <4> QED
        BY <1>1, <4>1, <4>2
    <3>3. q \in Seq(S \cup {tab}) /\ Len(q) = Len(p.tabs)
      BY <2>1, <3>2, ExceptSeq
    <3> QED
      BY <3>3 DEF List
  <2>4. PICK w : w = Put(p, tab)
    OBVIOUS
  <2>5. IsPane(w)
    BY <2>2, <2>3, <2>4 DEF IsPane, Items
  <2> QED
    BY <1>1, <2>2, <2>4, <2>5 DEF Terms
<1>3. CASE p.tabs[p.shown].kind # "blank"
  <2>1. Put(p, tab) = Added(p, tab)
    BY <1>3 DEF Put
  <2> QED
    BY <1>1, <2>1, AddedIsPane
<1> QED
  BY <1>2, <1>3

\* Closing diffs leaves a list of tabs.
Undiffing == INSTANCE FoldFacts WITH
    Op <- LAMBDA k, kept, tab : IF tab.kind = "GitDiff" THEN kept ELSE Append(kept, tab)

LEMMA UndiffingFolds == ASSUME NEW q PROVE WithoutDiffs(q) = Undiffing!Fold(0, <<>>, q)
  BY DEF WithoutDiffs, FoldLeft, MapThenFoldSet, Max, Undiffing!Fold, Undiffing!Iterates, Undiffing!Top

LEMMA UndiffedIsList == ASSUME NEW q, List(q) PROVE List(WithoutDiffs(q))
<1>1. PICK S : q \in Seq(S)
  BY DEF List
<1>2. PICK V : V = Seq(S)
  OBVIOUS
<1>3. <<>> \in V /\ \A a \in V, m \in S :
        (IF m.kind = "GitDiff" THEN a ELSE Append(a, m)) \in V
  BY <1>2
<1>4. Undiffing!Fold(0, <<>>, q) \in V
  <2> HIDE DEF List
  <2> QED
    BY <1>1, <1>3, Undiffing!FoldKeeps
<1> QED
  BY <1>2, <1>4, UndiffingFolds DEF List

Cleaned(p) ==
    LET kept == WithoutDiffs(p.tabs)
        last == IF kept = <<>> THEN 1 ELSE Len(kept)
    IN  [p EXCEPT !.tabs = IF kept = <<>> THEN <<AnyTab("blank")>> ELSE kept,
                  !.shown = IF @ > last THEN last ELSE @]

LEMMA CleanedIsPane ==
  ASSUME NEW p, IsPane(p)
  PROVE  IsPane(Cleaned(p)) /\ Cleaned(p).kind = p.kind /\ Cleaned(p).terms = p.terms
<1>1. PICK kept : kept = WithoutDiffs(p.tabs)
  OBVIOUS
<1>2. List(kept)
  BY <1>1, UndiffedIsList DEF IsPane
<1>3. Len(kept) \in Nat /\ (Len(kept) = 0 => kept = <<>>)
  BY <1>2, ListShape
<1>4. PICK q : q = IF kept = <<>> THEN <<AnyTab("blank")>> ELSE kept
  OBVIOUS
<1>5. PICK last : last = IF kept = <<>> THEN 1 ELSE Len(kept)
  OBVIOUS
<1>6. List(q) /\ Len(q) = last /\ last \in Nat \ {0}
  <2>1. CASE kept = <<>>
    <3>1. PICK tab : tab = AnyTab("blank")
      OBVIOUS
    <3>2. PICK r : r = <<tab>>
      OBVIOUS
    <3>3. r \in Seq({tab}) /\ Len(r) = 1
      BY <3>2
    <3>4. List(r) /\ q = r /\ last = 1
      BY <1>4, <1>5, <2>1, <3>1, <3>2, <3>3 DEF List
    <3> QED
      BY <3>3, <3>4
  <2>2. CASE kept # <<>>
    BY <1>2, <1>3, <1>4, <1>5, <2>2
  <2> QED
    BY <2>1, <2>2
<1>7. PICK k : k = IF p.shown > last THEN last ELSE p.shown
  OBVIOUS
<1>8. k \in Nat \ {0} /\ k <= last /\ k <= p.shown
  BY <1>6, <1>7 DEF IsPane
<1>9. PICK w : w = Cleaned(p)
  OBVIOUS
<1>10. w = [kind |-> p.kind, tabs |-> q, terms |-> p.terms, shown |-> k]
  <2>1. w = [p EXCEPT !.tabs = q, !.shown = k]
    BY <1>1, <1>4, <1>5, <1>7, <1>9 DEF Cleaned
  <2> QED
    BY <2>1 DEF IsPane
<1>11. p.kind = "Terminal" => p.shown <= Len(p.terms) /\ Len(p.terms) \in Nat
  BY ListShape DEF IsPane, Items
<1>12. IsPane(w)
  BY <1>6, <1>8, <1>10, <1>11 DEF IsPane, Items
<1> QED
  BY <1>9, <1>10, <1>12

-----------------------------------------------------------------------------
(* All panes: each terminal in one of them.                                *)

TermsFit(ps, ts) ==
    /\ \A id \in DOMAIN ps : Terms(ps[id]) \subseteq ts
    /\ \A t \in ts : \E id \in DOMAIN ps : t \in Terms(ps[id])
    /\ \A a, b \in DOMAIN ps : \A t : t \in Terms(ps[a]) /\ t \in Terms(ps[b]) => a = b
TermsAt(ps, id) == IF id \in DOMAIN ps THEN Terms(ps[id]) ELSE {}
But(ps, id) == [other \in DOMAIN ps \ {id} |-> ps[other]]

LEMMA TermsAfter ==
  ASSUME NEW ps, NEW ts, TermsFit(ps, ts), NEW id, NEW p,
         \A t \in Terms(p) : t \in ts => t \in TermsAt(ps, id)
  PROVE  TermsFit(With(ps, id, p), (ts \ TermsAt(ps, id)) \cup Terms(p))
<1>1. PICK qs : qs = With(ps, id, p)
  OBVIOUS
<1>2. /\ DOMAIN qs = DOMAIN ps \cup {id} /\ qs[id] = p
      /\ \A other \in DOMAIN ps : other # id => qs[other] = ps[other]
  BY <1>1 DEF With
<1>3. TermsAt(ps, id) \subseteq ts
  BY DEF TermsAt, TermsFit
<1>4. \A other \in DOMAIN ps : other # id => Terms(ps[other]) \subseteq ts \ TermsAt(ps, id)
  BY DEF TermsAt, TermsFit
<1>5. \A other \in DOMAIN qs : Terms(qs[other]) \subseteq (ts \ TermsAt(ps, id)) \cup Terms(p)
  BY <1>2, <1>4
<1>6. \A t \in (ts \ TermsAt(ps, id)) \cup Terms(p) : \E other \in DOMAIN qs : t \in Terms(qs[other])
  <2> TAKE t \in (ts \ TermsAt(ps, id)) \cup Terms(p)
  <2>1. CASE t \in Terms(p)
    BY <1>2, <2>1
  <2>2. CASE t \in ts \ TermsAt(ps, id)
    <3>1. PICK other \in DOMAIN ps : t \in Terms(ps[other])
      BY <2>2 DEF TermsFit
    <3>2. other # id
      BY <2>2, <3>1 DEF TermsAt
    <3> QED
      BY <1>2, <3>1, <3>2
  <2> QED
    BY <2>1, <2>2
<1>7. ASSUME NEW a \in DOMAIN qs, NEW b \in DOMAIN qs, NEW t,
             t \in Terms(qs[a]), t \in Terms(qs[b])
      PROVE  a = b
  <2>1. \A c \in DOMAIN ps : c # id /\ t \in Terms(ps[c]) => t \notin Terms(p)
    BY <1>4
  <2>2. a # id => a \in DOMAIN ps /\ t \in Terms(ps[a])
    BY <1>2, <1>7
  <2>3. b # id => b \in DOMAIN ps /\ t \in Terms(ps[b])
    BY <1>2, <1>7
  <2>4. (a = id \/ b = id) => t \in Terms(p)
    BY <1>2, <1>7
  <2> QED
    BY <2>1, <2>2, <2>3, <2>4 DEF TermsFit
<1> QED
  BY <1>1, <1>5, <1>6, <1>7 DEF TermsFit

LEMMA TermsWithout ==
  ASSUME NEW ps, NEW ts, TermsFit(ps, ts), NEW id
  PROVE  TermsFit(But(ps, id), ts \ TermsAt(ps, id))
<1>1. PICK qs : qs = But(ps, id)
  OBVIOUS
<1>2. /\ DOMAIN qs = DOMAIN ps \ {id}
      /\ \A other \in DOMAIN qs : qs[other] = ps[other]
  BY <1>1 DEF But
<1>4. \A other \in DOMAIN ps : other # id => Terms(ps[other]) \subseteq ts \ TermsAt(ps, id)
  BY DEF TermsAt, TermsFit
<1>5. \A other \in DOMAIN qs : Terms(qs[other]) \subseteq ts \ TermsAt(ps, id)
  BY <1>2, <1>4
<1>6. \A t \in ts \ TermsAt(ps, id) : \E other \in DOMAIN qs : t \in Terms(qs[other])
  <2> TAKE t \in ts \ TermsAt(ps, id)
  <2>1. PICK other \in DOMAIN ps : t \in Terms(ps[other])
    BY DEF TermsFit
  <2>2. other # id
    BY <2>1 DEF TermsAt
  <2> QED
    BY <1>2, <2>1, <2>2
<1>7. \A a, b \in DOMAIN qs : \A t : t \in Terms(qs[a]) /\ t \in Terms(qs[b]) => a = b
  BY <1>2 DEF TermsFit
<1> QED
  BY <1>1, <1>5, <1>6, <1>7 DEF TermsFit

LEMMA TermsSame ==
  ASSUME NEW ps, NEW ts, TermsFit(ps, ts), NEW qs, DOMAIN qs = DOMAIN ps,
         \A id \in DOMAIN ps : Terms(qs[id]) = Terms(ps[id])
  PROVE  TermsFit(qs, ts)
  BY DEF TermsFit

-----------------------------------------------------------------------------
(* The window.                                                             *)

PanesOk(ps, n) ==
    /\ n \in Nat /\ ps = [id \in DOMAIN ps |-> ps[id]]
    /\ \A id \in DOMAIN ps : id \in 0 .. n - 1 /\ IsPane(ps[id])
LayoutOk(ps, tree, outs, at) ==
    /\ Tree(tree) /\ Leaves(tree) \subseteq DOMAIN ps
    /\ DOMAIN ps \ Leaves(tree) \subseteq outs /\ at \in Leaves(tree)
PreviewsOk(ps, pv) ==
    /\ pv = [id \in DOMAIN pv |-> pv[id]]
    /\ DOMAIN pv = {id \in DOMAIN ps : ps[id].kind = "MarkdownPreview"}
    /\ \A a, b \in DOMAIN pv : pv[a] = pv[b] => a = b
OutputsOk(ps, srv, outs, n) ==
    /\ srv \subseteq outs /\ outs \subseteq 0 .. n - 1
    /\ \A id \in DOMAIN ps : id \in outs => ps[id].kind = "Terminal"
DragOk(d) == d.stage \in {"none", "pending", "over"} /\ (d.stage # "none" => d.item \in Nat \ {0})

\* Panes change what they hold, not their kind.
LEMMA SameKinds ==
  ASSUME NEW ps, NEW n, PanesOk(ps, n), NEW qs, qs = [id \in DOMAIN qs |-> qs[id]],
         DOMAIN qs = DOMAIN ps,
         \A id \in DOMAIN ps : IsPane(qs[id]) /\ qs[id].kind = ps[id].kind
  PROVE  /\ PanesOk(qs, n)
         /\ \A tree, outs, at : LayoutOk(ps, tree, outs, at) => LayoutOk(qs, tree, outs, at)
         /\ \A pv : PreviewsOk(ps, pv) => PreviewsOk(qs, pv)
         /\ \A srv, outs : OutputsOk(ps, srv, outs, n) => OutputsOk(qs, srv, outs, n)
<1>1. PanesOk(qs, n)
  BY DEF PanesOk
<1>2. \A tree, outs, at : LayoutOk(ps, tree, outs, at) => LayoutOk(qs, tree, outs, at)
  BY DEF LayoutOk
<1>3. \A pv : PreviewsOk(ps, pv) => PreviewsOk(qs, pv)
  <2>1. {id \in DOMAIN ps : ps[id].kind = "MarkdownPreview"}
        = {id \in DOMAIN qs : qs[id].kind = "MarkdownPreview"}
    OBVIOUS
  <2> QED
    BY <2>1 DEF PreviewsOk
<1>4. \A srv, outs : OutputsOk(ps, srv, outs, n) => OutputsOk(qs, srv, outs, n)
  BY DEF OutputsOk
<1> QED
  BY <1>1, <1>2, <1>3, <1>4

\* One pane of them does.
LEMMA OnePaneChanges ==
  ASSUME NEW ps, NEW n, PanesOk(ps, n), NEW id \in DOMAIN ps, NEW p,
         IsPane(p), p.kind = ps[id].kind
  PROVE  LET qs == [ps EXCEPT ![id] = p]
         IN  /\ qs = With(ps, id, p) /\ PanesOk(qs, n)
             /\ \A tree, outs, at : LayoutOk(ps, tree, outs, at) => LayoutOk(qs, tree, outs, at)
             /\ \A pv : PreviewsOk(ps, pv) => PreviewsOk(qs, pv)
             /\ \A srv, outs : OutputsOk(ps, srv, outs, n) => OutputsOk(qs, srv, outs, n)
<1>1. PICK qs : qs = [ps EXCEPT ![id] = p]
  OBVIOUS
<1>2. qs = With(ps, id, p)
  <2>1. DOMAIN ps \cup {id} = DOMAIN ps
    OBVIOUS
  <2>2. qs = [other \in DOMAIN ps |-> IF other = id THEN p ELSE ps[other]]
    BY <1>1 DEF PanesOk
  <2> QED
    BY <2>1, <2>2 DEF With
<1>3. qs = [k \in DOMAIN qs |-> qs[k]] /\ DOMAIN qs = DOMAIN ps
  BY <1>1 DEF PanesOk
<1>4. \A k \in DOMAIN ps : IsPane(qs[k]) /\ qs[k].kind = ps[k].kind
  BY <1>1 DEF PanesOk
<1> QED
  BY <1>1, <1>2, <1>3, <1>4, SameKinds

\* A new pane.
LEMMA PaneComes ==
  ASSUME NEW ps, NEW n, PanesOk(ps, n), NEW m \in Nat, n < m, NEW p, IsPane(p)
  PROVE  /\ PanesOk(With(ps, n, p), m) /\ n \notin DOMAIN ps
         /\ \A tree, outs, at : \A target \in Leaves(tree), half \in {0, 1} :
               LayoutOk(ps, tree, outs, at)
               => LayoutOk(With(ps, n, p), InsertPane(tree, target, n, half), outs, n)
         /\ \A pv : p.kind # "MarkdownPreview" /\ PreviewsOk(ps, pv)
                    => PreviewsOk(With(ps, n, p), pv)
         /\ \A srv, outs : OutputsOk(ps, srv, outs, n) => OutputsOk(With(ps, n, p), srv, outs, m)
<1>1. PICK qs : qs = With(ps, n, p)
  OBVIOUS
<1>2. /\ n \in Nat /\ DOMAIN qs = DOMAIN ps \cup {n} /\ qs[n] = p /\ n \notin DOMAIN ps
      /\ qs = [id \in DOMAIN qs |-> qs[id]]
      /\ \A id \in DOMAIN ps : qs[id] = ps[id] /\ id \in 0 .. n - 1
  BY <1>1 DEF With, PanesOk
<1>3. PanesOk(qs, m)
  BY <1>2 DEF PanesOk
<1>4. ASSUME NEW tree, NEW outs, NEW at, NEW target \in Leaves(tree), NEW half \in {0, 1},
             LayoutOk(ps, tree, outs, at)
      PROVE  LayoutOk(qs, InsertPane(tree, target, n, half), outs, n)
  <2>1. Tree(tree) /\ n \notin Leaves(tree)
    BY <1>2, <1>4 DEF LayoutOk
  <2>2. /\ Tree(InsertPane(tree, target, n, half))
        /\ Leaves(InsertPane(tree, target, n, half)) = Leaves(tree) \cup {n}
    BY <2>1, InsertKeepsTree
  <2>3. Leaves(tree) \subseteq DOMAIN ps /\ DOMAIN ps \ Leaves(tree) \subseteq outs
    BY <1>4 DEF LayoutOk
  <2> QED
    BY <1>2, <2>2, <2>3 DEF LayoutOk
<1>5. ASSUME NEW pv, p.kind # "MarkdownPreview", PreviewsOk(ps, pv)
      PROVE  PreviewsOk(qs, pv)
  <2>1. {id \in DOMAIN ps : ps[id].kind = "MarkdownPreview"}
        = {id \in DOMAIN qs : qs[id].kind = "MarkdownPreview"}
    BY <1>2, <1>5
  <2> QED
    BY <1>5, <2>1 DEF PreviewsOk
<1>6. ASSUME NEW srv, NEW outs, OutputsOk(ps, srv, outs, n)
      PROVE  OutputsOk(qs, srv, outs, m)
  <2>1. n \notin outs /\ outs \subseteq 0 .. m - 1
    BY <1>2, <1>6 DEF OutputsOk
  <2> QED
    BY <1>2, <1>6, <2>1 DEF OutputsOk
<1> QED
  BY <1>1, <1>2, <1>3, <1>4, <1>5, <1>6

\* A pane goes.
LEMMA PaneGoes ==
  ASSUME NEW ps, NEW n, PanesOk(ps, n), NEW id \in DOMAIN ps
  PROVE  /\ PanesOk(But(ps, id), n)
         /\ \A tree, outs, at, to : LayoutOk(ps, tree, outs, at) /\ to \in Leaves(tree) \ {id}
               => LayoutOk(But(ps, id), RemovePane(tree, id), outs, to)
         /\ \A pv : ps[id].kind # "MarkdownPreview" /\ PreviewsOk(ps, pv)
                    => PreviewsOk(But(ps, id), pv)
         /\ \A pv : PreviewsOk(ps, pv) => PreviewsOk(But(ps, id), [k \in DOMAIN pv \ {id} |-> pv[k]])
         /\ \A srv, outs : OutputsOk(ps, srv, outs, n) => OutputsOk(But(ps, id), srv, outs, n)
<1>1. PICK qs : qs = But(ps, id)
  OBVIOUS
<1>2. /\ DOMAIN qs = DOMAIN ps \ {id} /\ qs = [k \in DOMAIN qs |-> qs[k]]
      /\ \A k \in DOMAIN qs : qs[k] = ps[k]
  BY <1>1 DEF But
<1>3. PanesOk(qs, n)
  BY <1>2 DEF PanesOk
<1>4. ASSUME NEW tree, NEW outs, NEW at, NEW to \in Leaves(tree) \ {id}, LayoutOk(ps, tree, outs, at)
      PROVE  LayoutOk(qs, RemovePane(tree, id), outs, to)
  <2>1. Tree(RemovePane(tree, id)) /\ Leaves(RemovePane(tree, id)) = Leaves(tree) \ {id}
    BY <1>4, RemoveKeepsTree DEF LayoutOk
  <2> QED
    BY <1>2, <1>4, <2>1 DEF LayoutOk
<1>5. ASSUME NEW pv, ps[id].kind # "MarkdownPreview", PreviewsOk(ps, pv)
      PROVE  PreviewsOk(qs, pv)
  <2>1. {k \in DOMAIN ps : ps[k].kind = "MarkdownPreview"}
        = {k \in DOMAIN qs : qs[k].kind = "MarkdownPreview"}
    BY <1>2, <1>5
  <2> QED
    BY <1>5, <2>1 DEF PreviewsOk
<1>6. ASSUME NEW pv, PreviewsOk(ps, pv)
      PROVE  PreviewsOk(qs, [k \in DOMAIN pv \ {id} |-> pv[k]])
  <2>1. PICK pw : pw = [k \in DOMAIN pv \ {id} |-> pv[k]]
    OBVIOUS
  <2>2. DOMAIN pw = DOMAIN pv \ {id} /\ pw = [k \in DOMAIN pw |-> pw[k]]
        /\ \A k \in DOMAIN pw : pw[k] = pv[k]
    BY <2>1
  <2>3. DOMAIN pw = {k \in DOMAIN qs : qs[k].kind = "MarkdownPreview"}
    BY <1>2, <1>6, <2>2 DEF PreviewsOk
  <2>4. PreviewsOk(qs, pw)
    BY <1>6, <2>2, <2>3 DEF PreviewsOk
  <2> QED
    BY <2>1, <2>4
<1>7. ASSUME NEW srv, NEW outs, OutputsOk(ps, srv, outs, n)
      PROVE  OutputsOk(qs, srv, outs, n)
  BY <1>2, <1>7 DEF OutputsOk
<1> QED
  BY <1>1, <1>3, <1>4, <1>5, <1>6, <1>7

-----------------------------------------------------------------------------
(* What the window holds, and where it stands.                             *)

Held(ps, n, ts, srv, pv, outs) ==
    /\ PanesOk(ps, n) /\ TermsFit(ps, ts) /\ ts \subseteq 0 .. n - 1
    /\ PreviewsOk(ps, pv) /\ OutputsOk(ps, srv, outs, n)

LEMMA HeldChange ==
  ASSUME NEW ps, NEW n, NEW ts, NEW srv, NEW pv, NEW outs, Held(ps, n, ts, srv, pv, outs),
         NEW id \in DOMAIN ps, NEW p, IsPane(p), p.kind = ps[id].kind,
         \A t \in Terms(p) : t \in ts => t \in Terms(ps[id]),
         NEW us, us = (ts \ Terms(ps[id])) \cup Terms(p), us \subseteq 0 .. n - 1
  PROVE  Held([ps EXCEPT ![id] = p], n, us, srv, pv, outs)
<1>1. PanesOk(ps, n) /\ TermsFit(ps, ts) /\ PreviewsOk(ps, pv) /\ OutputsOk(ps, srv, outs, n)
  BY DEF Held
<1>2. PICK qs : qs = [ps EXCEPT ![id] = p]
  OBVIOUS
<1>3. /\ qs = With(ps, id, p) /\ PanesOk(qs, n)
      /\ PreviewsOk(qs, pv) /\ OutputsOk(qs, srv, outs, n)
  BY <1>1, <1>2, OnePaneChanges
<1>4. TermsAt(ps, id) = Terms(ps[id])
  BY DEF TermsAt
<1>5. TermsFit(qs, us)
  BY <1>1, <1>3, <1>4, TermsAfter
<1> QED
  BY <1>2, <1>3, <1>5 DEF Held

LEMMA HeldComes ==
  ASSUME NEW ps, NEW n, NEW ts, NEW srv, NEW pv, NEW outs, Held(ps, n, ts, srv, pv, outs),
         NEW m \in Nat, n < m, NEW p, IsPane(p),
         \A t \in Terms(p) : t \notin ts /\ t \in 0 .. m - 1
  PROVE  /\ p.kind # "MarkdownPreview"
              => Held(With(ps, n, p), m, ts \cup Terms(p), srv, pv, outs)
         /\ \A b : p.kind = "MarkdownPreview" /\ (\A id \in DOMAIN pv : pv[id] # b)
              => Held(With(ps, n, p), m, ts \cup Terms(p), srv, With(pv, n, b), outs)
<1>1. PanesOk(ps, n) /\ TermsFit(ps, ts) /\ PreviewsOk(ps, pv) /\ OutputsOk(ps, srv, outs, n)
  BY DEF Held
<1>2. PICK qs : qs = With(ps, n, p)
  OBVIOUS
<1>3. /\ PanesOk(qs, m) /\ n \notin DOMAIN ps /\ n \in Nat
      /\ p.kind # "MarkdownPreview" => PreviewsOk(qs, pv)
      /\ OutputsOk(qs, srv, outs, m)
  BY <1>1, <1>2, PaneComes DEF PanesOk
<1>4. TermsAt(ps, n) = {}
  BY <1>3 DEF TermsAt
<1>5. PICK us : us = ts \cup Terms(p)
  OBVIOUS
<1>6. us = (ts \ TermsAt(ps, n)) \cup Terms(p)
  BY <1>4, <1>5
<1>7. TermsFit(qs, us)
  BY <1>1, <1>2, <1>6, TermsAfter
<1>8. us \subseteq 0 .. m - 1
  <2>1. ts \subseteq 0 .. n - 1
    BY DEF Held
  <2>2. 0 .. n - 1 \subseteq 0 .. m - 1
    BY <1>3
  <2> QED
    BY <1>5, <2>1, <2>2
<1>9. ASSUME NEW b, p.kind = "MarkdownPreview", \A id \in DOMAIN pv : pv[id] # b
      PROVE  PreviewsOk(qs, With(pv, n, b))
  <2>1. PICK pw : pw = With(pv, n, b)
    OBVIOUS
  <2>2. /\ DOMAIN pw = DOMAIN pv \cup {n} /\ pw = [id \in DOMAIN pw |-> pw[id]]
        /\ \A id \in DOMAIN pw : pw[id] = IF id = n THEN b ELSE pv[id]
    BY <2>1 DEF With
  <2>3. DOMAIN qs = DOMAIN ps \cup {n} /\ qs[n] = p
        /\ \A id \in DOMAIN ps : id # n => qs[id] = ps[id]
    BY <1>2 DEF With
  <2>4. DOMAIN pw = {id \in DOMAIN qs : qs[id].kind = "MarkdownPreview"}
    BY <1>1, <1>3, <1>9, <2>2, <2>3 DEF PreviewsOk
  <2>5. \A a, c \in DOMAIN pw : pw[a] = pw[c] => a = c
    BY <1>1, <1>9, <2>2 DEF PreviewsOk
  <2> QED
    BY <2>1, <2>2, <2>4, <2>5 DEF PreviewsOk
<1> QED
  BY <1>2, <1>3, <1>5, <1>7, <1>8, <1>9 DEF Held

LEMMA HeldGoes ==
  ASSUME NEW ps, NEW n, NEW ts, NEW srv, NEW pv, NEW outs, Held(ps, n, ts, srv, pv, outs),
         NEW id \in DOMAIN ps
  PROVE  /\ ps[id].kind # "MarkdownPreview"
              => Held(But(ps, id), n, ts \ Terms(ps[id]), srv, pv, outs)
         /\ ps[id].kind = "MarkdownPreview"
              => Held(But(ps, id), n, ts, srv, [k \in DOMAIN pv \ {id} |-> pv[k]], outs)
<1>1. PanesOk(ps, n) /\ TermsFit(ps, ts) /\ PreviewsOk(ps, pv) /\ OutputsOk(ps, srv, outs, n)
      /\ ts \subseteq 0 .. n - 1
  BY DEF Held
<1>2. PICK qs : qs = But(ps, id)
  OBVIOUS
<1>3. PICK us : us = ts \ Terms(ps[id])
  OBVIOUS
<1>4. TermsAt(ps, id) = Terms(ps[id])
  BY DEF TermsAt
<1>5. TermsFit(qs, us) /\ us \subseteq 0 .. n - 1
  BY <1>1, <1>2, <1>3, <1>4, TermsWithout
<1>6. ps[id].kind = "MarkdownPreview" => us = ts
  <2>1. IsPane(ps[id])
    BY <1>1 DEF PanesOk
  <2>2. ps[id].kind # "Terminal" => Terms(ps[id]) = {}
    BY <2>1, PaneItems
  <2> QED
    BY <1>3, <2>2
<1>7. /\ PanesOk(qs, n) /\ OutputsOk(qs, srv, outs, n)
      /\ PreviewsOk(qs, [k \in DOMAIN pv \ {id} |-> pv[k]])
      /\ ps[id].kind # "MarkdownPreview" => PreviewsOk(qs, pv)
  BY <1>1, <1>2, PaneGoes
<1>8. PICK pw : pw = [k \in DOMAIN pv \ {id} |-> pv[k]]
  OBVIOUS
<1>9. /\ ps[id].kind # "MarkdownPreview" => Held(qs, n, us, srv, pv, outs)
      /\ ps[id].kind = "MarkdownPreview" => Held(qs, n, ts, srv, pw, outs)
  BY <1>5, <1>6, <1>7, <1>8 DEF Held
<1> QED
  BY <1>2, <1>3, <1>8, <1>9

\* The layout, when a pane comes into sight, and when one goes.
LEMMA LayoutInsert ==
  ASSUME NEW ps, NEW tree, NEW outs, NEW at, LayoutOk(ps, tree, outs, at),
         NEW target \in Leaves(tree), NEW id, id \notin Leaves(tree), NEW half \in {0, 1},
         NEW qs, DOMAIN qs = DOMAIN ps \cup {id}
  PROVE  LayoutOk(qs, InsertPane(tree, target, id, half), outs, id)
<1>1. /\ Tree(tree) /\ Leaves(tree) \subseteq DOMAIN ps
      /\ DOMAIN ps \ Leaves(tree) \subseteq outs
  BY DEF LayoutOk
<1>2. /\ Tree(InsertPane(tree, target, id, half))
      /\ Leaves(InsertPane(tree, target, id, half)) = Leaves(tree) \cup {id}
  BY <1>1, InsertKeepsTree
<1> QED
  BY <1>1, <1>2 DEF LayoutOk

LEMMA LayoutRemove ==
  ASSUME NEW ps, NEW tree, NEW outs, NEW at, LayoutOk(ps, tree, outs, at), NEW id,
         NEW qs, DOMAIN ps \ {id} \subseteq DOMAIN qs, DOMAIN qs \subseteq DOMAIN ps,
         id \in DOMAIN qs => id \in outs, NEW to \in Leaves(tree) \ {id}
  PROVE  LayoutOk(qs, RemovePane(tree, id), outs, to)
<1>1. /\ Tree(tree) /\ Leaves(tree) \subseteq DOMAIN ps
      /\ DOMAIN ps \ Leaves(tree) \subseteq outs
  BY DEF LayoutOk
<1>2. Tree(RemovePane(tree, id)) /\ Leaves(RemovePane(tree, id)) = Leaves(tree) \ {id}
  BY <1>1, RemoveKeepsTree
<1> QED
  BY <1>1, <1>2 DEF LayoutOk

HeldNow == Held(panes, nextPane, terminals, servers, previews, outputPanes)
Sound == HeldNow /\ LayoutOk(panes, layout, outputPanes, focus) /\ DragOk(drag)

LEMMA SoundFacts ==
  ASSUME Sound
  PROVE  /\ PanesOk(panes, nextPane) /\ TermsFit(panes, terminals) /\ terminals \subseteq 0 .. nextPane - 1
         /\ PreviewsOk(panes, previews) /\ OutputsOk(panes, servers, outputPanes, nextPane)
         /\ nextPane \in Nat /\ nextPane \notin DOMAIN panes /\ nextPane \notin Leaves(layout)
         /\ Tree(layout) /\ Leaves(layout) \subseteq DOMAIN panes
         /\ DOMAIN panes \ Leaves(layout) \subseteq outputPanes /\ focus \in Leaves(layout)
         /\ focus \in DOMAIN panes
         /\ panes = [id \in DOMAIN panes |-> panes[id]]
         /\ \A id \in DOMAIN panes : IsPane(panes[id]) /\ id \in 0 .. nextPane - 1
<1>1. PanesOk(panes, nextPane) /\ LayoutOk(panes, layout, outputPanes, focus)
  BY DEF Sound, HeldNow, Held
<1>2. /\ nextPane \in Nat /\ panes = [id \in DOMAIN panes |-> panes[id]]
      /\ \A id \in DOMAIN panes : IsPane(panes[id]) /\ id \in 0 .. nextPane - 1
  BY <1>1 DEF PanesOk
<1>3. nextPane \notin DOMAIN panes
  BY <1>2
<1> QED
  BY <1>1, <1>2, <1>3 DEF Sound, HeldNow, Held, LayoutOk

\* Every step either strays or ends the program, or keeps what is sound.
Fine == strayed' \/ ended' = "exited" \/ (ended' = ended /\ Sound')

\* Removing from the layout.
LEMMA RemovingKeeps ==
  ASSUME Sound, NEW id, NEW from, from = id, NEW left, NEW hiding \in BOOLEAN,
         RemoveFromLayout(id, from, left, hiding),
         DOMAIN panes \ {id} \subseteq DOMAIN left, DOMAIN left \subseteq DOMAIN panes,
         id \in DOMAIN left => id \in outputPanes
  PROVE  \/ strayed' \/ ended' = "exited"
         \/ /\ ended' = ended /\ panes' = left
            /\ LayoutOk(left, layout', outputPanes, focus')
<1> DEFINE tree == RemovePane(layout, id)
<1>1. Tree(tree) /\ Leaves(tree) = Leaves(layout) \ {id}
  BY SoundFacts, RemoveKeepsTree
<1>2. CASE Live(tree, left) = {}
  <2>1. ended' = (IF hiding THEN ended ELSE "exited") /\ strayed' = hiding
    BY <1>2 DEF RemoveFromLayout
  <2> QED
    BY <2>1
<1>3. CASE Live(tree, left) # {}
  <2>1. /\ layout' = tree /\ panes' = left /\ ended' = ended
        /\ focus' = IF from \in Live(tree, left) THEN from ELSE FirstLeaf(tree, DOMAIN left)
    BY <1>3 DEF RemoveFromLayout
  <2>2. FirstLeaf(tree, DOMAIN left) \in Leaves(tree)
    <3>1. Leaves(tree) \cap DOMAIN left # {}
      BY <1>3 DEF Live
    <3> HIDE DEF tree
    <3> QED
      BY <1>1, <3>1, FirstLeafFound
  <2>3. focus' \in Leaves(layout) \ {id}
    BY <1>1, <2>1, <2>2 DEF Live
  <2>4. LayoutOk(left, tree, outputPanes, focus')
    BY <2>3, LayoutRemove DEF Sound
  <2> QED
    BY <2>1, <2>4
<1> QED
  BY <1>2, <1>3

LEMMA HidingKeeps ==
  ASSUME Sound, NEW id, HideOutput(id), UNCHANGED <<nextPane, servers, drag, outputPanes>>
  PROVE  Fine
<1>1. id \in outputPanes
  BY SoundFacts DEF HideOutput, OutputsOk
<1>2. \/ strayed' \/ ended' = "exited"
      \/ /\ ended' = ended /\ panes' = panes
         /\ LayoutOk(panes, layout', outputPanes, focus')
  BY <1>1, RemovingKeeps DEF HideOutput
<1>3. terminals' = terminals /\ previews' = previews
  BY DEF HideOutput
<1> QED
  BY <1>2, <1>3 DEF Fine, Sound, HeldNow

\* A pane with one item closes with it; another loses the item.
LEMMA ClosingLastKeeps ==
  ASSUME Sound, NEW id \in DOMAIN panes, panes[id].kind # "MarkdownPreview", CloseLast(id),
         UNCHANGED <<nextPane, servers, drag, outputPanes, previews>>,
         terminals' = terminals \ Terms(panes[id])
  PROVE  Fine
<1>1. PICK left : left = But(panes, id)
  OBVIOUS
<1>2. left = Without(id) /\ DOMAIN left = DOMAIN panes \ {id}
  BY <1>1 DEF But, Without
<1>3. \/ strayed' \/ ended' = "exited"
      \/ /\ ended' = ended /\ panes' = left
         /\ LayoutOk(left, layout', outputPanes, focus')
  <2>1. RemoveFromLayout(id, id, Without(id), FALSE)
    BY DEF CloseLast
  <2>2. DOMAIN Without(id) = DOMAIN panes \ {id}
    BY <1>2
  <2>3. \/ strayed' \/ ended' = "exited"
        \/ /\ ended' = ended /\ panes' = Without(id)
           /\ LayoutOk(Without(id), layout', outputPanes, focus')
    BY <2>1, <2>2, RemovingKeeps
  <2> QED
    BY <1>2, <2>3
<1>4. Held(left, nextPane, terminals', servers, previews, outputPanes)
  BY <1>1, HeldGoes DEF Sound, HeldNow
<1> QED
  BY <1>3, <1>4 DEF Fine, Sound, HeldNow

LEMMA ClosingOneKeeps ==
  ASSUME Sound, NEW id \in Leaves(layout), panes[id].kind # "MarkdownPreview",
         NEW i \in DOMAIN Items(panes[id]), CloseOneOf(id, i),
         UNCHANGED <<nextPane, servers, drag, outputPanes, previews>>,
         terminals' = IF panes[id].kind = "Terminal" THEN terminals \ {Items(panes[id])[i]}
                      ELSE terminals
  PROVE  Fine
<1>1. id \in DOMAIN panes /\ IsPane(panes[id])
  BY SoundFacts
<1>2. PICK p : p = Removed(panes[id], i)
  OBVIOUS
<1>3. /\ panes' = [panes EXCEPT ![id] = p] /\ focus' = id /\ layout' = layout /\ ended' = ended
      /\ Len(Items(panes[id])) > 1
  BY <1>2 DEF CloseOneOf
<1>4. /\ IsPane(p) /\ p.kind = panes[id].kind
      /\ Terms(p) = IF panes[id].kind = "Terminal" THEN Terms(panes[id]) \ {Items(panes[id])[i]}
                    ELSE Terms(panes[id])
  BY <1>1, <1>2, <1>3, RemovedIsPane
<1>5. Terms(panes[id]) \subseteq terminals
  BY <1>1, SoundFacts DEF TermsFit
<1>6. panes[id].kind = "Terminal" => Items(panes[id])[i] \in Terms(panes[id])
  BY <1>1, PaneItems DEF Terms, Range
<1>7. terminals' = (terminals \ Terms(panes[id])) \cup Terms(p)
  BY <1>4, <1>5, <1>6
<1>8. terminals' \subseteq 0 .. nextPane - 1
  BY SoundFacts
<1>9. Held([panes EXCEPT ![id] = p], nextPane, terminals', servers, previews, outputPanes)
  BY <1>1, <1>4, <1>7, <1>8, HeldChange DEF Sound, HeldNow
<1>10. DOMAIN panes' = DOMAIN panes
  BY <1>3
<1>11. LayoutOk(panes', layout, outputPanes, id)
  BY <1>10 DEF Sound, LayoutOk
<1> QED
  BY <1>3, <1>9, <1>11 DEF Fine, Sound, HeldNow

LEMMA CloseItemKeeps ==
  ASSUME Sound, NEW id \in DOMAIN panes, NEW i, CloseItem(id, i)
  PROVE  Fine
<1>1. /\ id \in Leaves(layout) /\ i \in DOMAIN Items(panes[id]) /\ KindOf(id) = panes[id].kind
      /\ UNCHANGED <<nextPane, servers, drag, outputPanes>> /\ IsPane(panes[id])
  BY SoundFacts DEF CloseItem, Live, KindOf
<1>2. CASE HideOutput(id)
  BY <1>1, <1>2, HidingKeeps
<1>3. CASE /\ KindOf(id) = "Terminal" /\ (CloseLast(id) \/ CloseOneOf(id, i))
           /\ terminals' = terminals \ {panes[id].terms[i]} /\ UNCHANGED previews
  <2>1. Items(panes[id]) = panes[id].terms
    BY <1>1, <1>3 DEF Items
  <2>2. CASE CloseLast(id)
    <3>1. Len(panes[id].terms) = 1 /\ DOMAIN panes[id].terms = 1 .. 1
      BY <1>1, <2>1, <2>2, PaneItems DEF CloseLast
    <3>2. Terms(panes[id]) = {panes[id].terms[i]}
      BY <1>1, <2>1, <3>1 DEF Terms, Range
    <3> QED
      BY <1>1, <1>3, <2>2, <3>2, ClosingLastKeeps
  <2>3. CASE CloseOneOf(id, i)
    BY <1>1, <1>3, <2>1, <2>3, ClosingOneKeeps
  <2> QED
    BY <1>3, <2>2, <2>3
<1>4. CASE /\ KindOf(id) = "Editor" /\ (CloseLast(id) \/ CloseOneOf(id, i))
           /\ UNCHANGED <<terminals, previews>>
  <2>1. Terms(panes[id]) = {}
    BY <1>1, <1>4, PaneItems
  <2>2. CASE CloseLast(id)
    BY <1>1, <1>4, <2>1, <2>2, ClosingLastKeeps
  <2>3. CASE CloseOneOf(id, i)
    BY <1>1, <1>4, <2>3, ClosingOneKeeps
  <2> QED
    BY <1>4, <2>2, <2>3
<1> QED
  BY <1>2, <1>3, <1>4 DEF CloseItem

LEMMA ClosePreviewKeeps ==
  ASSUME Sound, ClosePreview
  PROVE  Fine
<1>1. focus \in DOMAIN panes /\ panes[focus].kind = "MarkdownPreview"
  BY SoundFacts DEF ClosePreview, Front_
<1>2. PICK left : left = But(panes, focus)
  OBVIOUS
<1>3. left = Without(focus) /\ DOMAIN left = DOMAIN panes \ {focus}
  BY <1>2 DEF But, Without
<1>4. \/ strayed' \/ ended' = "exited"
      \/ /\ ended' = ended /\ panes' = left
         /\ LayoutOk(left, layout', outputPanes, focus')
  <2>1. RemoveFromLayout(focus, focus, Without(focus), FALSE)
    BY DEF ClosePreview
  <2>2. DOMAIN Without(focus) = DOMAIN panes \ {focus}
    BY <1>3
  <2>3. \/ strayed' \/ ended' = "exited"
        \/ /\ ended' = ended /\ panes' = Without(focus)
           /\ LayoutOk(Without(focus), layout', outputPanes, focus')
    BY <2>1, <2>2, RemovingKeeps
  <2> QED
    BY <1>3, <2>3
<1>5. previews' = [id \in DOMAIN previews \ {focus} |-> previews[id]]
      /\ UNCHANGED <<nextPane, terminals, servers, drag, outputPanes>>
  BY DEF ClosePreview
<1>6. Held(left, nextPane, terminals, servers, previews', outputPanes)
  BY <1>1, <1>2, <1>5, HeldGoes DEF Sound, HeldNow
<1> QED
  BY <1>4, <1>5, <1>6 DEF Fine, Sound, HeldNow

-----------------------------------------------------------------------------
(* New panes and tabs.                                                     *)

\* A new pane that is not a preview, beside one in sight.
LEMMA BesideKeeps ==
  ASSUME Sound, NEW target \in Leaves(layout), NEW pane, IsPane(pane), NEW half \in {0, 1},
         Beside(target, pane, half), nextPane' \in Nat, nextPane < nextPane',
         pane.kind # "MarkdownPreview",
         \A t \in Terms(pane) : t \notin terminals /\ t \in 0 .. nextPane' - 1,
         terminals' = terminals \cup Terms(pane),
         UNCHANGED <<servers, previews, drag, ended, outputPanes>>
  PROVE  Fine
<1>1. PICK qs : qs = With(panes, nextPane, pane)
  OBVIOUS
<1>2. Held(qs, nextPane', terminals', servers, previews, outputPanes)
  BY <1>1, HeldComes DEF Sound, HeldNow
<1>3. DOMAIN qs = DOMAIN panes \cup {nextPane}
  BY <1>1 DEF With
<1>4. LayoutOk(qs, InsertPane(layout, target, nextPane, half), outputPanes, nextPane)
  BY <1>3, SoundFacts, LayoutInsert DEF Sound
<1>5. panes' = qs /\ layout' = InsertPane(layout, target, nextPane, half) /\ focus' = nextPane
  BY <1>1 DEF Beside
<1> QED
  BY <1>2, <1>4, <1>5 DEF Fine, Sound, HeldNow

LEMMA SplitByKeyKeeps ==
  ASSUME Sound, SplitByKey
  PROVE  Fine
<1>1. PICK tab : tab = Front_.tabs[Front_.shown]
  OBVIOUS
<1>2. /\ Beside(focus, EditorPane(tab), 1) /\ nextPane' = nextPane + 1
      /\ UNCHANGED <<terminals, servers, previews, drag, ended, outputPanes>>
  BY <1>1 DEF SplitByKey, Ids
<1>3. /\ IsPane(EditorPane(tab)) /\ Terms(EditorPane(tab)) = {}
      /\ EditorPane(tab).kind = "Editor"
  BY NewPanesArePanes
<1>4. nextPane' \in Nat /\ nextPane < nextPane' /\ focus \in Leaves(layout)
  BY <1>2, SoundFacts
<1> QED
  BY <1>2, <1>3, <1>4, BesideKeeps

LEMMA SplitByCommandKeeps ==
  ASSUME Sound, NEW half \in {0, 1}, SplitByCommand(half)
  PROVE  Fine
<1>1. CASE Front_.shown \in DOMAIN Front_.tabs
  <2>1. PICK tab : Beside(focus, EditorPane(tab), half)
    BY <1>1 DEF SplitByCommand
  <2>2. /\ nextPane' = nextPane + 1
        /\ UNCHANGED <<terminals, servers, previews, drag, ended, outputPanes>>
    BY <1>1 DEF SplitByCommand, Ids
  <2>3. /\ IsPane(EditorPane(tab)) /\ Terms(EditorPane(tab)) = {}
        /\ EditorPane(tab).kind = "Editor"
    BY NewPanesArePanes
  <2>4. nextPane' \in Nat /\ nextPane < nextPane' /\ focus \in Leaves(layout)
    BY <2>2, SoundFacts
  <2> QED
    BY <2>1, <2>2, <2>3, <2>4, BesideKeeps
<1>2. CASE Front_.shown \notin DOMAIN Front_.tabs
  BY <1>2 DEF SplitByCommand, Fine
<1> QED
  BY <1>1, <1>2

LEMMA OpenTerminalKeeps ==
  ASSUME Sound, OpenTerminal
  PROVE  Fine
<1>1. PICK pane : pane = TerminalPane(nextPane + 1)
  OBVIOUS
<1>2. /\ Beside(focus, pane, 1) /\ nextPane' = nextPane + 2
      /\ terminals' = terminals \cup {nextPane + 1}
      /\ UNCHANGED <<servers, previews, drag, ended, outputPanes>>
  BY <1>1 DEF OpenTerminal, Ids
<1>3. IsPane(pane) /\ Terms(pane) = {nextPane + 1} /\ pane.kind = "Terminal"
  BY <1>1, NewPanesArePanes
<1>4. nextPane' \in Nat /\ nextPane < nextPane' /\ focus \in Leaves(layout)
  BY <1>2, SoundFacts
<1>5. \A t \in Terms(pane) : t \notin terminals /\ t \in 0 .. nextPane' - 1
  BY <1>2, <1>3, SoundFacts
<1> QED
  BY <1>2, <1>3, <1>4, <1>5, BesideKeeps

\* One pane in sight changes its items, and not its kind, and comes to the front.
LEMMA ChangingKeeps ==
  ASSUME Sound, NEW id \in Leaves(layout), NEW p, IsPane(p), p.kind = panes[id].kind,
         Terms(p) = Terms(panes[id]), panes' = [panes EXCEPT ![id] = p], focus' = id,
         UNCHANGED <<layout, nextPane, terminals, servers, previews, ended, outputPanes>>,
         DragOk(drag')
  PROVE  Fine
<1>1. id \in DOMAIN panes /\ terminals \subseteq 0 .. nextPane - 1 /\ Terms(p) \subseteq terminals
  BY SoundFacts DEF TermsFit
<1>2. terminals = (terminals \ Terms(panes[id])) \cup Terms(p)
  BY <1>1
<1>3. Held([panes EXCEPT ![id] = p], nextPane, terminals, servers, previews, outputPanes)
  BY <1>1, <1>2, HeldChange DEF Sound, HeldNow
<1>4. LayoutOk([panes EXCEPT ![id] = p], layout, outputPanes, id)
  BY DEF Sound, LayoutOk
<1> QED
  BY <1>3, <1>4 DEF Fine, Sound, HeldNow

LEMMA OpenInKeeps ==
  ASSUME Sound, NEW id \in Leaves(layout), panes[id].kind = "Editor", NEW tab, OpenIn(id, tab),
         UNCHANGED <<terminals, servers, previews, drag, ended, outputPanes>>
  PROVE  Fine
<1>1. PICK p : p = Put(panes[id], tab)
  OBVIOUS
<1>2. IsPane(panes[id])
  BY SoundFacts
<1>3. IsPane(p) /\ p.kind = "Editor" /\ Terms(p) = {} /\ Terms(panes[id]) = {}
  BY <1>1, <1>2, PutIsPane, PaneItems
<1>4. panes' = [panes EXCEPT ![id] = p] /\ focus' = id /\ UNCHANGED <<layout, nextPane>>
  BY <1>1 DEF OpenIn
<1>5. DragOk(drag')
  BY DEF Sound
<1> QED
  BY <1>3, <1>4, <1>5, ChangingKeeps

LEMMA OpenTabKeeps ==
  ASSUME Sound, NEW tab, OpenTab(tab)
  PROVE  Fine
<1> DEFINE editors == {id \in Live(layout, panes) : panes[id].kind = "Editor"}
<1>1. UNCHANGED <<terminals, servers, previews, drag, ended, outputPanes, strayed>>
  BY DEF OpenTab
<1>2. CASE Front_.kind = "Editor" /\ OpenIn(focus, tab)
  BY <1>1, <1>2, SoundFacts, OpenInKeeps DEF Front_
<1>3. CASE editors # {} /\ OpenIn(FirstLeaf(layout, editors), tab)
  <2>1. editors \subseteq Leaves(layout) /\ \A id \in editors : panes[id].kind = "Editor"
    BY DEF Live
  <2>2. FirstLeaf(layout, editors) \in editors
    <3>1. Tree(layout) /\ Leaves(layout) \cap editors # {}
      BY <1>3, <2>1, SoundFacts
    <3> HIDE DEF editors
    <3> QED
      BY <3>1, FirstLeafFound
  <2> HIDE DEF editors
  <2> QED
    BY <1>1, <1>3, <2>1, <2>2, OpenInKeeps
<1>4. CASE /\ Ids(1)
           /\ panes' = With(panes, nextPane, EditorPane(tab))
           /\ layout' = IF Live(layout, panes) = {} THEN Leaf(nextPane)
                        ELSE InsertPane(layout, FirstLeaf(layout, DOMAIN panes), nextPane, 1)
           /\ focus' = nextPane
  <2>1. Live(layout, panes) # {}
    BY SoundFacts DEF Live
  <2>2. PICK target : target = FirstLeaf(layout, DOMAIN panes)
    OBVIOUS
  <2>3. target \in Leaves(layout)
    <3>1. Tree(layout) /\ Leaves(layout) \cap DOMAIN panes # {}
      BY <2>1, SoundFacts DEF Live
    <3> QED
      BY <2>2, <3>1, FirstLeafFound
  <2>4. /\ IsPane(EditorPane(tab)) /\ Terms(EditorPane(tab)) = {}
        /\ EditorPane(tab).kind = "Editor"
    BY NewPanesArePanes
  <2>5. Beside(target, EditorPane(tab), 1)
    BY <1>4, <2>1, <2>2 DEF Beside
  <2>6. nextPane' \in Nat /\ nextPane < nextPane'
    BY <1>4, SoundFacts DEF Ids
  <2> QED
    BY <1>1, <2>3, <2>4, <2>5, <2>6, BesideKeeps
<1> QED
  BY <1>2, <1>3, <1>4 DEF OpenTab

\* Another of the items is shown.
LEMMA ShownIsPane ==
  ASSUME NEW p, IsPane(p), NEW k \in DOMAIN Items(p)
  PROVE  LET w == [p EXCEPT !.shown = k]
         IN  IsPane(w) /\ w.kind = p.kind /\ Terms(w) = Terms(p)
<1>1. PICK w : w = [p EXCEPT !.shown = k]
  OBVIOUS
<1>2. w = [kind |-> p.kind, tabs |-> p.tabs, terms |-> p.terms, shown |-> k]
  BY <1>1 DEF IsPane
<1>3. k \in Nat \ {0} /\ k <= Len(Items(p))
  BY PaneItems
<1>4. Items(w) = Items(p) /\ IsPane(w)
  BY <1>2, <1>3 DEF IsPane, Items
<1> QED
  BY <1>1, <1>2, <1>4 DEF Terms

LEMMA NewTabKeeps ==
  ASSUME Sound, NewTab
  PROVE  Fine
<1>1. /\ focus \in Leaves(layout) /\ IsPane(panes[focus]) /\ panes[focus].kind = "Editor"
      /\ focus \in DOMAIN panes
      /\ UNCHANGED <<layout, focus, nextPane, terminals, servers, previews, drag, ended, outputPanes>>
  BY SoundFacts DEF NewTab, Front_
<1>2. PICK kind : panes' = [panes EXCEPT ![focus] =
              IF kind = "Settings" /\ \E i \in DOMAIN @.tabs : @.tabs[i].kind = kind
              THEN [@ EXCEPT !.shown = CHOOSE i \in DOMAIN Front_.tabs : Front_.tabs[i].kind = kind]
              ELSE Added(@, AnyTab(kind))]
  BY DEF NewTab
<1>3. PICK old : old = panes[focus]
  OBVIOUS
<1>4. \E p : /\ panes' = [panes EXCEPT ![focus] = p]
             /\ IsPane(p) /\ p.kind = old.kind /\ Terms(p) = Terms(old)
  <2>1. CASE kind = "Settings" /\ \E i \in DOMAIN old.tabs : old.tabs[i].kind = kind
    <3>1. PICK k : k = CHOOSE i \in DOMAIN old.tabs : old.tabs[i].kind = kind
      OBVIOUS
    <3>2. k \in DOMAIN old.tabs
      BY <2>1, <3>1
    <3>3. k \in DOMAIN Items(old)
      BY <1>1, <1>3, <3>2, PaneItems
    <3>4. PICK p : p = [old EXCEPT !.shown = k]
      OBVIOUS
    <3>5. panes' = [panes EXCEPT ![focus] = p]
      BY <1>2, <1>3, <2>1, <3>1, <3>4 DEF Front_
    <3>6. IsPane(p) /\ p.kind = old.kind /\ Terms(p) = Terms(old)
      BY <1>1, <1>3, <3>3, <3>4, ShownIsPane
    <3> QED
      BY <3>5, <3>6
  <2>2. CASE ~(kind = "Settings" /\ \E i \in DOMAIN old.tabs : old.tabs[i].kind = kind)
    <3>1. PICK p : p = Added(old, AnyTab(kind))
      OBVIOUS
    <3>2. panes' = [panes EXCEPT ![focus] = p]
      BY <1>2, <1>3, <2>2, <3>1
    <3>3. IsPane(p) /\ p.kind = old.kind /\ Terms(p) = Terms(old)
      BY <1>1, <1>3, <3>1, AddedIsPane
    <3> QED
      BY <3>2, <3>3
  <2> QED
    BY <2>1, <2>2
<1>5. PICK p : /\ panes' = [panes EXCEPT ![focus] = p]
               /\ IsPane(p) /\ p.kind = old.kind /\ Terms(p) = Terms(old)
  BY <1>4
<1>6. DragOk(drag')
  BY <1>1 DEF Sound
<1> QED
  BY <1>1, <1>3, <1>5, <1>6, ChangingKeeps

LEMMA OpenPreviewKeeps ==
  ASSUME Sound, OpenPreview
  PROVE  Fine
<1>1. PICK book : book = Front_.tabs[Front_.shown].book
  OBVIOUS
<1>2. PICK open : open = {id \in DOMAIN previews : previews[id] = book}
  OBVIOUS
<1>3. UNCHANGED <<terminals, servers, drag, ended, outputPanes, strayed>>
  BY DEF OpenPreview
<1>4. CASE focus' \in open /\ UNCHANGED <<panes, layout, nextPane, previews>>
  <2>1. focus' \in DOMAIN panes /\ panes[focus'].kind = "MarkdownPreview"
    BY <1>2, <1>4, SoundFacts DEF PreviewsOk
  <2>2. focus' \notin outputPanes
    BY <2>1, SoundFacts DEF OutputsOk
  <2>3. focus' \in Leaves(layout)
    BY <2>1, <2>2, SoundFacts
  <2>4. LayoutOk(panes, layout, outputPanes, focus')
    BY <2>3 DEF Sound, LayoutOk
  <2> QED
    BY <1>3, <1>4, <2>4 DEF Fine, Sound, HeldNow
<1>5. CASE /\ open = {} /\ Ids(1)
           /\ Beside(focus, NewPane("MarkdownPreview", <<>>, <<>>), 1)
           /\ previews' = With(previews, nextPane, book)
  <2>1. PICK pane : pane = NewPane("MarkdownPreview", <<>>, <<>>)
    OBVIOUS
  <2>2. IsPane(pane) /\ Terms(pane) = {} /\ pane.kind = "MarkdownPreview"
    BY <2>1, NewPanesArePanes
  <2>3. PICK qs : qs = With(panes, nextPane, pane)
    OBVIOUS
  <2>4. nextPane' \in Nat /\ nextPane < nextPane'
    BY <1>5, SoundFacts DEF Ids
  <2>5. \A id \in DOMAIN previews : previews[id] # book
    BY <1>2, <1>5
  <2>6. terminals = terminals \cup Terms(pane)
    BY <2>2
  <2>7. Held(qs, nextPane', terminals, servers, With(previews, nextPane, book), outputPanes)
    <3>1. Held(With(panes, nextPane, pane), nextPane', terminals \cup Terms(pane), servers,
               With(previews, nextPane, book), outputPanes)
      BY <2>2, <2>4, <2>5, HeldComes DEF Sound, HeldNow
    <3> QED
      BY <2>3, <2>6, <3>1
  <2>8. DOMAIN qs = DOMAIN panes \cup {nextPane}
    BY <2>3 DEF With
  <2>9. LayoutOk(qs, InsertPane(layout, focus, nextPane, 1), outputPanes, nextPane)
    BY <2>8, SoundFacts, LayoutInsert DEF Sound
  <2>10. panes' = qs /\ layout' = InsertPane(layout, focus, nextPane, 1) /\ focus' = nextPane
    BY <1>5, <2>1, <2>3 DEF Beside
  <2> QED
    BY <1>3, <1>5, <2>7, <2>9, <2>10 DEF Fine, Sound, HeldNow
<1> QED
  BY <1>1, <1>2, <1>4, <1>5 DEF OpenPreview

-----------------------------------------------------------------------------
(* Language servers, events and the mouse.                                 *)

LEMMA ShowKeeps ==
  ASSUME Sound, NEW id, Show(id)
  PROVE  LayoutOk(panes, layout', outputPanes, focus')
<1>1. CASE id \notin DOMAIN panes
  BY <1>1 DEF Show, Sound
<1>2. CASE id \in DOMAIN panes /\ id \in Leaves(layout)
  <2>1. layout' = layout /\ focus' = id
    BY <1>2 DEF Show, ShowPane
  <2> QED
    BY <1>2, <2>1 DEF Sound, LayoutOk
<1>3. CASE id \in DOMAIN panes /\ id \notin Leaves(layout)
  <2>1. focus \in Live(layout, panes)
    BY SoundFacts DEF Live
  <2>2. layout' = InsertPane(layout, focus, id, 1) /\ focus' = id
    BY <1>3, <2>1 DEF Show, ShowPane
  <2>3. focus \in Leaves(layout) /\ DOMAIN panes = DOMAIN panes \cup {id}
    BY <1>3, SoundFacts
  <2> QED
    BY <1>3, <2>2, <2>3, LayoutInsert DEF Sound
<1> QED
  BY <1>1, <1>2, <1>3

LEMMA ShowOutputKeeps ==
  ASSUME Sound, NEW id, ShowOutput(id)
  PROVE  Fine
<1>1. /\ Show(id)
      /\ UNCHANGED <<panes, nextPane, terminals, servers, previews, drag, ended, outputPanes>>
  BY DEF ShowOutput
<1>2. LayoutOk(panes, layout', outputPanes, focus')
  BY <1>1, ShowKeeps
<1> QED
  BY <1>1, <1>2 DEF Fine, Sound, HeldNow

LEMMA StopServerKeeps ==
  ASSUME Sound, NEW id, StopServer(id)
  PROVE  Fine
<1>1. /\ Show(id) \/ UNCHANGED <<layout, focus>>
      /\ servers' = servers \ {id}
      /\ UNCHANGED <<panes, nextPane, terminals, previews, drag, ended, outputPanes>>
  BY DEF StopServer
<1>2. LayoutOk(panes, layout', outputPanes, focus')
  BY <1>1, ShowKeeps DEF Sound
<1>3. OutputsOk(panes, servers', outputPanes, nextPane)
  BY <1>1, SoundFacts DEF OutputsOk
<1>4. Held(panes, nextPane, terminals, servers', previews, outputPanes)
  BY <1>3 DEF Sound, HeldNow, Held
<1> QED
  BY <1>1, <1>2, <1>4 DEF Fine, Sound, HeldNow

LEMMA StartServerKeeps ==
  ASSUME Sound, StartServer
  PROVE  Fine
<1>1. PICK n : n = nextPane
  OBVIOUS
<1>2. PICK pane : pane = TerminalPane(n)
  OBVIOUS
<1>3. /\ panes' = With(panes, n, pane) /\ terminals' = terminals \cup {n}
      /\ servers' = servers \cup {n} /\ outputPanes' = outputPanes \cup {n}
      /\ nextPane' = n + 1 /\ n \in Nat /\ n \notin DOMAIN panes
      /\ UNCHANGED <<layout, focus, previews, drag, ended>>
  BY <1>1, <1>2, SoundFacts DEF StartServer, Ids
<1>4. IsPane(pane) /\ Terms(pane) = {n} /\ pane.kind = "Terminal"
  BY <1>2, NewPanesArePanes
<1>5. PICK qs : qs = With(panes, n, pane)
  OBVIOUS
<1>6. Held(qs, n + 1, terminals \cup Terms(pane), servers, previews, outputPanes)
  <2>1. n \notin terminals /\ n \in 0 .. (n + 1) - 1 /\ n + 1 \in Nat /\ n < n + 1
    BY <1>1, <1>3, SoundFacts
  <2>2. Held(panes, n, terminals, servers, previews, outputPanes)
    BY <1>1 DEF Sound, HeldNow
  <2> QED
    BY <1>4, <1>5, <2>1, <2>2, HeldComes
<1>7. DOMAIN qs = DOMAIN panes \cup {n} /\ qs[n] = pane
  BY <1>5 DEF With
<1>8. OutputsOk(qs, servers', outputPanes', n + 1)
  <2>1. OutputsOk(qs, servers, outputPanes, n + 1)
    BY <1>6 DEF Held
  <2>2. servers' \subseteq outputPanes' /\ outputPanes' \subseteq 0 .. (n + 1) - 1
    BY <1>3, <2>1 DEF OutputsOk
  <2> QED
    BY <1>3, <1>4, <1>7, <2>1, <2>2 DEF OutputsOk
<1>9. Held(qs, nextPane', terminals', servers', previews', outputPanes')
  BY <1>3, <1>4, <1>6, <1>8 DEF Held
<1>10. LayoutOk(qs, layout', outputPanes', focus')
  BY <1>3, <1>7 DEF Sound, LayoutOk
<1> QED
  BY <1>3, <1>5, <1>9, <1>10 DEF Fine, Sound, HeldNow

LEMMA GitOpDoneKeeps ==
  ASSUME Sound, GitOpDone
  PROVE  Fine
<1>1. PICK qs : qs = [id \in DOMAIN panes |-> Cleaned(panes[id])]
  OBVIOUS
<1>2. /\ panes' = qs
      /\ UNCHANGED <<layout, focus, nextPane, terminals, servers, previews, drag, ended,
                     outputPanes>>
  BY <1>1 DEF GitOpDone, Cleaned
<1>3. DOMAIN qs = DOMAIN panes /\ qs = [id \in DOMAIN qs |-> qs[id]]
  BY <1>1
<1>4. \A id \in DOMAIN panes : /\ IsPane(qs[id]) /\ qs[id].kind = panes[id].kind
                               /\ Terms(qs[id]) = Terms(panes[id])
  BY <1>1, SoundFacts, CleanedIsPane DEF Terms
<1>5. /\ PanesOk(panes, nextPane) /\ TermsFit(panes, terminals)
      /\ PreviewsOk(panes, previews) /\ OutputsOk(panes, servers, outputPanes, nextPane)
      /\ terminals \subseteq 0 .. nextPane - 1
  BY SoundFacts
<1>6. /\ PanesOk(qs, nextPane) /\ LayoutOk(qs, layout, outputPanes, focus)
      /\ PreviewsOk(qs, previews) /\ OutputsOk(qs, servers, outputPanes, nextPane)
  BY <1>3, <1>4, <1>5, SameKinds DEF Sound
<1>7. TermsFit(qs, terminals)
  BY <1>3, <1>4, <1>5, TermsSame
<1> QED
  BY <1>2, <1>5, <1>6, <1>7 DEF Fine, Sound, HeldNow, Held

LEMMA ClickItemKeeps ==
  ASSUME Sound, NEW id \in DOMAIN panes, NEW i, ClickItem(id, i)
  PROVE  Fine
<1>1. /\ id \in Leaves(layout) /\ i \in DOMAIN Items(panes[id]) /\ IsPane(panes[id])
      /\ panes' = [panes EXCEPT ![id].shown = i] /\ focus' = id
      /\ drag' = [stage |-> "pending", source |-> id, item |-> i]
      /\ UNCHANGED <<layout, nextPane, terminals, servers, previews, ended, outputPanes>>
  BY SoundFacts DEF ClickItem, Live
<1>2. PICK p : p = [panes[id] EXCEPT !.shown = i]
  OBVIOUS
<1>3. panes' = [panes EXCEPT ![id] = p]
  BY <1>1, <1>2
<1>4. IsPane(p) /\ p.kind = panes[id].kind /\ Terms(p) = Terms(panes[id])
  BY <1>1, <1>2, ShownIsPane
<1>5. i \in Nat \ {0}
  BY <1>1, PaneItems
<1>6. DragOk(drag')
  BY <1>1, <1>5 DEF DragOk
<1> QED
  BY <1>1, <1>3, <1>4, <1>6, ChangingKeeps

LEMMA ClickPaneKeeps ==
  ASSUME Sound, NEW id \in Leaves(layout), ClickPane(id)
  PROVE  Fine
<1>1. id \in DOMAIN panes
  BY SoundFacts
<1>2. /\ focus' = id
      /\ UNCHANGED <<panes, layout, nextPane, terminals, servers, previews, drag, ended, outputPanes>>
  BY <1>1 DEF ClickPane
<1>3. LayoutOk(panes, layout, outputPanes, id)
  BY DEF Sound, LayoutOk
<1> QED
  BY <1>2, <1>3 DEF Fine, Sound, HeldNow

LEMMA DragOverKeeps ==
  ASSUME Sound, NEW id, NEW zone, DragOver(id, zone)
  PROVE  Fine
<1>1. /\ UNCHANGED <<panes, layout, focus, nextPane, terminals, servers, previews, ended,
                     outputPanes>>
      /\ drag.stage = "pending"
      /\ drag' = [stage |-> "over", source |-> drag.source, item |-> drag.item,
                  target |-> id, zone |-> zone]
  BY DEF DragOver
<1>2. DragOk(drag')
  BY <1>1 DEF Sound, DragOk
<1> QED
  BY <1>1, <1>2 DEF Fine, Sound, HeldNow

LEMMA DragEndsKeeps ==
  ASSUME Sound, DragEnds
  PROVE  Fine
<1>1. /\ UNCHANGED <<panes, layout, focus, nextPane, terminals, servers, previews, ended,
                     outputPanes>>
      /\ drag' = NoDrag
  BY DEF DragEnds
<1>2. DragOk(drag')
  BY <1>1 DEF NoDrag, DragOk
<1> QED
  BY <1>1, <1>2 DEF Fine, Sound, HeldNow

-----------------------------------------------------------------------------
(* Dropping what is dragged.                                               *)

\* A layout that still has a pane is not the empty one.
LEMMA SomeTree ==
  ASSUME NEW tree, NEW id \in Leaves(tree)
  PROVE  tree # NoTree
  BY NoTreeIsTree

LEMMA DropPreviewKeeps ==
  ASSUME Sound, DropPreview, drag.source \in DOMAIN panes,
         drag.target \in Leaves(layout) \ {drag.source}, DragOk(drag'),
         UNCHANGED <<terminals, servers, previews, ended, outputPanes>>
  PROVE  Fine
<1> DEFINE trimmed == RemovePane(layout, drag.source)
<1>1. Tree(trimmed) /\ Leaves(trimmed) = Leaves(layout) \ {drag.source}
  BY SoundFacts, RemoveKeepsTree
<1>2. trimmed # NoTree
  <2>1. drag.target \in Leaves(trimmed)
    BY <1>1
  <2> QED
    BY <2>1, SomeTree
<1>3. PICK half \in {0, 1} : half = Half(drag.zone)
  BY DEF Half
<1>4. /\ layout' = InsertPane(trimmed, drag.target, drag.source, half)
      /\ focus' = drag.source /\ UNCHANGED <<panes, nextPane>>
  BY <1>2, <1>3 DEF DropPreview
<1>5. Tree(layout') /\ Leaves(layout') = Leaves(trimmed) \cup {drag.source}
  <2>1. drag.target \in Leaves(trimmed) /\ drag.source \notin Leaves(trimmed)
    BY <1>1
  <2> HIDE DEF trimmed
  <2> QED
    BY <1>1, <1>4, <2>1, InsertKeepsTree
<1>6. LayoutOk(panes, layout', outputPanes, focus')
  BY <1>1, <1>4, <1>5, SoundFacts DEF LayoutOk
<1> QED
  BY <1>4, <1>6 DEF Fine, Sound, HeldNow

\* What stays where the item was.
Emptied == Len(Items(panes[drag.source])) = 1 /\ drag.source # drag.target
Dragged   == Items(panes[drag.source])[drag.item]
Lighter == [panes EXCEPT ![drag.source] = Removed(@, drag.item)]
Rest    == IF Emptied THEN But(Lighter, drag.source) ELSE Lighter
TermsLeft == IF panes[drag.source].kind = "Terminal" THEN terminals \ {Dragged} ELSE terminals
CanMove ==
    /\ drag.source \in DOMAIN panes /\ panes[drag.source].kind # "MarkdownPreview"
    /\ drag.item \in DOMAIN Items(panes[drag.source]) /\ drag.target \in Leaves(layout)
    /\ Len(Items(panes[drag.source])) = 1 => drag.source # drag.target

LEMMA RestIsHeld ==
  ASSUME Sound, CanMove
  PROVE  /\ Held(Rest, nextPane, TermsLeft, servers, previews, outputPanes)
         /\ DOMAIN Rest = IF Emptied THEN DOMAIN panes \ {drag.source} ELSE DOMAIN panes
         /\ \A id \in DOMAIN panes : id # drag.source => Rest[id] = panes[id]
         /\ panes[drag.source].kind = "Terminal" => Dragged \in Terms(panes[drag.source])
<1>1. PICK src : src = drag.source
  OBVIOUS
<1>2. PICK old : old = panes[src]
  OBVIOUS
<1>3. PICK i : i = drag.item
  OBVIOUS
<1>4. src \in DOMAIN panes /\ IsPane(old) /\ old.kind # "MarkdownPreview" /\ i \in DOMAIN Items(old)
  BY <1>1, <1>2, <1>3, SoundFacts DEF CanMove
<1>5. PICK n \in Nat : n = Len(Items(old))
  BY <1>4, PaneItems
<1>6. n >= 1 /\ DOMAIN Items(old) = 1 .. n
  BY <1>4, <1>5, PaneItems
<1>7. old.kind = "Terminal" => Items(old)[i] \in Terms(old)
  BY <1>4, PaneItems DEF Terms, Range
<1>8. Dragged = Items(old)[i] /\ Terms(old) \subseteq terminals
  BY <1>1, <1>2, <1>3, <1>4, SoundFacts DEF Dragged, TermsFit
<1>9. CASE n > 1
  <2>1. PICK p : p = Removed(old, i)
    OBVIOUS
  <2>2. /\ IsPane(p) /\ p.kind = old.kind
        /\ Terms(p) = IF old.kind = "Terminal" THEN Terms(old) \ {Dragged} ELSE Terms(old)
    <3>1. Len(Items(old)) > 1
      BY <1>5, <1>9
    <3>2. /\ IsPane(p) /\ p.kind = old.kind
          /\ Terms(p) = IF old.kind = "Terminal" THEN Terms(old) \ {Items(old)[i]} ELSE Terms(old)
      BY <1>4, <2>1, <3>1, RemovedIsPane
    <3> QED
      BY <1>8, <3>2
  <2>7. ~Emptied
    <3>1. n # 1
      BY <1>9
    <3> QED
      BY <1>1, <1>2, <1>5, <3>1 DEF Emptied
  <2>3. Rest = [panes EXCEPT ![src] = p]
    BY <1>1, <1>2, <1>3, <2>1, <2>7 DEF Rest, Lighter
  <2>4. TermsLeft = (terminals \ Terms(old)) \cup Terms(p) /\ TermsLeft \subseteq 0 .. nextPane - 1
    BY <1>1, <1>2, <1>7, <1>8, <2>2, SoundFacts DEF TermsLeft
  <2>5. \A t \in Terms(p) : t \in terminals => t \in Terms(old)
    BY <2>2
  <2>6. Held([panes EXCEPT ![src] = p], nextPane, TermsLeft, servers, previews, outputPanes)
    <3>1. Held(panes, nextPane, terminals, servers, previews, outputPanes)
      BY DEF Sound, HeldNow
    <3>2. /\ src \in DOMAIN panes /\ IsPane(p) /\ p.kind = panes[src].kind
          /\ \A t \in Terms(p) : t \in terminals => t \in Terms(panes[src])
          /\ TermsLeft = (terminals \ Terms(panes[src])) \cup Terms(p)
          /\ TermsLeft \subseteq 0 .. nextPane - 1
      BY <1>2, <1>4, <2>2, <2>4, <2>5
    <3> QED
      BY <3>1, <3>2, HeldChange
  <2> QED
    BY <1>1, <1>2, <1>7, <1>8, <2>3, <2>6, <2>7
<1>10. CASE n = 1
  <2>1. Emptied
    BY <1>1, <1>2, <1>5, <1>10 DEF Emptied, CanMove
  <2>2. Rest = But(panes, src)
    <3>1. DOMAIN Lighter = DOMAIN panes /\ \A id \in DOMAIN panes \ {src} : Lighter[id] = panes[id]
      BY <1>1 DEF Lighter
    <3> QED
      BY <1>1, <2>1, <3>1 DEF Rest, But
  <2>3. TermsLeft = terminals \ Terms(old)
    <3>1. CASE old.kind = "Terminal"
      <4>1. Items(old) = old.terms
        BY <1>4, <3>1, PaneItems
      <4>2. Terms(old) = {Items(old)[1]} /\ i = 1
        BY <1>4, <1>6, <1>10, <4>1 DEF Terms, Range
      <4> QED
        BY <1>1, <1>2, <1>8, <3>1, <4>2 DEF TermsLeft
    <3>2. CASE old.kind # "Terminal"
      BY <1>1, <1>2, <1>4, <3>2, PaneItems DEF TermsLeft
    <3> QED
      BY <3>1, <3>2
  <2>4. Held(But(panes, src), nextPane, TermsLeft, servers, previews, outputPanes)
    BY <1>2, <1>4, <2>3, HeldGoes DEF Sound, HeldNow
  <2>5. /\ DOMAIN But(panes, src) = DOMAIN panes \ {src}
        /\ \A id \in DOMAIN panes : id # src => But(panes, src)[id] = panes[id]
    BY DEF But
  <2> QED
    BY <1>1, <1>2, <1>7, <1>8, <2>1, <2>2, <2>4, <2>5
<1> QED
  BY <1>5, <1>6, <1>9, <1>10

\* The layout once an emptied source is gone from it.
Pruned(tree) ==
    IF ~Emptied THEN tree
    ELSE IF RemovePane(tree, drag.source) = NoTree THEN Leaf(0)
    ELSE RemovePane(tree, drag.source)

LEMMA PrunedIsFine ==
  ASSUME NEW ps, NEW tree, NEW outs, NEW at, LayoutOk(ps, tree, outs, at),
         NEW qs, DOMAIN qs = IF Emptied THEN DOMAIN ps \ {drag.source} ELSE DOMAIN ps,
         NEW to \in Leaves(tree), Emptied => to # drag.source
  PROVE  LayoutOk(qs, Pruned(tree), outs, to)
<1>1. CASE ~Emptied
  BY <1>1 DEF Pruned, LayoutOk
<1>2. CASE Emptied
  <2>1. LayoutOk(qs, RemovePane(tree, drag.source), outs, to)
    BY <1>2, LayoutRemove
  <2>2. to \in Leaves(RemovePane(tree, drag.source))
    BY <2>1 DEF LayoutOk
  <2>3. Pruned(tree) = RemovePane(tree, drag.source)
    BY <1>2, <2>2, SomeTree DEF Pruned
  <2> QED
    BY <2>1, <2>3
<1> QED
  BY <1>1, <1>2

LEMMA DropInKeeps ==
  ASSUME Sound, CanMove, drag.source # drag.target,
         panes[drag.target].kind = panes[drag.source].kind,
         panes' = [Rest EXCEPT ![drag.target] = Added(@, Dragged)],
         layout' = Pruned(layout), focus' = drag.target, nextPane' = nextPane, DragOk(drag'),
         UNCHANGED <<terminals, servers, previews, ended, outputPanes>>
  PROVE  Fine
<1>1. PICK dst : dst = drag.target
  OBVIOUS
<1>2. PICK src : src = drag.source
  OBVIOUS
<1>3. /\ dst \in Leaves(layout) /\ dst \in DOMAIN panes /\ IsPane(panes[dst]) /\ src \in DOMAIN panes
      /\ panes[dst].kind # "MarkdownPreview"
  BY <1>1, <1>2, SoundFacts DEF CanMove
<1>4. Rest[dst] = panes[dst] /\ dst \in DOMAIN Rest
  BY <1>1, <1>3, RestIsHeld
<1>5. panes[dst].kind = "Terminal" => Dragged \in terminals /\ Dragged \notin Terms(panes[dst])
  BY <1>1, <1>2, <1>3, RestIsHeld, SoundFacts DEF TermsFit
<1>6. PICK p : p = Added(panes[dst], Dragged)
  OBVIOUS
<1>7. /\ IsPane(p) /\ p.kind = panes[dst].kind
      /\ Terms(p) = IF p.kind = "Terminal" THEN Terms(panes[dst]) \cup {Dragged} ELSE Terms(panes[dst])
  BY <1>3, <1>5, <1>6, AddedIsPane
<1>8. PICK qs : qs = [Rest EXCEPT ![dst] = p]
  OBVIOUS
<1>9. panes' = qs /\ DOMAIN qs = DOMAIN Rest
  BY <1>1, <1>4, <1>6, <1>8
<1>10. terminals = (TermsLeft \ Terms(panes[dst])) \cup Terms(p) /\ terminals \subseteq 0 .. nextPane - 1
  <2>1. Terms(panes[dst]) \subseteq terminals /\ terminals \subseteq 0 .. nextPane - 1
    BY <1>3, SoundFacts DEF TermsFit
  <2>2. TermsLeft = IF p.kind = "Terminal" THEN terminals \ {Dragged} ELSE terminals
    BY <1>1, <1>7 DEF TermsLeft
  <2> QED
    BY <1>5, <1>7, <2>1, <2>2
<1>11. \A t \in Terms(p) : t \in TermsLeft => t \in Terms(Rest[dst])
  BY <1>1, <1>4, <1>7 DEF TermsLeft
<1>12. Held(qs, nextPane, terminals, servers, previews, outputPanes)
  BY <1>4, <1>7, <1>8, <1>10, <1>11, RestIsHeld, HeldChange
<1>13. LayoutOk(qs, Pruned(layout), outputPanes, dst)
  BY <1>1, <1>3, <1>9, RestIsHeld, PrunedIsFine DEF Sound
<1> QED
  BY <1>1, <1>9, <1>12, <1>13 DEF Fine, Sound, HeldNow

LEMMA DropBesideKeeps ==
  ASSUME Sound, CanMove, NEW half \in {0, 1},
         panes' = With(Rest, nextPane, IF panes[drag.source].kind = "Terminal"
                                       THEN TerminalPane(Dragged) ELSE EditorPane(Dragged)),
         layout' = Pruned(InsertPane(layout, drag.target, nextPane, half)),
         focus' = nextPane, nextPane' = nextPane + 1, DragOk(drag'),
         UNCHANGED <<terminals, servers, previews, ended, outputPanes>>
  PROVE  Fine
<1>1. PICK n : n = nextPane
  OBVIOUS
<1>2. PICK src : src = drag.source
  OBVIOUS
<1>3. n \in Nat /\ src \in DOMAIN panes /\ n \notin DOMAIN panes /\ drag.target \in Leaves(layout)
  BY <1>1, <1>2, SoundFacts DEF CanMove
<1>4. PICK pane : pane = IF panes[src].kind = "Terminal" THEN TerminalPane(Dragged)
                         ELSE EditorPane(Dragged)
  OBVIOUS
<1>5. /\ IsPane(pane) /\ pane.kind # "MarkdownPreview"
      /\ Terms(pane) = IF panes[src].kind = "Terminal" THEN {Dragged} ELSE {}
  BY <1>4, NewPanesArePanes
<1>6. panes[src].kind = "Terminal" => Dragged \in terminals /\ Dragged \in 0 .. n - 1
  BY <1>1, <1>2, <1>3, RestIsHeld, SoundFacts DEF TermsFit
<1>7. TermsLeft \cup Terms(pane) = terminals
      /\ \A t \in Terms(pane) : t \notin TermsLeft /\ t \in 0 .. (n + 1) - 1
  <2>1. CASE panes[src].kind = "Terminal"
    <3>1. Terms(pane) = {Dragged} /\ TermsLeft = terminals \ {Dragged}
      BY <1>2, <1>5, <2>1 DEF TermsLeft
    <3> QED
      BY <1>3, <1>6, <2>1, <3>1
  <2>2. CASE panes[src].kind # "Terminal"
    BY <1>2, <1>5, <2>2 DEF TermsLeft
  <2> QED
    BY <2>1, <2>2
<1>8. PICK qs : qs = With(Rest, n, pane)
  OBVIOUS
<1>9. Held(qs, n + 1, terminals, servers, previews, outputPanes)
  <2>1. Held(Rest, n, TermsLeft, servers, previews, outputPanes)
    BY <1>1, RestIsHeld
  <2>2. n + 1 \in Nat /\ n < n + 1
    BY <1>3
  <2>3. Held(qs, n + 1, TermsLeft \cup Terms(pane), servers, previews, outputPanes)
    BY <1>5, <1>7, <1>8, <2>1, <2>2, HeldComes
  <2> QED
    BY <1>7, <2>3
<1>10. panes' = qs
  BY <1>1, <1>2, <1>4, <1>8
<1>11. PICK ps : ps = With(panes, n, pane)
  OBVIOUS
<1>12. DOMAIN ps = DOMAIN panes \cup {n}
  BY <1>11 DEF With
<1>13. DOMAIN qs = IF Emptied THEN DOMAIN ps \ {src} ELSE DOMAIN ps
  <2>1. DOMAIN qs = DOMAIN Rest \cup {n}
    BY <1>8 DEF With
  <2>2. DOMAIN Rest = IF Emptied THEN DOMAIN panes \ {src} ELSE DOMAIN panes
    BY <1>2, RestIsHeld
  <2> QED
    BY <1>3, <1>12, <2>1, <2>2
<1>14. PICK tree : tree = InsertPane(layout, drag.target, n, half)
  OBVIOUS
<1>15. LayoutOk(ps, tree, outputPanes, n)
  BY <1>1, <1>3, <1>12, <1>14, SoundFacts, LayoutInsert DEF Sound
<1>16. n \in Leaves(tree) /\ n # src
  BY <1>3, <1>15 DEF LayoutOk
<1>17. LayoutOk(qs, Pruned(tree), outputPanes, n)
  BY <1>2, <1>13, <1>15, <1>16, PrunedIsFine
<1> QED
  BY <1>1, <1>9, <1>10, <1>14, <1>17 DEF Fine, Sound, HeldNow

LEMMA ReleaseKeeps ==
  ASSUME Sound, Release
  PROVE  Fine
<1>1. strayed' = (strayed \/ Stale) /\ drag.stage = "over"
  BY DEF Release
<1>2. CASE Stale
  BY <1>1, <1>2 DEF Fine
<1>3. CASE ~Stale
  <2>1. drag.source \in DOMAIN panes /\ drag.target \in Leaves(layout) /\ drag.target \in DOMAIN panes
    BY <1>3, SoundFacts DEF Stale
  <2>2. ~DropPanics
    BY <2>1 DEF DropPanics
  <2>3. drag' = NoDrag /\ UNCHANGED <<terminals, servers, previews, ended, outputPanes>>
    BY <2>2 DEF Release
  <2>4. DragOk(drag') /\ drag.item \in Nat \ {0}
    BY <1>1, <2>3 DEF NoDrag, DragOk, Sound
  <2>5. KindOf(drag.source) = panes[drag.source].kind /\ KindOf(drag.target) = panes[drag.target].kind
    BY <2>1 DEF KindOf
  <2>6. CASE UNCHANGED <<panes, layout, focus, nextPane>>
    BY <2>3, <2>4, <2>6 DEF Fine, Sound, HeldNow
  <2>7. CASE ~Refused /\ KindOf(drag.source) = "MarkdownPreview" /\ DropPreview
    <3>1. drag.source # drag.target
      BY <2>7 DEF Refused
    <3> QED
      BY <2>1, <2>3, <2>4, <2>7, <3>1, DropPreviewKeeps
  <2>8. CASE ~Refused /\ KindOf(drag.source) # "MarkdownPreview" /\ DropItem
    <3>1. /\ ~(drag.item > Len(Items(panes[drag.source])))
          /\ ~(drag.source = drag.target /\ (drag.zone = Center \/ Len(Items(panes[drag.source])) = 1))
          /\ ~(drag.zone = Center /\ KindOf(drag.target) # KindOf(drag.source))
      BY <2>1, <2>8 DEF Refused
    <3>2. IsPane(panes[drag.source])
      BY <2>1, SoundFacts
    <3>3. drag.item \in DOMAIN Items(panes[drag.source])
      BY <2>4, <3>1, <3>2, PaneItems
    <3>4. CanMove
      BY <2>1, <2>5, <2>8, <3>1, <3>3 DEF CanMove
    <3>5. CASE drag.zone = Center
      <4>1. drag.source # drag.target /\ panes[drag.target].kind = panes[drag.source].kind
        BY <2>5, <3>1, <3>5
      <4>2. /\ panes' = IF Emptied
                        THEN [id \in DOMAIN [Lighter EXCEPT ![drag.target] = Added(@, Dragged)] \ {drag.source}
                                |-> [Lighter EXCEPT ![drag.target] = Added(@, Dragged)][id]]
                        ELSE [Lighter EXCEPT ![drag.target] = Added(@, Dragged)]
            /\ layout' = Pruned(layout) /\ focus' = drag.target /\ nextPane' = nextPane
        BY <2>8, <3>5 DEF DropItem, Emptied, Lighter, Dragged, Pruned
      <4>3. panes' = [Rest EXCEPT ![drag.target] = Added(@, Dragged)]
        <5>1. CASE ~Emptied
          BY <4>2, <5>1 DEF Rest
        <5>2. CASE Emptied
          <6>1. PICK a : a = Added(Lighter[drag.target], Dragged)
            OBVIOUS
          <6>2. PICK f : f = Lighter
            OBVIOUS
          <6>3. PICK g : g = But(f, drag.source)
            OBVIOUS
          <6>4. drag.target \in DOMAIN f /\ f[drag.target] = Lighter[drag.target]
            BY <2>1, <6>2 DEF Lighter
          <6>5. g[drag.target] = f[drag.target] /\ DOMAIN g = DOMAIN f \ {drag.source}
                /\ drag.target \in DOMAIN g
                /\ \A id \in DOMAIN g : g[id] = f[id]
            BY <4>1, <6>3, <6>4 DEF But
          <6>6. panes' = [id \in DOMAIN f \ {drag.source} |-> [f EXCEPT ![drag.target] = a][id]]
            BY <4>2, <5>2, <6>1, <6>2
          <6>7. [g EXCEPT ![drag.target] = a] = panes'
            BY <6>5, <6>6
          <6>8. Rest = g /\ Added(Rest[drag.target], Dragged) = a
            BY <5>2, <6>1, <6>2, <6>3, <6>5 DEF Rest
          <6> QED
            BY <6>7, <6>8
        <5> QED
          BY <5>1, <5>2
      <4> QED
        BY <2>3, <2>4, <3>4, <4>1, <4>2, <4>3, DropInKeeps
    <3>6. CASE drag.zone # Center
      <4>1. PICK half \in {0, 1} : half = Half(drag.zone)
        BY DEF Half
      <4>2. /\ panes' = With(Rest, nextPane, IF panes[drag.source].kind = "Terminal"
                                             THEN TerminalPane(Dragged) ELSE EditorPane(Dragged))
            /\ layout' = Pruned(InsertPane(layout, drag.target, nextPane, half))
            /\ focus' = nextPane /\ nextPane' = nextPane + 1
        BY <2>8, <3>6, <4>1 DEF DropItem, Ids, Emptied, Lighter, Dragged, Pruned, Rest, But
      <4> QED
        BY <2>3, <2>4, <3>4, <4>1, <4>2, DropBesideKeeps
    <3> QED
      BY <3>5, <3>6
  <2> QED
    BY <2>2, <2>6, <2>7, <2>8 DEF Release
<1> QED
  BY <1>2, <1>3

-----------------------------------------------------------------------------
(* The invariant.                                                          *)

PaneInv == ~strayed => ended # "panicked" /\ (ended = "no" => Sound)

LEMMA PanesBeginSound == PaneInit => PaneInv
<1> SUFFICES ASSUME PaneInit PROVE Sound /\ ended = "no"
  BY DEF PaneInv
<1>1. PICK begin \in Begins : panes = [id \in {0} |-> EditorPane(begin.tab)]
  BY DEF PaneInit
<1>2. PICK p : p = EditorPane(begin.tab)
  OBVIOUS
<1>3. IsPane(p) /\ Terms(p) = {} /\ p.kind = "Editor"
  BY <1>2, NewPanesArePanes
<1>4. /\ DOMAIN panes = {0} /\ panes[0] = p /\ panes = [id \in DOMAIN panes |-> panes[id]]
      /\ layout = Leaf(0) /\ focus = 0 /\ nextPane = 1
      /\ terminals = {} /\ servers = {} /\ outputPanes = {}
      /\ previews = [id \in {} |-> NoBook] /\ drag = [stage |-> "none"] /\ ended = "no"
  BY <1>1, <1>2 DEF PaneInit
<1>5. PanesOk(panes, nextPane)
  BY <1>3, <1>4 DEF PanesOk
<1>6. TermsFit(panes, terminals)
  BY <1>3, <1>4 DEF TermsFit
<1>7. PreviewsOk(panes, previews)
  BY <1>3, <1>4 DEF PreviewsOk
<1>8. OutputsOk(panes, servers, outputPanes, nextPane)
  BY <1>4 DEF OutputsOk
<1>9. LayoutOk(panes, layout, outputPanes, focus)
  BY <1>4, LeafIsTree DEF LayoutOk
<1>10. DragOk(drag)
  BY <1>4 DEF DragOk
<1> QED
  BY <1>4, <1>5, <1>6, <1>7, <1>8, <1>9, <1>10 DEF Sound, HeldNow, Held

\* Only a running program moves, and what has strayed stays so while it runs.
LEMMA RunningMoves ==
  ASSUME PaneNext
  PROVE  ended = "no" /\ (strayed => strayed' \/ ended' = "exited")
<1> USE DEF Acts, Runs
<1>1. CASE EnsureActivePane
  BY <1>1 DEF EnsureActivePane
<1>2. ASSUME NEW id \in DOMAIN panes, NEW i \in 1 .. MaxItems, CloseItem(id, i) \/ ClickItem(id, i)
      PROVE  ended = "no" /\ (strayed => strayed' \/ ended' = "exited")
  BY <1>2 DEF CloseItem, ClickItem, HideOutput, CloseLast, CloseOneOf, RemoveFromLayout
<1>3. CASE ClosePreview
  BY <1>3 DEF ClosePreview, RemoveFromLayout
<1>4. CASE SplitByKey
  BY <1>4 DEF SplitByKey
<1>5. CASE OpenFile
  <2>1. PICK tab : OpenTab(tab)
    BY <1>5 DEF OpenFile
  <2> QED
    BY <2>1 DEF OpenTab
<1>6. CASE NewTab
  BY <1>6 DEF NewTab
<1>7. CASE OpenTerminal
  BY <1>7 DEF OpenTerminal
<1>8. CASE OpenPreview
  BY <1>8 DEF OpenPreview
<1>9. ASSUME NEW half \in {0, 1}, SplitByCommand(half)
      PROVE  ended = "no" /\ (strayed => strayed' \/ ended' = "exited")
  BY <1>9 DEF SplitByCommand
<1>10. CASE StartServer
  BY <1>10 DEF StartServer
<1>11. CASE GitOpDone
  BY <1>11 DEF GitOpDone
<1>12. ASSUME NEW id \in servers, StopServer(id) \/ ShowOutput(id)
       PROVE  ended = "no" /\ (strayed => strayed' \/ ended' = "exited")
  BY <1>12 DEF StopServer, ShowOutput
<1>13. ASSUME NEW id \in Leaves(layout), ClickPane(id)
       PROVE  ended = "no" /\ (strayed => strayed' \/ ended' = "exited")
  BY <1>13 DEF ClickPane
<1>14. ASSUME NEW id \in Leaves(layout), NEW zone \in {Center, "before", "after"}, DragOver(id, zone)
       PROVE  ended = "no" /\ (strayed => strayed' \/ ended' = "exited")
  BY <1>14 DEF DragOver
<1>15. CASE DragEnds
  BY <1>15 DEF DragEnds
<1>16. CASE Release
  BY <1>16 DEF Release
<1> QED
  BY <1>1, <1>2, <1>3, <1>4, <1>5, <1>6, <1>7, <1>8, <1>9, <1>10, <1>11, <1>12, <1>13,
     <1>14, <1>15, <1>16 DEF PaneNext

LEMMA StepsAreFine ==
  ASSUME Sound, PaneNext
  PROVE  Fine
<1>1. CASE EnsureActivePane
  BY <1>1, SoundFacts DEF EnsureActivePane
<1>2. ASSUME NEW id \in DOMAIN panes, NEW i \in 1 .. MaxItems, CloseItem(id, i) \/ ClickItem(id, i)
      PROVE  Fine
  BY <1>2, CloseItemKeeps, ClickItemKeeps
<1>3. CASE ClosePreview
  BY <1>3, ClosePreviewKeeps
<1>4. CASE SplitByKey
  BY <1>4, SplitByKeyKeeps
<1>5. CASE OpenFile
  <2>1. PICK tab : OpenTab(tab)
    BY <1>5 DEF OpenFile
  <2> QED
    BY <2>1, OpenTabKeeps
<1>6. CASE NewTab
  BY <1>6, NewTabKeeps
<1>7. CASE OpenTerminal
  BY <1>7, OpenTerminalKeeps
<1>8. CASE OpenPreview
  BY <1>8, OpenPreviewKeeps
<1>9. ASSUME NEW half \in {0, 1}, SplitByCommand(half) PROVE Fine
  BY <1>9, SplitByCommandKeeps
<1>10. CASE StartServer
  BY <1>10, StartServerKeeps
<1>11. CASE GitOpDone
  BY <1>11, GitOpDoneKeeps
<1>12. ASSUME NEW id \in servers, StopServer(id) \/ ShowOutput(id) PROVE Fine
  BY <1>12, StopServerKeeps, ShowOutputKeeps
<1>13. ASSUME NEW id \in Leaves(layout), ClickPane(id) PROVE Fine
  BY <1>13, ClickPaneKeeps
<1>14. ASSUME NEW id \in Leaves(layout), NEW zone \in {Center, "before", "after"}, DragOver(id, zone)
       PROVE  Fine
  BY <1>14, DragOverKeeps
<1>15. CASE DragEnds
  BY <1>15, DragEndsKeeps
<1>16. CASE Release
  BY <1>16, ReleaseKeeps
<1> QED
  BY <1>1, <1>2, <1>3, <1>4, <1>5, <1>6, <1>7, <1>8, <1>9, <1>10, <1>11, <1>12, <1>13,
     <1>14, <1>15, <1>16 DEF PaneNext

LEMMA PanesStaySound == PaneInv /\ [PaneNext]_paneVars => PaneInv'
<1> SUFFICES ASSUME PaneInv, [PaneNext]_paneVars PROVE PaneInv'
  OBVIOUS
<1>1. CASE UNCHANGED paneVars
  BY <1>1 DEF PaneInv, paneVars, Sound, HeldNow
<1>2. CASE PaneNext
  <2>1. ended = "no" /\ (strayed => strayed' \/ ended' = "exited")
    BY <1>2, RunningMoves
  <2>2. CASE strayed
    BY <2>1, <2>2 DEF PaneInv
  <2>3. CASE ~strayed
    <3>1. Sound
      BY <2>1, <2>3 DEF PaneInv
    <3>2. strayed' \/ ended' = "exited" \/ (ended' = ended /\ Sound')
      BY <1>2, <3>1, StepsAreFine DEF Fine
    <3> QED
      BY <2>1, <3>2 DEF PaneInv
  <2> QED
    BY <2>2, <2>3
<1> QED
  BY <1>1, <1>2

LEMMA SoundFits ==
  ASSUME Sound
  PROVE  LayoutFits /\ ContentsFit
<1>1. IsInjective(layout)
  BY SoundFacts DEF Tree, IsInjective
<1>2. LayoutFits
  BY <1>1, SoundFacts DEF LayoutFits
<1>3. \A id \in DOMAIN panes : \/ panes[id].kind = "MarkdownPreview"
                               \/ panes[id].shown \in DOMAIN Items(panes[id])
  BY SoundFacts, PaneItems
<1>4. TermsFit(panes, terminals)
  BY SoundFacts
<1>5. terminals = UNION {Range(panes[id].terms) : id \in DOMAIN panes}
  <2>1. \A id \in DOMAIN panes : Range(panes[id].terms) \subseteq terminals
    BY <1>4 DEF TermsFit, Terms
  <2>2. \A t \in terminals : \E id \in DOMAIN panes : t \in Range(panes[id].terms)
    BY <1>4 DEF TermsFit, Terms
  <2> QED
    BY <2>1, <2>2
<1>6. \A a, b \in DOMAIN panes : \A i \in DOMAIN panes[a].terms, j \in DOMAIN panes[b].terms :
         panes[a].terms[i] = panes[b].terms[j] => a = b /\ i = j
  <2> TAKE a, b \in DOMAIN panes
  <2> TAKE i \in DOMAIN panes[a].terms, j \in DOMAIN panes[b].terms
  <2> HAVE panes[a].terms[i] = panes[b].terms[j]
  <2>1. panes[a].terms[i] \in Terms(panes[a]) /\ panes[a].terms[i] \in Terms(panes[b])
    BY DEF Terms, Range
  <2>2. a = b
    BY <1>4, <2>1 DEF TermsFit
  <2>3. Once(panes[a].terms)
    BY SoundFacts DEF IsPane
  <2> QED
    BY <2>2, <2>3 DEF Once
<1>7. /\ DOMAIN previews = {id \in DOMAIN panes : panes[id].kind = "MarkdownPreview"}
      /\ IsInjective(previews)
  BY SoundFacts DEF PreviewsOk, IsInjective
<1> QED
  BY <1>2, <1>3, <1>5, <1>6, <1>7 DEF ContentsFit

\* Whatever the user and the events do, panes and layout stay sound
\* (PanesSound), for any number of panes, tabs and steps.
THEOREM PanesAlwaysSound == PaneSpec => []PanesSound
<1>1. PaneInv => PanesSound
  BY SoundFits DEF PaneInv, PanesSound
<1> QED
  BY <1>1, PanesBeginSound, PanesStaySound, PTL DEF PaneSpec

-----------------------------------------------------------------------------
(* Rows and cells.                                                         *)

IsSaved(g, s) ==
    /\ s = [cells |-> s.cells, col |-> s.col, row |-> s.row, top |-> s.top, bot |-> s.bot]
    /\ DOMAIN s.cells = 0 .. g.cols * g.rows - 1
    /\ s.row \in 0 .. LastRow(g) /\ s.col \in 0 .. g.cols
    /\ s.top \in Nat /\ s.bot \in Nat /\ s.top <= s.bot /\ s.bot <= LastRow(g)
IsGrid(g) ==
    /\ g = [cols |-> g.cols, rows |-> g.rows, cells |-> g.cells, col |-> g.col, row |-> g.row,
            top |-> g.top, bot |-> g.bot, alt |-> g.alt, savedCol |-> g.savedCol,
            savedRow |-> g.savedRow, back |-> g.back, offset |-> g.offset]
    /\ g.cols \in Nat /\ g.rows \in Nat /\ (g.rows = 0 => g.cols = 0)
    /\ DOMAIN g.cells = 0 .. g.cols * g.rows - 1
    /\ g.row \in 0 .. LastRow(g) /\ g.col \in 0 .. g.cols
    /\ g.top \in Nat /\ g.bot \in Nat /\ g.top <= g.bot /\ g.bot <= LastRow(g)
    /\ g.savedCol \in Nat /\ g.savedRow \in Nat /\ g.offset \in Nat
    /\ List(g.back) /\ Len(g.back) <= Limit
    /\ g.alt # NoScreen => IsSaved(g, g.alt)

LEMMA SizeIs ==
  ASSUME NEW n \in Nat, NEW cells, DOMAIN cells = 0 .. n - 1
  PROVE  Size(cells) = n /\ cells # Panic
<1>1. Cardinality(0 .. n - 1) = n
  BY FS_Interval
<1>2. -1 \notin 0 .. n - 1 /\ DOMAIN Panic = {-1}
  BY DEF Panic
<1> QED
  BY <1>1, <1>2 DEF Size

LEMMA ClearedFits ==
  ASSUME NEW n \in Nat, NEW cells, DOMAIN cells = 0 .. n - 1,
         NEW lo \in Nat, NEW hi \in Nat, lo <= hi, hi <= n
  PROVE  DOMAIN Cleared(cells, lo, hi) = 0 .. n - 1
  BY SizeIs DEF Cleared, InRange

LEMMA CopiedFits ==
  ASSUME NEW n \in Nat, NEW cells, DOMAIN cells = 0 .. n - 1,
         NEW lo \in Nat, NEW hi \in Nat, lo <= hi, hi <= n, NEW to \in Nat, to + (hi - lo) <= n
  PROVE  DOMAIN CopiedTo(cells, lo, hi, to) = 0 .. n - 1
<1>1. Size(cells) = n /\ cells # Panic
  BY SizeIs
<1>2. InRange(cells, lo, hi) /\ ~(to + (hi - lo) > Size(cells))
  BY <1>1 DEF InRange
<1> QED
  BY <1>2 DEF CopiedTo

LEMMA MovedFits ==
  ASSUME NEW n \in Nat, NEW cells, DOMAIN cells = 0 .. n - 1,
         NEW lo \in Nat, NEW hi \in Nat, NEW to \in Nat,
         hi > lo => hi <= n /\ to + (hi - lo) <= n
  PROVE  DOMAIN Moved(cells, lo, hi, to) = 0 .. n - 1
  BY CopiedFits DEF Moved

LEMMA Products ==
  ASSUME NEW a \in Nat, NEW b \in Nat, NEW c \in Nat
  PROVE  /\ a * c \in Nat /\ c * a = a * c /\ (a + 1) * c = a * c + c /\ (a + b) * c = a * c + b * c
         /\ a <= b => a * c <= b * c
<1>1. a * c \in Nat /\ b * c \in Nat /\ c * a = a * c
  OBVIOUS
<1>2. (a + 1) * c = a * c + c /\ (a + b) * c = a * c + b * c
  OBVIOUS
<1>3. ASSUME a <= b PROVE a * c <= b * c
  <2>1. PICK d \in Nat : b = a + d
    <3>1. b - a \in Nat /\ b = a + (b - a)
      BY <1>3
    <3> QED
      BY <3>1
  <2>2. (a + d) * c = a * c + d * c /\ d * c \in Nat
    OBVIOUS
  <2> QED
    BY <1>1, <2>1, <2>2
<1> QED
  BY <1>1, <1>2, <1>3

\* Rows end within the vector, however few there are.
LEMMA RowsFit ==
  ASSUME NEW g, IsGrid(g)
  PROVE  /\ LastRow(g) \in Nat /\ LastCol(g) \in 0 .. g.cols
         /\ Size(g.cells) = g.cols * g.rows /\ Size(g.cells) \in Nat
         /\ DOMAIN g.cells = 0 .. Size(g.cells) - 1 /\ g.cells # Panic
         /\ RegionEnd(g) = g.bot
         /\ \A r \in Nat : r * g.cols \in Nat /\ (r + 1) * g.cols = r * g.cols + g.cols
                           /\ (r <= LastRow(g) + 1 => r * g.cols <= Size(g.cells))
<1>1. g.cols \in Nat /\ g.rows \in Nat /\ (g.rows = 0 => g.cols = 0)
      /\ g.bot \in Nat /\ g.bot <= LastRow(g)
  BY DEF IsGrid
<1>2. LastRow(g) \in Nat /\ LastCol(g) \in 0 .. g.cols
  BY <1>1 DEF LastRow, LastCol, Minus
<1>3. g.cols * g.rows \in Nat
  BY <1>1
<1>4. Size(g.cells) = g.cols * g.rows /\ g.cells # Panic
      /\ DOMAIN g.cells = 0 .. g.cols * g.rows - 1
  BY <1>3, SizeIs DEF IsGrid
<1>5. RegionEnd(g) = g.bot
  BY <1>1, <1>2 DEF RegionEnd, Lesser
<1>6. ASSUME NEW r \in Nat
      PROVE  r * g.cols \in Nat /\ (r + 1) * g.cols = r * g.cols + g.cols
             /\ (r <= LastRow(g) + 1 => r * g.cols <= g.cols * g.rows)
  <2>1. CASE g.cols = 0
    <3>1. r * g.cols = 0 /\ (r + 1) * g.cols = 0 /\ g.cols * g.rows = 0
      BY <1>1, <2>1
    <3> QED
      BY <2>1, <3>1
  <2>2. CASE g.rows # 0
    <3>1. r <= LastRow(g) + 1 => r <= g.rows
      BY <1>1, <2>2 DEF LastRow, Minus
    <3>2. r <= g.rows => r * g.cols <= g.rows * g.cols
      BY <1>1, Products
    <3>3. r * g.cols \in Nat /\ (r + 1) * g.cols = r * g.cols + g.cols
          /\ g.rows * g.cols = g.cols * g.rows
      BY <1>1, Products
    <3> QED
      BY <3>1, <3>2, <3>3
  <2> QED
    BY <1>1, <2>1, <2>2
<1> QED
  BY <1>2, <1>3, <1>4, <1>5, <1>6

LEMMA GridFacts ==
  ASSUME NEW g, IsGrid(g)
  PROVE  /\ LastRow(g) \in Nat /\ LastCol(g) \in 0 .. g.cols /\ g.cols \in Nat
         /\ Size(g.cells) \in Nat /\ DOMAIN g.cells = 0 .. Size(g.cells) - 1 /\ RegionEnd(g) = g.bot
         /\ g.row \in 0 .. LastRow(g) /\ g.col \in 0 .. g.cols
<1>1. g.row \in 0 .. LastRow(g) /\ g.col \in 0 .. g.cols /\ g.cols \in Nat
  BY DEF IsGrid
<1> QED
  BY <1>1, RowsFit

\* New cells, and another place of the cursor.
Drawn(g, cells, row, col) == [g EXCEPT !.cells = cells, !.row = row, !.col = col]
LEMMA DrawnIsGrid ==
  ASSUME NEW g, IsGrid(g), NEW cells, DOMAIN cells = DOMAIN g.cells,
         NEW row \in 0 .. LastRow(g), NEW col \in 0 .. g.cols
  PROVE  IsGrid(Drawn(g, cells, row, col))
<1>1. PICK h : h = Drawn(g, cells, row, col)
  OBVIOUS
<1>2. h = [cols |-> g.cols, rows |-> g.rows, cells |-> cells, col |-> col, row |-> row,
           top |-> g.top, bot |-> g.bot, alt |-> g.alt, savedCol |-> g.savedCol,
           savedRow |-> g.savedRow, back |-> g.back, offset |-> g.offset]
  BY <1>1 DEF Drawn, IsGrid
<1>3. LastRow(h) = LastRow(g)
  BY <1>2 DEF LastRow
<1>4. h.alt # NoScreen => IsSaved(h, h.alt)
  BY <1>2, <1>3 DEF IsSaved, IsGrid
<1> QED
  BY <1>1, <1>2, <1>3, <1>4 DEF IsGrid
LEMMA Redrawn ==
  ASSUME NEW g, IsGrid(g)
  PROVE  /\ \A r : [g EXCEPT !.row = r] = Drawn(g, g.cells, r, g.col)
         /\ \A c : [g EXCEPT !.col = c] = Drawn(g, g.cells, g.row, c)
         /\ \A r, c : [g EXCEPT !.row = r, !.col = c] = Drawn(g, g.cells, r, c)
         /\ \A q : WithCells(g, q) = Drawn(g, q, g.row, g.col)
  BY DEF IsGrid, Drawn, WithCells

\* Other lines above the screen.
LEMMA BackIsGrid ==
  ASSUME NEW g, IsGrid(g), NEW back, List(back), Len(back) <= Limit
  PROVE  LET h == [g EXCEPT !.back = back]
         IN  IsGrid(h) /\ h.cells = g.cells /\ h.row = g.row /\ h.col = g.col /\ h.cols = g.cols
             /\ LastRow(h) = LastRow(g)
<1>1. PICK h : h = [g EXCEPT !.back = back]
  OBVIOUS
<1>2. h = [cols |-> g.cols, rows |-> g.rows, cells |-> g.cells, col |-> g.col, row |-> g.row,
           top |-> g.top, bot |-> g.bot, alt |-> g.alt, savedCol |-> g.savedCol,
           savedRow |-> g.savedRow, back |-> back, offset |-> g.offset]
  BY <1>1 DEF IsGrid
<1>3. LastRow(h) = LastRow(g)
  BY <1>2 DEF LastRow
<1>4. h.alt # NoScreen => IsSaved(h, h.alt)
  BY <1>2, <1>3 DEF IsSaved, IsGrid
<1>5. IsGrid(h)
  BY <1>2, <1>3, <1>4 DEF IsGrid
<1> QED
  BY <1>1, <1>2, <1>3, <1>5

\* Lines are appended to lines, the oldest go.
LEMMA ListsJoin ==
  ASSUME NEW q, List(q), NEW r, List(r)
  PROVE  List(q \o r) /\ Len(q \o r) = Len(q) + Len(r)
<1>1. PICK S : S = Range(q) \cup Range(r)
  OBVIOUS
<1>2. q \in Seq(S) /\ r \in Seq(S)
  <2>1. q \in Seq(Range(q)) /\ Range(q) \subseteq S /\ r \in Seq(Range(r)) /\ Range(r) \subseteq S
    BY <1>1, ListShape
  <2> QED
    BY <2>1, SeqMonotonic
<1>3. q \o r \in Seq(S) /\ Len(q \o r) = Len(q) + Len(r)
  BY <1>2, ConcatProperties
<1> QED
  BY <1>3 DEF List

LEMMA KeptFits ==
  ASSUME NEW back, List(back), NEW lines, List(lines)
  PROVE  List(Kept(back, lines)) /\ Len(Kept(back, lines)) <= Limit
<1>1. PICK all : all = back \o lines
  OBVIOUS
<1>2. List(all) /\ Limit \in Nat
  BY <1>1, ListsJoin, TerminalAssumption
<1>3. PICK S : all \in Seq(S)
  BY <1>2 DEF List
<1>4. PICK n \in Nat : n = Len(all)
  BY <1>3
<1>5. PICK from : from = Minus(n, Limit) + 1
  OBVIOUS
<1>6. from \in 1 .. n + 1 /\ n - from + 1 <= Limit
  BY <1>2, <1>4, <1>5 DEF Minus
<1>7. PICK r : r = SubSeq(all, from, n)
  OBVIOUS
<1>8. r \in Seq(S) /\ Len(r) = IF from <= n THEN n - from + 1 ELSE 0
  <2>1. from \in Int /\ n \in Int /\ \A j \in from .. n : all[j] \in S
    BY <1>3, <1>4, <1>6
  <2> QED
    BY <1>7, <2>1, SubSeqProperties
<1>9. Kept(back, lines) = r
  BY <1>1, <1>4, <1>5, <1>7 DEF Kept
<1>10. Len(r) <= Limit
  BY <1>2, <1>6, <1>8
<1> QED
  BY <1>8, <1>9, <1>10 DEF List

-----------------------------------------------------------------------------
(* Scrolling, line feeds and printing.                                     *)

SameScreen(g, h) ==
    h.cols = g.cols /\ h.rows = g.rows /\ h.row = g.row /\ h.col = g.col

LEMMA ScrolledUp ==
  ASSUME NEW g, IsGrid(g)
  PROVE  IsGrid(ScrollUp(g)) /\ SameScreen(g, ScrollUp(g))
<1>1. PICK n : n = Size(g.cells)
  OBVIOUS
<1>2. PICK c : c = g.cols
  OBVIOUS
<1>3. PICK from : from = g.top * c
  OBVIOUS
<1>4. PICK low : low = g.bot * c
  OBVIOUS
<1>5. /\ n \in Nat /\ c \in Nat /\ from \in Nat /\ low \in Nat /\ from <= low
      /\ (g.bot + 1) * c = low + c /\ low + c <= n
      /\ DOMAIN g.cells = 0 .. n - 1
  <2>1. g.top \in Nat /\ g.bot \in Nat /\ g.top <= g.bot /\ g.bot <= LastRow(g) /\ c \in Nat
    BY <1>2 DEF IsGrid
  <2>2. g.bot + 1 \in Nat /\ g.bot + 1 <= LastRow(g) + 1
    BY <2>1, RowsFit
  <2>3. from <= low
    BY <1>3, <1>4, <2>1, Products
  <2> QED
    BY <1>1, <1>2, <1>3, <1>4, <2>1, <2>2, <2>3, RowsFit
<1>6. PICK up : up = IF (g.bot + 1) * c > from + c
                     THEN CopiedTo(g.cells, from + c, (g.bot + 1) * c, from) ELSE g.cells
  OBVIOUS
<1>7. DOMAIN up = 0 .. n - 1
  <2>1. CASE low + c > from + c
    <3>1. from + c \in Nat /\ low + c \in Nat /\ from + c <= low + c
          /\ from + ((low + c) - (from + c)) <= n
      BY <1>5, <2>1
    <3>2. up = CopiedTo(g.cells, from + c, low + c, from)
      BY <1>5, <1>6, <2>1
    <3> QED
      BY <1>5, <3>1, <3>2, CopiedFits
  <2>2. CASE ~(low + c > from + c)
    BY <1>5, <1>6, <2>2
  <2> QED
    BY <2>1, <2>2
<1>8. PICK q : q = Cleared(up, low, low + c)
  OBVIOUS
<1>9. DOMAIN q = 0 .. n - 1
  <2>1. low + c \in Nat /\ low <= low + c
    BY <1>5
  <2> QED
    BY <1>5, <1>7, <1>8, <2>1, ClearedFits
<1>10. PICK line : line = Slice(g.cells, 0, c)
  OBVIOUS
<1>11. PICK back : back = IF g.top = 0 /\ g.bot = LastRow(g) THEN Kept(g.back, <<line>>) ELSE g.back
  OBVIOUS
<1>12. List(back) /\ Len(back) <= Limit
  <2>1. PICK lines : lines = <<line>>
    OBVIOUS
  <2>2. lines \in Seq({line})
    BY <2>1
  <2>3. List(lines)
    BY <2>2 DEF List
  <2>4. List(Kept(g.back, lines)) /\ Len(Kept(g.back, lines)) <= Limit
    BY <2>3, KeptFits DEF IsGrid
  <2> QED
    BY <1>11, <2>1, <2>4 DEF IsGrid
<1>13. PICK h : h = [g EXCEPT !.back = back]
  OBVIOUS
<1>14. /\ IsGrid(h) /\ h.cells = g.cells /\ h.row = g.row /\ h.col = g.col /\ h.cols = g.cols
       /\ LastRow(h) = LastRow(g)
  BY <1>12, <1>13, BackIsGrid
<1>15. ScrollUp(g) = [g EXCEPT !.back = back, !.cells = q]
  BY <1>2, <1>3, <1>4, <1>6, <1>8, <1>10, <1>11, RowsFit DEF ScrollUp
<1>16. PICK k : k = Drawn(h, q, h.row, h.col)
  OBVIOUS
<1>17. IsGrid(k)
  <2>1. h.row \in 0 .. LastRow(h) /\ h.col \in 0 .. h.cols /\ DOMAIN q = DOMAIN h.cells
    BY <1>5, <1>9, <1>14 DEF IsGrid
  <2> QED
    BY <1>14, <1>16, <2>1, DrawnIsGrid
<1>18. ScrollUp(g) = k
  <2>1. k = [h EXCEPT !.cells = q]
    BY <1>14, <1>16, Redrawn DEF WithCells
  <2>2. [h EXCEPT !.cells = q] = [g EXCEPT !.back = back, !.cells = q]
    BY <1>13
  <2> QED
    BY <1>15, <2>1, <2>2
<1>19. SameScreen(g, k)
  BY <1>13, <1>16 DEF IsGrid, Drawn, SameScreen
<1> QED
  BY <1>17, <1>18, <1>19

LEMMA ScrolledDown ==
  ASSUME NEW g, IsGrid(g)
  PROVE  IsGrid(ScrollDown(g)) /\ SameScreen(g, ScrollDown(g))
<1>1. PICK n : n = Size(g.cells)
  OBVIOUS
<1>2. PICK c : c = g.cols
  OBVIOUS
<1>3. PICK from : from = g.top * c
  OBVIOUS
<1>4. PICK low : low = g.bot * c
  OBVIOUS
<1>5. /\ n \in Nat /\ c \in Nat /\ from \in Nat /\ low \in Nat /\ from <= low
      /\ (g.bot + 1) * c = low + c /\ low + c <= n
      /\ DOMAIN g.cells = 0 .. n - 1
  <2>1. g.top \in Nat /\ g.bot \in Nat /\ g.top <= g.bot /\ g.bot <= LastRow(g) /\ c \in Nat
    BY <1>2 DEF IsGrid
  <2>2. g.bot + 1 \in Nat /\ g.bot + 1 <= LastRow(g) + 1
    BY <2>1, RowsFit
  <2>3. from <= low
    BY <1>3, <1>4, <2>1, Products
  <2> QED
    BY <1>1, <1>2, <1>3, <1>4, <2>1, <2>2, <2>3, RowsFit
<1>6. PICK down : down = IF (g.bot + 1) * c > from + c
                         THEN CopiedTo(g.cells, from, (g.bot + 1) * c - c, from + c) ELSE g.cells
  OBVIOUS
<1>7. DOMAIN down = 0 .. n - 1
  <2>1. CASE low + c > from + c
    <3>1. from + c \in Nat /\ (low + c) - c = low /\ from <= low
          /\ (from + c) + (low - from) <= n /\ low <= n
      BY <1>5, <2>1
    <3>2. down = CopiedTo(g.cells, from, low, from + c)
      BY <1>5, <1>6, <2>1, <3>1
    <3> QED
      BY <1>5, <3>1, <3>2, CopiedFits
  <2>2. CASE ~(low + c > from + c)
    BY <1>5, <1>6, <2>2
  <2> QED
    BY <2>1, <2>2
<1>8. PICK q : q = Cleared(down, from, from + c)
  OBVIOUS
<1>9. DOMAIN q = 0 .. n - 1
  <2>1. from + c \in Nat /\ from <= from + c /\ from + c <= n
    BY <1>5
  <2> QED
    BY <1>5, <1>7, <1>8, <2>1, ClearedFits
<1>10. ScrollDown(g) = WithCells(g, q)
  BY <1>2, <1>3, <1>4, <1>6, <1>8, RowsFit DEF ScrollDown
<1>11. ScrollDown(g) = Drawn(g, q, g.row, g.col)
  BY <1>10, Redrawn
<1>12. IsGrid(Drawn(g, q, g.row, g.col))
  <2>1. g.row \in 0 .. LastRow(g) /\ g.col \in 0 .. g.cols /\ DOMAIN q = DOMAIN g.cells
    BY <1>5, <1>9 DEF IsGrid
  <2> QED
    BY <2>1, DrawnIsGrid
<1>13. SameScreen(g, Drawn(g, q, g.row, g.col))
  BY DEF IsGrid, Drawn, SameScreen
<1> QED
  BY <1>11, <1>12, <1>13

LEMMA LineFed ==
  ASSUME NEW g, IsGrid(g)
  PROVE  IsGrid(LineFeed(g)) /\ LineFeed(g).cols = g.cols /\ LineFeed(g).rows = g.rows
         /\ LineFeed(g).col = g.col
<1>1. CASE g.row = g.bot
  BY <1>1, ScrolledUp DEF LineFeed, SameScreen
<1>2. CASE g.row # g.bot
  <2>1. PICK r : r = Lesser(g.row + 1, LastRow(g))
    OBVIOUS
  <2>2. g.row \in 0 .. LastRow(g) /\ g.col \in 0 .. g.cols /\ LastRow(g) \in Nat
    BY RowsFit DEF IsGrid
  <2>3. r \in 0 .. LastRow(g)
    BY <2>1, <2>2 DEF Lesser
  <2>4. LineFeed(g) = Drawn(g, g.cells, r, g.col)
    BY <1>2, <2>1, Redrawn DEF LineFeed
  <2>5. IsGrid(Drawn(g, g.cells, r, g.col))
    BY <2>2, <2>3, DrawnIsGrid
  <2> QED
    BY <2>4, <2>5 DEF Drawn, IsGrid
<1> QED
  BY <1>1, <1>2

LEMMA ReturnedIsGrid ==
  ASSUME NEW g, IsGrid(g)
  PROVE  LET h == [g EXCEPT !.col = 0]
         IN  IsGrid(h) /\ h.cols = g.cols /\ h.rows = g.rows /\ h.col = 0
<1>1. g.row \in 0 .. LastRow(g) /\ 0 \in 0 .. g.cols
  BY DEF IsGrid
<1>2. [g EXCEPT !.col = 0] = Drawn(g, g.cells, g.row, 0)
  BY Redrawn
<1>3. PICK h : h = Drawn(g, g.cells, g.row, 0)
  OBVIOUS
<1>4. IsGrid(h)
  BY <1>1, <1>3, DrawnIsGrid
<1>5. h.cols = g.cols /\ h.rows = g.rows /\ h.col = 0
  BY <1>3 DEF Drawn, IsGrid
<1> QED
  BY <1>2, <1>3, <1>4, <1>5

LEMMA PrintedIsGrid ==
  ASSUME NEW g, IsGrid(g), NEW char
  PROVE  IsGrid(Printed(g, char))
<1>1. CASE Size(g.cells) = 0
  BY <1>1 DEF Printed
<1>2. CASE Size(g.cells) # 0
  <2>1. PICK h : h = IF g.col >= g.cols THEN LineFeed([g EXCEPT !.col = 0]) ELSE g
    OBVIOUS
  <2>2. IsGrid(h) /\ h.cols = g.cols /\ h.rows = g.rows /\ h.col \in 0 .. g.cols
        /\ (g.cols > 0 => h.col + 1 <= g.cols)
    <3>1. g.col \in 0 .. g.cols /\ g.cols \in Nat
      BY DEF IsGrid
    <3>2. CASE g.col >= g.cols
      <4>1. PICK k : k = [g EXCEPT !.col = 0]
        OBVIOUS
      <4>2. IsGrid(k) /\ k.cols = g.cols /\ k.rows = g.rows /\ k.col = 0
        BY <4>1, ReturnedIsGrid
      <4>3. h = LineFeed(k)
        BY <2>1, <3>2, <4>1
      <4>4. IsGrid(h) /\ h.cols = g.cols /\ h.rows = g.rows /\ h.col = 0
        BY <4>2, <4>3, LineFed
      <4> QED
        BY <3>1, <4>4
    <3>3. CASE ~(g.col >= g.cols)
      <4>1. h = g
        BY <2>1, <3>3
      <4> QED
        BY <3>1, <3>3, <4>1
    <3> QED
      BY <3>2, <3>3
  <2>3. Size(g.cells) = g.cols * g.rows /\ Size(h.cells) = g.cols * g.rows /\ g.cols \in Nat
        /\ g.rows \in Nat
    BY <2>2, RowsFit DEF IsGrid
  <2>4. g.cols > 0
    <3>1. g.cols = 0 => g.cols * g.rows = 0
      BY <2>3
    <3> QED
      BY <1>2, <2>3, <3>1
  <2>5. PICK i : i = Lesser(h.row * h.cols + h.col, Minus(Size(h.cells), 1))
    OBVIOUS
  <2>6. PICK q : q = [h.cells EXCEPT ![i] = char]
    OBVIOUS
  <2>7. Printed(g, char) = Drawn(h, q, h.row, h.col + 1)
    <3>1. Printed(g, char) = [h EXCEPT !.cells[i] = char, !.col = @ + 1]
      BY <1>2, <2>1, <2>5 DEF Printed
    <3> QED
      BY <2>2, <2>6, <3>1 DEF IsGrid, Drawn
  <2>8. DOMAIN q = DOMAIN h.cells
    BY <2>6
  <2>9. h.col + 1 \in 0 .. h.cols /\ h.row \in 0 .. LastRow(h)
    <3>1. h.row \in 0 .. LastRow(h)
      BY <2>2 DEF IsGrid
    <3>2. h.col + 1 \in 0 .. h.cols
      BY <2>2, <2>3, <2>4
    <3> QED
      BY <3>1, <3>2
  <2> QED
    BY <2>2, <2>7, <2>8, <2>9, DrawnIsGrid
<1> QED
  BY <1>1, <1>2

-----------------------------------------------------------------------------
(* What the sequences make of a grid.                                      *)

LEMMA RowIsGrid ==
  ASSUME NEW g, IsGrid(g), NEW r \in 0 .. LastRow(g)
  PROVE  IsGrid([g EXCEPT !.row = r])
<1>1. g.col \in 0 .. g.cols /\ [g EXCEPT !.row = r] = Drawn(g, g.cells, r, g.col)
  BY Redrawn DEF IsGrid
<1> QED
  BY <1>1, DrawnIsGrid

LEMMA ColIsGrid ==
  ASSUME NEW g, IsGrid(g), NEW c \in 0 .. g.cols
  PROVE  IsGrid([g EXCEPT !.col = c])
<1>1. g.row \in 0 .. LastRow(g) /\ [g EXCEPT !.col = c] = Drawn(g, g.cells, g.row, c)
  BY Redrawn DEF IsGrid
<1> QED
  BY <1>1, DrawnIsGrid

LEMMA CellsAreGrid ==
  ASSUME NEW g, IsGrid(g), NEW q, DOMAIN q = 0 .. Size(g.cells) - 1
  PROVE  IsGrid(WithCells(g, q))
<1>1. /\ g.row \in 0 .. LastRow(g) /\ g.col \in 0 .. g.cols
      /\ WithCells(g, q) = Drawn(g, q, g.row, g.col)
  BY Redrawn DEF IsGrid
<1>2. DOMAIN q = DOMAIN g.cells
  BY RowsFit
<1> QED
  BY <1>1, <1>2, DrawnIsGrid

LEMMA WentTo ==
  ASSUME NEW g, IsGrid(g), NEW r \in Nat, NEW c \in Nat
  PROVE  IsGrid(Goto(g, r, c))
<1>1. PICK a : a = Lesser(r, LastRow(g))
  OBVIOUS
<1>2. PICK b : b = Lesser(c, LastCol(g))
  OBVIOUS
<1>3. LastRow(g) \in Nat /\ LastCol(g) \in 0 .. g.cols /\ g.cols \in Nat
  BY RowsFit DEF IsGrid
<1>4. a \in 0 .. LastRow(g) /\ b \in 0 .. g.cols
  BY <1>1, <1>2, <1>3 DEF Lesser
<1>5. Goto(g, r, c) = Drawn(g, g.cells, a, b)
  BY <1>1, <1>2 DEF Goto, Drawn, IsGrid
<1> QED
  BY <1>4, <1>5, DrawnIsGrid

LEMMA BecameGrid ==
  ASSUME NEW x, Becomes(x), IsGrid(x)
  PROVE  IsGrid(grid)'
  BY DEF Becomes

LEMMA ExecuteKeeps == ASSUME IsGrid(grid), Execute PROVE IsGrid(grid)'
<1>1. grid.col \in 0 .. grid.cols /\ grid.cols \in Nat
  BY DEF IsGrid
<1>2. CASE Becomes([grid EXCEPT !.col = 0])
  <2>1. IsGrid([grid EXCEPT !.col = 0])
    BY <1>1, ColIsGrid
  <2> QED
    BY <1>2, <2>1, BecameGrid
<1>3. CASE Becomes(LineFeed(grid))
  BY <1>3, LineFed, BecameGrid
<1>4. CASE grid.col > 0 /\ Becomes([grid EXCEPT !.col = @ - 1])
  <2>1. PICK c : c = grid.col - 1
    OBVIOUS
  <2>2. c \in 0 .. grid.cols
    BY <1>1, <1>4, <2>1
  <2>3. IsGrid([grid EXCEPT !.col = c])
    BY <2>2, ColIsGrid
  <2> QED
    BY <1>4, <2>1, <2>3 DEF Becomes
<1> QED
  BY <1>2, <1>3, <1>4 DEF Execute

LEMMA TabKeeps == ASSUME IsGrid(grid), Tab PROVE IsGrid(grid)'
<1>1. grid.col \in 0 .. grid.cols /\ grid.cols \in Nat /\ LastCol(grid) \in 0 .. grid.cols
  BY RowsFit DEF IsGrid
<1>2. PICK c : c = (grid.col \div 8 + 1) * 8
  OBVIOUS
<1>3. c \in Nat
  BY <1>1, <1>2
<1>4. PICK d : d = IF c >= grid.cols THEN LastCol(grid) ELSE c
  OBVIOUS
<1>5. d \in 0 .. grid.cols
  BY <1>1, <1>3, <1>4
<1>6. IsGrid([grid EXCEPT !.col = d])
  BY <1>5, ColIsGrid
<1> QED
  BY <1>2, <1>4, <1>6 DEF Tab, Becomes

LEMMA MoveCursorKeeps ==
  ASSUME IsGrid(grid), NEW n \in Nat, MoveCursor(n)
  PROVE  IsGrid(grid)'
<1>1. /\ grid.col \in 0 .. grid.cols /\ grid.cols \in Nat /\ LastCol(grid) \in 0 .. grid.cols
      /\ grid.row \in 0 .. LastRow(grid) /\ LastRow(grid) \in Nat
  BY RowsFit DEF IsGrid
<1>2. PICK m \in Nat : m = Larger1(n)
  BY DEF Larger1
<1>3. Minus(grid.row, m) \in 0 .. LastRow(grid) /\ Lesser(grid.row + m, LastRow(grid)) \in 0 .. LastRow(grid)
  BY <1>1 DEF Minus, Lesser
<1>4. Minus(grid.col, m) \in 0 .. grid.cols /\ Lesser(grid.col + m, LastCol(grid)) \in 0 .. grid.cols
  BY <1>1 DEF Minus, Lesser
<1>5. /\ IsGrid([grid EXCEPT !.row = Minus(grid.row, m)])
      /\ IsGrid([grid EXCEPT !.row = Lesser(grid.row + m, LastRow(grid))])
      /\ IsGrid([grid EXCEPT !.col = Minus(grid.col, m)])
      /\ IsGrid([grid EXCEPT !.col = Lesser(grid.col + m, LastCol(grid))])
  BY <1>3, <1>4, RowIsGrid, ColIsGrid
<1> QED
  BY <1>2, <1>5 DEF MoveCursor, Becomes

LEMMA PlaceCursorKeeps ==
  ASSUME IsGrid(grid), NEW n \in Nat, NEW m \in Nat, PlaceCursor(n, m)
  PROVE  IsGrid(grid)'
<1>1. LastCol(grid) \in 0 .. grid.cols /\ LastRow(grid) \in Nat /\ grid.cols \in Nat
  BY RowsFit DEF IsGrid
<1>2. PICK a \in Nat : a = Minus(n, 1)
  BY DEF Minus
<1>3. PICK b \in Nat : b = Minus(m, 1)
  BY DEF Minus
<1>4. Lesser(a, LastCol(grid)) \in 0 .. grid.cols /\ Lesser(a, LastRow(grid)) \in 0 .. LastRow(grid)
  BY <1>1 DEF Lesser
<1>5. /\ IsGrid(Goto(grid, a, b))
      /\ IsGrid([grid EXCEPT !.col = Lesser(a, LastCol(grid))])
      /\ IsGrid([grid EXCEPT !.row = Lesser(a, LastRow(grid))])
  BY <1>4, WentTo, RowIsGrid, ColIsGrid
<1> QED
  BY <1>2, <1>3, <1>5 DEF PlaceCursor, Becomes

\* A range that is clamped to the vector is erased.
LEMMA ErasedIsGrid ==
  ASSUME IsGrid(grid), NEW lo \in Nat, NEW hi \in Nat, lo <= hi, hi <= Size(grid.cells)
  PROVE  IsGrid(Erased(lo, hi))
<1>1. PICK n \in Nat : n = Size(grid.cells)
  BY RowsFit
<1>2. DOMAIN grid.cells = 0 .. n - 1
  BY <1>1, RowsFit
<1>3. DOMAIN Cleared(grid.cells, lo, hi) = 0 .. n - 1
  BY <1>1, <1>2, ClearedFits
<1> QED
  BY <1>1, <1>3, CellsAreGrid DEF Erased

LEMMA FlatFits ==
  ASSUME IsGrid(grid), NEW c \in Nat
  PROVE  /\ Flat(grid, grid.row, c) \in Nat /\ Flat(grid, grid.row, c) <= Size(grid.cells)
         /\ \A d \in Nat : c <= d => Flat(grid, grid.row, c) <= Flat(grid, grid.row, d)
<1>1. PICK n \in Nat : n = Size(grid.cells)
  BY RowsFit
<1>2. grid.row \in Nat
  BY RowsFit DEF IsGrid
<1>3. PICK r \in Nat : r = grid.row * grid.cols
  BY <1>2, RowsFit
<1> QED
  BY <1>1, <1>3 DEF Flat, Lesser

LEMMA EraseDisplayKeeps == ASSUME IsGrid(grid), EraseDisplay PROVE IsGrid(grid)'
<1>1. grid.col \in Nat /\ grid.col + 1 \in Nat /\ Size(grid.cells) \in Nat /\ grid.cols \in Nat
  BY GridFacts
<1>2. CASE Becomes(Erased(Flat(grid, grid.row, grid.col), Size(grid.cells)))
  BY <1>1, <1>2, FlatFits, ErasedIsGrid, BecameGrid
<1>3. CASE Becomes(Erased(0, Flat(grid, grid.row, grid.col + 1)))
  <2>1. PICK hi \in Nat : hi = Flat(grid, grid.row, grid.col + 1) /\ hi <= Size(grid.cells)
    BY <1>1, FlatFits
  <2>2. IsGrid(Erased(0, hi))
    BY <2>1, ErasedIsGrid
  <2> QED
    BY <1>3, <2>1, <2>2 DEF Becomes
<1>4. CASE Becomes([Erased(0, Size(grid.cells)) EXCEPT !.row = 0, !.col = 0])
  <2>1. PICK h : h = Erased(0, Size(grid.cells))
    OBVIOUS
  <2>2. IsGrid(h)
    BY <1>1, <2>1, ErasedIsGrid
  <2>3. [h EXCEPT !.row = 0, !.col = 0] = Drawn(h, h.cells, 0, 0)
    BY <2>2 DEF Drawn, IsGrid
  <2>4. 0 \in 0 .. LastRow(h) /\ 0 \in 0 .. h.cols
    BY <2>2, GridFacts
  <2>5. IsGrid(Drawn(h, h.cells, 0, 0))
    BY <2>2, <2>4, DrawnIsGrid
  <2> QED
    BY <1>4, <2>1, <2>3, <2>5 DEF Becomes
<1> QED
  BY <1>2, <1>3, <1>4 DEF EraseDisplay

LEMMA EraseLineKeeps == ASSUME IsGrid(grid), EraseLine PROVE IsGrid(grid)'
<1>1. grid.col \in Nat /\ grid.cols \in Nat /\ grid.col <= grid.cols
  BY DEF IsGrid
<1>2. PICK a \in Nat : a = Flat(grid, grid.row, 0)
  BY FlatFits
<1>3. PICK b \in Nat : b = Flat(grid, grid.row, grid.col)
  BY <1>1, FlatFits
<1>4. PICK c \in Nat : c = Flat(grid, grid.row, grid.col + 1)
  BY <1>1, FlatFits
<1>5. PICK d \in Nat : d = Flat(grid, grid.row, grid.cols)
  BY <1>1, FlatFits
<1>6. a <= c /\ a <= d /\ b <= d /\ c <= Size(grid.cells) /\ d <= Size(grid.cells)
  BY <1>1, <1>2, <1>3, <1>4, <1>5, FlatFits
<1>7. IsGrid(Erased(b, d)) /\ IsGrid(Erased(a, c)) /\ IsGrid(Erased(a, d))
  BY <1>6, ErasedIsGrid
<1> QED
  BY <1>2, <1>3, <1>4, <1>5, <1>7 DEF EraseLine, Becomes

LEMMA SetRegionKeeps ==
  ASSUME IsGrid(grid), NEW n \in Nat, NEW m \in Nat, SetRegion(n, m)
  PROVE  IsGrid(grid)'
<1>1. LastRow(grid) \in Nat
  BY RowsFit
<1>2. PICK top : top = Lesser(Minus(n, 1), LastRow(grid))
  OBVIOUS
<1>3. PICK bot : bot = IF m = 0 THEN LastRow(grid) ELSE Lesser(m - 1, LastRow(grid))
  OBVIOUS
<1>4. PICK a : a = IF top < bot THEN top ELSE 0
  OBVIOUS
<1>5. PICK b : b = IF top < bot THEN bot ELSE LastRow(grid)
  OBVIOUS
<1>6. top \in 0 .. LastRow(grid) /\ bot \in 0 .. LastRow(grid)
  BY <1>1, <1>2, <1>3 DEF Lesser, Minus
<1>7. a \in Nat /\ b \in Nat /\ a <= b /\ b <= LastRow(grid)
  BY <1>1, <1>4, <1>5, <1>6
<1>8. PICK h : h = [grid EXCEPT !.top = a, !.bot = b, !.row = 0, !.col = 0]
  OBVIOUS
<1>9. Becomes(h)
  BY <1>2, <1>3, <1>4, <1>5, <1>8 DEF SetRegion
<1>10. h = [cols |-> grid.cols, rows |-> grid.rows, cells |-> grid.cells, col |-> 0, row |-> 0,
            top |-> a, bot |-> b, alt |-> grid.alt, savedCol |-> grid.savedCol,
            savedRow |-> grid.savedRow, back |-> grid.back, offset |-> grid.offset]
  BY <1>8 DEF IsGrid
<1>11. LastRow(h) = LastRow(grid)
  BY <1>10 DEF LastRow
<1>12. h.alt # NoScreen => IsSaved(h, h.alt)
  BY <1>10, <1>11 DEF IsSaved, IsGrid
<1>13. IsGrid(h)
  BY <1>1, <1>7, <1>10, <1>11, <1>12 DEF IsGrid
<1> QED
  BY <1>9, <1>13, BecameGrid

\* Rows that are inserted and deleted, within the region or in the cursor's row.
LEMMA RowsLeftFit ==
  ASSUME IsGrid(grid), NEW n \in Nat
  PROVE  /\ RowsLeft(n) \in Nat \ {0} /\ grid.row + RowsLeft(n) <= LastRow(grid) + 1
         /\ RegionEnd(grid) + 1 - RowsLeft(n) \in Nat
         /\ grid.row <= RegionEnd(grid) => grid.row + RowsLeft(n) <= RegionEnd(grid) + 1
<1>1. /\ LastRow(grid) \in Nat /\ grid.row \in 0 .. LastRow(grid) /\ RegionEnd(grid) = grid.bot
      /\ grid.bot \in Nat /\ grid.bot <= LastRow(grid)
  BY GridFacts DEF IsGrid
<1>2. PICK b \in Nat : b = RegionEnd(grid) /\ b <= LastRow(grid)
  BY <1>1
<1>3. PICK m \in Nat \ {0} : m = Larger1(n)
  BY DEF Larger1
<1>4. PICK k : k = Lesser(m, Minus(b, grid.row) + 1)
  OBVIOUS
<1>5. /\ k \in Nat \ {0} /\ (grid.row <= b => grid.row + k <= b + 1) /\ (b < grid.row => k = 1)
  BY <1>1, <1>3, <1>4 DEF Lesser, Minus
<1>6. k <= b + 1
  BY <1>1, <1>5
<1>7. RowsLeft(n) = k
  BY <1>2, <1>3, <1>4 DEF RowsLeft
<1> QED
  BY <1>1, <1>2, <1>5, <1>6, <1>7

LEMMA InsertLinesKeeps ==
  ASSUME IsGrid(grid), NEW n \in Nat, InsertLines(n)
  PROVE  IsGrid(grid)'
<1>1. PICK c \in Nat : c = grid.cols
  BY GridFacts
<1>2. PICK r \in Nat : r = grid.row /\ r <= LastRow(grid)
  BY GridFacts
<1>3. PICK b \in Nat : b = RegionEnd(grid) /\ b <= LastRow(grid)
  BY GridFacts DEF IsGrid
<1>4. PICK k \in Nat \ {0} : /\ k = RowsLeft(n) /\ r + k <= LastRow(grid) + 1
                             /\ r <= b => r + k <= b + 1
  BY <1>2, <1>3, RowsLeftFit
<1>5. PICK size \in Nat : size = Size(grid.cells) /\ DOMAIN grid.cells = 0 .. size - 1
  BY GridFacts
<1>6. PICK e : e = Minus(b, k - 1)
  OBVIOUS
<1>7. e \in Nat /\ (e = 0 \/ e + k = b + 1) /\ k * c \in Nat
  BY <1>1, <1>3, <1>4, <1>6, Products DEF Minus
<1>8. PICK here \in Nat : here = r * c
  BY <1>1, <1>2, Products
<1>9. PICK there \in Nat : there = (r + k) * c
  BY <1>1, <1>2, <1>4, Products
<1>10. PICK end \in Nat : end = e * c
  BY <1>1, <1>7, Products
<1>11. there = here + k * c /\ here <= there /\ there <= size
  <2>1. (r + k) * c = r * c + k * c
    BY <1>1, <1>2, <1>4, Products
  <2>2. r + k \in Nat /\ r + k <= LastRow(grid) + 1
    BY <1>2, <1>4
  <2>3. (r + k) * c <= size
    BY <1>1, <1>5, <2>2, RowsFit
  <2> QED
    BY <1>7, <1>8, <1>9, <2>1, <2>3
<1>12. end > here => end <= size /\ there + (end - here) <= size
  <2>1. ASSUME end > here PROVE end <= size /\ there + (end - here) <= size
    <3>1. e # 0
      <4>1. e = 0 => e * c = 0
        BY <1>1
      <4> QED
        BY <1>8, <1>10, <2>1, <4>1
    <3>2. (e + k) * c = end + k * c
      BY <1>1, <1>4, <1>7, <1>10, Products
    <3>3. (b + 1) * c <= size
      <4>1. b + 1 \in Nat /\ b + 1 <= LastRow(grid) + 1
        BY <1>3, GridFacts
      <4> QED
        BY <1>1, <1>5, <4>1, RowsFit
    <3>4. end + k * c <= size
      BY <1>7, <3>1, <3>2, <3>3
    <3> QED
      BY <1>7, <1>11, <3>4
  <2> QED
    BY <2>1
<1>13. DOMAIN Moved(grid.cells, here, end, there) = 0 .. size - 1
  <2>1. PICK cells : cells = grid.cells
    OBVIOUS
  <2>2. DOMAIN cells = 0 .. size - 1
    BY <1>5, <2>1
  <2>3. DOMAIN Moved(cells, here, end, there) = 0 .. size - 1
    BY ONLY <2>2, <1>12, MovedFits, size \in Nat, here \in Nat, end \in Nat, there \in Nat
  <2> QED
    BY <2>1, <2>3
<1>14. PICK q : q = Cleared(Moved(grid.cells, here, end, there), here, there)
  OBVIOUS
<1>15. DOMAIN q = 0 .. size - 1
  BY <1>11, <1>13, <1>14, ClearedFits
<1>16. IsGrid(WithCells(grid, q))
  BY <1>5, <1>15, CellsAreGrid
<1>17. Becomes(WithCells(grid, q))
  BY <1>1, <1>2, <1>3, <1>4, <1>6, <1>8, <1>9, <1>10, <1>14 DEF InsertLines
<1> QED
  BY <1>16, <1>17, BecameGrid

LEMMA DeleteLinesKeeps ==
  ASSUME IsGrid(grid), NEW n \in Nat, DeleteLines(n)
  PROVE  IsGrid(grid)'
<1>1. PICK c \in Nat : c = grid.cols
  BY GridFacts
<1>2. PICK r \in Nat : r = grid.row /\ r <= LastRow(grid)
  BY GridFacts
<1>3. PICK b \in Nat : b = RegionEnd(grid) /\ b <= LastRow(grid)
  BY GridFacts DEF IsGrid
<1>4. PICK k \in Nat \ {0} : k = RowsLeft(n) /\ b + 1 - k \in Nat
  BY <1>2, <1>3, RowsLeftFit
<1>5. PICK size \in Nat : size = Size(grid.cells) /\ DOMAIN grid.cells = 0 .. size - 1
  BY GridFacts
<1>6. PICK e \in Nat : e = b + 1 - k
  BY <1>4
<1>7. PICK here \in Nat : here = r * c
  BY <1>1, <1>2, Products
<1>8. PICK there \in Nat : there = (r + k) * c
  BY <1>1, <1>2, <1>4, Products
<1>9. PICK end \in Nat : end = (b + 1) * c
  BY <1>1, <1>3, Products
<1>10. PICK blank \in Nat : blank = e * c
  BY <1>1, <1>6, Products
<1>11. PICK some \in Nat : some = k * c
  BY <1>1, <1>4, Products
<1>12. there = here + some /\ end = blank + some
  <2>1. (r + k) * c = r * c + k * c
    BY <1>1, <1>2, <1>4, Products
  <2>2. (e + k) * c = e * c + k * c /\ e + k = b + 1
    <3>1. (e + k) * c = e * c + k * c
      BY <1>1, <1>4, <1>6, Products
    <3> QED
      BY <1>3, <1>4, <1>6, <3>1
  <2> QED
    BY <1>7, <1>8, <1>9, <1>10, <1>11, <2>1, <2>2
<1>13. end <= size
  <2>1. b + 1 \in Nat /\ b + 1 <= LastRow(grid) + 1
    BY <1>3, GridFacts
  <2> QED
    BY <1>1, <1>5, <1>9, <2>1, RowsFit
<1>14. DOMAIN Moved(grid.cells, there, end, here) = 0 .. size - 1
  <2>1. end > there => end <= size /\ here + (end - there) <= size
    BY <1>12, <1>13
  <2>2. PICK cells : cells = grid.cells
    OBVIOUS
  <2>3. DOMAIN cells = 0 .. size - 1
    BY <1>5, <2>2
  <2>4. DOMAIN Moved(cells, there, end, here) = 0 .. size - 1
    BY ONLY <2>1, <2>3, MovedFits, size \in Nat, here \in Nat, end \in Nat, there \in Nat
  <2> QED
    BY <2>2, <2>4
<1>15. PICK q : q = Cleared(Moved(grid.cells, there, end, here), blank, end)
  OBVIOUS
<1>16. DOMAIN q = 0 .. size - 1
  <2>1. blank <= end
    BY <1>12
  <2> QED
    BY <1>13, <1>14, <1>15, <2>1, ClearedFits
<1>17. IsGrid(WithCells(grid, q))
  BY <1>5, <1>16, CellsAreGrid
<1>18. Becomes(WithCells(grid, q))
  BY <1>1, <1>2, <1>3, <1>4, <1>6, <1>7, <1>8, <1>9, <1>10, <1>15 DEF DeleteLines
<1> QED
  BY <1>17, <1>18, BecameGrid

LEMMA CharsKeep ==
  ASSUME IsGrid(grid), NEW n \in Nat, Chars(n)
  PROVE  IsGrid(grid)'
<1>1. PICK c \in Nat : c = grid.cols
  BY GridFacts
<1>2. PICK size \in Nat : size = Size(grid.cells) /\ DOMAIN grid.cells = 0 .. size - 1
  BY GridFacts
<1>3. PICK at \in Nat : at = grid.row * c /\ at + c <= size
  <2>1. grid.row \in Nat /\ grid.row <= LastRow(grid) /\ LastRow(grid) \in Nat
    BY GridFacts
  <2>2. grid.row + 1 \in Nat /\ grid.row + 1 <= LastRow(grid) + 1
    BY <2>1
  <2>3. grid.row * c \in Nat /\ (grid.row + 1) * c = grid.row * c + c /\ (grid.row + 1) * c <= size
    BY <1>1, <1>2, <2>1, <2>2, RowsFit
  <2> QED
    BY <2>3
<1>4. PICK col \in Nat : col = grid.col /\ col <= c
  BY <1>1, GridFacts
<1>5. PICK here \in Nat : here = at + col
  BY <1>3, <1>4
<1>6. PICK end \in Nat : end = at + c
  BY <1>1, <1>3
<1>7. PICK m \in Nat \ {0} : m = Larger1(n)
  BY DEF Larger1
<1>8. PICK some \in Nat : some = CharsLeft(n) /\ some <= c - col
  <2>1. Lesser(m, Minus(c, col)) \in Nat /\ Lesser(m, Minus(c, col)) <= c - col
    BY <1>1, <1>4, <1>7 DEF Lesser, Minus
  <2> QED
    BY <1>1, <1>4, <1>7, <2>1 DEF CharsLeft
<1>9. /\ here + some \in Nat /\ here + some <= end /\ end - some \in Nat /\ end <= size
      /\ end - some <= end /\ here <= here + some
  BY <1>3, <1>4, <1>5, <1>6, <1>8
<1>10. IsGrid(WithCells(grid, Cleared(Moved(grid.cells, here + some, end, here), end - some, end)))
  <2>1. end > here + some => end <= size /\ here + (end - (here + some)) <= size
    BY <1>9
  <2>2. DOMAIN Moved(grid.cells, here + some, end, here) = 0 .. size - 1
    BY <1>2, <1>9, <2>1, MovedFits
  <2>3. DOMAIN Cleared(Moved(grid.cells, here + some, end, here), end - some, end) = 0 .. size - 1
    BY <1>9, <2>2, ClearedFits
  <2> QED
    BY <1>2, <2>3, CellsAreGrid
<1>11. IsGrid(Erased(here, here + some))
  <2>1. here + some <= Size(grid.cells)
    BY <1>2, <1>9
  <2> QED
    BY <1>9, <2>1, ErasedIsGrid
<1>12. IsGrid(WithCells(grid, Cleared(Moved(grid.cells, here, end - some, here + some),
                                      here, here + some)))
  <2>1. end - some > here => end - some <= size /\ (here + some) + ((end - some) - here) <= size
    BY <1>9
  <2>2. DOMAIN Moved(grid.cells, here, end - some, here + some) = 0 .. size - 1
    BY <1>2, <1>9, <2>1, MovedFits
  <2>3. here + some <= size
    BY <1>9
  <2>4. DOMAIN Cleared(Moved(grid.cells, here, end - some, here + some), here, here + some)
        = 0 .. size - 1
    BY <1>9, <2>2, <2>3, ClearedFits
  <2> QED
    BY <1>2, <2>4, CellsAreGrid
<1>13. PICK x : /\ Becomes(x)
                /\ \/ x = WithCells(grid, Cleared(Moved(grid.cells, here + some, end, here), end - some, end))
                   \/ x = Erased(here, here + some)
                   \/ x = WithCells(grid, Cleared(Moved(grid.cells, here, end - some, here + some),
                                                  here, here + some))
  BY <1>1, <1>3, <1>4, <1>5, <1>6, <1>8 DEF Chars
<1> QED
  BY <1>10, <1>11, <1>12, <1>13, BecameGrid

-----------------------------------------------------------------------------
(* Repeated scrolling and the rest of the sequences.                       *)

Ups   == INSTANCE FoldFacts WITH Op <- LAMBDA k, h, m : ScrollUp(h)
Downs == INSTANCE FoldFacts WITH Op <- LAMBDA k, h, m : ScrollDown(h)

LEMMA UpsFold ==
  ASSUME NEW g, NEW n
  PROVE  Repeated(ScrollUp, g, n) = Ups!Fold(0, g, [k \in 1 .. n |-> k])
  BY DEF Repeated, FoldLeft, MapThenFoldSet, Max, Ups!Fold, Ups!Iterates, Ups!Top
LEMMA DownsFold ==
  ASSUME NEW g, NEW n
  PROVE  Repeated(ScrollDown, g, n) = Downs!Fold(0, g, [k \in 1 .. n |-> k])
  BY DEF Repeated, FoldLeft, MapThenFoldSet, Max, Downs!Fold, Downs!Iterates, Downs!Top

LEMMA ScrolledUpOften ==
  ASSUME NEW g, IsGrid(g), NEW n \in Nat
  PROVE  IsGrid(Repeated(ScrollUp, g, n))
<1>1. PICK q : q = [k \in 1 .. n |-> k]
  OBVIOUS
<1>2. q \in Seq(Nat) /\ Len(q) = n
  BY <1>1
<1>3. PICK h : Ups!Trace(h, 0, g, q)
  BY <1>2, Ups!FoldTrace
<1>4. h[0] = g /\ (\A i \in 1 .. n : h[i] = ScrollUp(h[i - 1])) /\ Ups!Fold(0, g, q) = h[n]
  BY <1>2, <1>3 DEF Ups!Trace
<1> DEFINE S == {i \in Nat : i <= n => IsGrid(h[i])}
<1>5. 0 \in S
  BY <1>4
<1>6. ASSUME NEW i \in Nat, i \in S PROVE i + 1 \in S
  <2>1. CASE i + 1 <= n
    <3>1. i + 1 \in 1 .. n /\ (i + 1) - 1 = i /\ i <= n
      BY <2>1
    <3>2. IsGrid(h[i]) /\ h[i + 1] = ScrollUp(h[i])
      BY <1>4, <1>6, <3>1
    <3>3. IsGrid(h[i + 1])
      BY <3>2, ScrolledUp
    <3> QED
      BY <3>3
  <2>2. CASE ~(i + 1 <= n)
    BY <2>2
  <2> QED
    BY <2>1, <2>2
<1>7. Nat \subseteq S
  <2> HIDE DEF S
  <2> QED
    BY <1>5, <1>6, Ups!SetInduction
<1>8. IsGrid(h[n])
  BY <1>7
<1>9. Repeated(ScrollUp, g, n) = h[n]
  BY <1>1, <1>4, UpsFold
<1> QED
  BY <1>8, <1>9
LEMMA ScrolledDownOften ==
  ASSUME NEW g, IsGrid(g), NEW n \in Nat
  PROVE  IsGrid(Repeated(ScrollDown, g, n))
<1>1. PICK q : q = [k \in 1 .. n |-> k]
  OBVIOUS
<1>2. q \in Seq(Nat) /\ Len(q) = n
  BY <1>1
<1>3. PICK h : Downs!Trace(h, 0, g, q)
  BY <1>2, Downs!FoldTrace
<1>4. h[0] = g /\ (\A i \in 1 .. n : h[i] = ScrollDown(h[i - 1])) /\ Downs!Fold(0, g, q) = h[n]
  BY <1>2, <1>3 DEF Downs!Trace
<1> DEFINE S == {i \in Nat : i <= n => IsGrid(h[i])}
<1>5. 0 \in S
  BY <1>4
<1>6. ASSUME NEW i \in Nat, i \in S PROVE i + 1 \in S
  <2>1. CASE i + 1 <= n
    <3>1. i + 1 \in 1 .. n /\ (i + 1) - 1 = i /\ i <= n
      BY <2>1
    <3>2. IsGrid(h[i]) /\ h[i + 1] = ScrollDown(h[i])
      BY <1>4, <1>6, <3>1
    <3>3. IsGrid(h[i + 1])
      BY <3>2, ScrolledDown
    <3> QED
      BY <3>3
  <2>2. CASE ~(i + 1 <= n)
    BY <2>2
  <2> QED
    BY <2>1, <2>2
<1>7. Nat \subseteq S
  <2> HIDE DEF S
  <2> QED
    BY <1>5, <1>6, Downs!SetInduction
<1>8. IsGrid(h[n])
  BY <1>7
<1>9. Repeated(ScrollDown, g, n) = h[n]
  BY <1>1, <1>4, DownsFold
<1> QED
  BY <1>8, <1>9

LEMMA ScrollRegionKeeps ==
  ASSUME IsGrid(grid), NEW n \in Nat, ScrollRegion(n)
  PROVE  IsGrid(grid)'
<1>1. PICK m \in Nat : m = Larger1(n)
  BY DEF Larger1
<1>2. IsGrid(Repeated(ScrollUp, grid, m)) /\ IsGrid(Repeated(ScrollDown, grid, m))
  BY ScrolledUpOften, ScrolledDownOften
<1> QED
  BY <1>1, <1>2, BecameGrid DEF ScrollRegion

\* The same screen with other places and lines kept for later.
LEMMA SaveCursorKeeps == ASSUME IsGrid(grid), SaveCursor PROVE IsGrid(grid)'
<1>1. PICK h : h = [grid EXCEPT !.savedCol = grid.col, !.savedRow = grid.row]
  OBVIOUS
<1>2. h = [cols |-> grid.cols, rows |-> grid.rows, cells |-> grid.cells, col |-> grid.col,
           row |-> grid.row, top |-> grid.top, bot |-> grid.bot, alt |-> grid.alt,
           savedCol |-> grid.col, savedRow |-> grid.row, back |-> grid.back,
           offset |-> grid.offset]
  BY <1>1 DEF IsGrid
<1>3. LastRow(h) = LastRow(grid)
  BY <1>2 DEF LastRow
<1>4. h.alt # NoScreen => IsSaved(h, h.alt)
  BY <1>2, <1>3 DEF IsSaved, IsGrid
<1>5. grid.col \in Nat /\ grid.row \in Nat
  BY GridFacts
<1>6. IsGrid(h)
  BY <1>2, <1>3, <1>4, <1>5 DEF IsGrid
<1> QED
  BY <1>1, <1>6, BecameGrid DEF SaveCursor

LEMMA RestoreCursorKeeps == ASSUME IsGrid(grid), RestoreCursor PROVE IsGrid(grid)'
<1>1. grid.savedRow \in Nat /\ grid.savedCol \in Nat
  BY DEF IsGrid
<1>2. IsGrid(Goto(grid, grid.savedRow, grid.savedCol))
  BY <1>1, WentTo
<1> QED
  BY <1>2, BecameGrid DEF RestoreCursor

LEMMA ReverseIndexKeeps == ASSUME IsGrid(grid), ReverseIndex PROVE IsGrid(grid)'
<1>1. CASE grid.row = grid.top
  <2>1. Becomes(ScrollDown(grid))
    BY <1>1 DEF ReverseIndex
  <2> QED
    BY <2>1, ScrolledDown, BecameGrid
<1>2. CASE grid.row # grid.top
  <2>1. PICK r : r = Minus(grid.row, 1)
    OBVIOUS
  <2>2. r \in 0 .. LastRow(grid)
    BY <2>1, GridFacts DEF Minus
  <2>3. Becomes([grid EXCEPT !.row = r])
    BY <1>2, <2>1 DEF ReverseIndex
  <2>4. IsGrid([grid EXCEPT !.row = r])
    BY <2>2, RowIsGrid
  <2> QED
    BY <2>3, <2>4, BecameGrid
<1> QED
  BY <1>1, <1>2

LEMMA PrintCharKeeps == ASSUME IsGrid(grid), PrintChar PROVE IsGrid(grid)'
<1>1. PICK char : Becomes(Printed(grid, char))
  BY DEF PrintChar
<1> QED
  BY <1>1, PrintedIsGrid, BecameGrid

LEMMA ScrollViewKeeps ==
  ASSUME IsGrid(grid), NEW n \in Nat, ScrollView(n)
  PROVE  IsGrid(grid)'
<1>1. grid.offset \in Nat /\ Len(grid.back) \in Nat
  BY ListShape DEF IsGrid
<1>2. ASSUME NEW o \in Nat PROVE IsGrid([grid EXCEPT !.offset = o])
  <2>1. PICK h : h = [grid EXCEPT !.offset = o]
    OBVIOUS
  <2>2. h = [cols |-> grid.cols, rows |-> grid.rows, cells |-> grid.cells, col |-> grid.col,
             row |-> grid.row, top |-> grid.top, bot |-> grid.bot, alt |-> grid.alt,
             savedCol |-> grid.savedCol, savedRow |-> grid.savedRow, back |-> grid.back,
             offset |-> o]
    BY <2>1 DEF IsGrid
  <2>3. LastRow(h) = LastRow(grid)
    BY <2>2 DEF LastRow
  <2>4. h.alt # NoScreen => IsSaved(h, h.alt)
    BY <2>2, <2>3 DEF IsSaved, IsGrid
  <2>5. IsGrid(h)
    BY <2>2, <2>3, <2>4 DEF IsGrid
  <2> QED
    BY <2>1, <2>5
<1>3. Lesser(grid.offset + n, Len(grid.back)) \in Nat /\ Minus(grid.offset, n) \in Nat
  BY <1>1 DEF Lesser, Minus
<1>4. IsGrid([grid EXCEPT !.offset = Lesser(grid.offset + n, Len(grid.back))])
      /\ IsGrid([grid EXCEPT !.offset = Minus(grid.offset, n)])
  BY <1>2, <1>3
<1> QED
  BY <1>4, BecameGrid DEF ScrollView

LEMMA EnterAlternateKeeps == ASSUME IsGrid(grid), EnterAlternate PROVE IsGrid(grid)'
<1>1. PICK s : s = [cells |-> grid.cells, col |-> grid.col, row |-> grid.row,
                    top |-> grid.top, bot |-> grid.bot]
  OBVIOUS
<1>2. PICK q : q = Wiped(Size(grid.cells))
  OBVIOUS
<1>3. PICK h : h = [grid EXCEPT !.alt = s, !.cells = q, !.col = 0, !.row = 0, !.top = 0,
                                !.bot = LastRow(grid)]
  OBVIOUS
<1>4. h = [cols |-> grid.cols, rows |-> grid.rows, cells |-> q, col |-> 0, row |-> 0,
           top |-> 0, bot |-> LastRow(grid), alt |-> s, savedCol |-> grid.savedCol,
           savedRow |-> grid.savedRow, back |-> grid.back, offset |-> grid.offset]
  BY <1>3 DEF IsGrid
<1>5. LastRow(h) = LastRow(grid) /\ LastRow(grid) \in Nat
  BY <1>4, GridFacts DEF LastRow
<1>6. IsSaved(h, s)
  BY <1>1, <1>4, <1>5 DEF IsSaved, IsGrid
<1>7. DOMAIN q = 0 .. grid.cols * grid.rows - 1
  BY <1>2, RowsFit DEF Wiped
<1>8. IsGrid(h)
  BY <1>4, <1>5, <1>6, <1>7 DEF IsGrid
<1>9. Becomes(h)
  BY <1>1, <1>2, <1>3 DEF EnterAlternate
<1> QED
  BY <1>8, <1>9, BecameGrid

LEMMA LeaveAlternateKeeps == ASSUME IsGrid(grid), LeaveAlternate PROVE IsGrid(grid)'
<1>1. PICK s : s = grid.alt
  OBVIOUS
<1>2. IsSaved(grid, s)
  BY <1>1 DEF LeaveAlternate, IsGrid
<1>3. PICK b : b = Lesser(s.bot, LastRow(grid))
  OBVIOUS
<1>4. PICK h : h = [grid EXCEPT !.cells = s.cells, !.col = s.col, !.row = s.row, !.top = s.top,
                                !.bot = b, !.alt = NoScreen]
  OBVIOUS
<1>5. h = [cols |-> grid.cols, rows |-> grid.rows, cells |-> s.cells, col |-> s.col, row |-> s.row,
           top |-> s.top, bot |-> b, alt |-> NoScreen, savedCol |-> grid.savedCol,
           savedRow |-> grid.savedRow, back |-> grid.back, offset |-> grid.offset]
  BY <1>4 DEF IsGrid
<1>6. LastRow(h) = LastRow(grid) /\ LastRow(grid) \in Nat
  BY <1>5, GridFacts DEF LastRow
<1>7. b = s.bot
  BY <1>2, <1>3, <1>6 DEF Lesser, IsSaved
<1>8. IsGrid(h)
  BY <1>2, <1>5, <1>6, <1>7 DEF IsGrid, IsSaved
<1>9. Becomes(h)
  BY <1>1, <1>3, <1>4 DEF LeaveAlternate
<1> QED
  BY <1>8, <1>9, BecameGrid

-----------------------------------------------------------------------------
(* A new size.                                                             *)

Joining == INSTANCE FoldFacts WITH Op <- LAMBDA k, all, some : all \o some
LEMMA JoiningFolds == ASSUME NEW q PROVE Joined(q) = Joining!Fold(0, <<>>, q)
  BY DEF Joined, FoldLeft, MapThenFoldSet, Max, Joining!Fold, Joining!Iterates, Joining!Top
LEMMA JoinedIsList ==
  ASSUME NEW W, NEW q \in Seq(Seq(W))
  PROVE  Joined(q) \in Seq(W)
<1>1. PICK V : V = Seq(W)
  OBVIOUS
<1>2. <<>> \in V /\ q \in Seq(V) /\ \A a \in V, m \in V : a \o m \in V
  BY <1>1
<1>3. Joining!Fold(0, <<>>, q) \in V
  BY <1>2, Joining!FoldKeeps
<1> QED
  BY <1>1, <1>3, JoiningFolds

\* Numbers up to a bound have a greatest one.
LEMMA GreatestOf ==
  ASSUME NEW n \in Nat, NEW S \in SUBSET (0 .. n), S # {}
  PROVE  Max(S) \in S
<1>1. PICK R : R = {n - x : x \in S}
  OBVIOUS
<1>2. R \in SUBSET Nat /\ R # {}
  <2>1. \A x \in S : n - x \in Nat
    <3>1. \A x \in S : x \in 0 .. n
      OBVIOUS
    <3> QED
      BY <3>1
  <2>2. PICK x : x \in S
    OBVIOUS
  <2> QED
    BY <1>1, <2>1, <2>2
<1>3. PICK r \in R : \A y \in R : r <= y
  BY <1>2, LeastOf
<1>4. PICK x \in S : r = n - x
  BY <1>1, <1>3
<1>5. \A y \in S : x >= y
  <2>1. ASSUME NEW y \in S PROVE x >= y
    <3>1. n - y \in R /\ x \in 0 .. n /\ y \in 0 .. n
      BY <1>1
    <3>2. n - x <= n - y
      BY <1>3, <1>4, <3>1
    <3> QED
      BY <3>1, <3>2
  <2> QED
    BY <2>1
<1> QED
  BY <1>4, <1>5 DEF Max

\* What resize_screen makes of a screen.
IsRewrapped(w, cols, rows) ==
    /\ DOMAIN w.cells = 0 .. cols * rows - 1
    /\ w.col \in 0 .. cols - 1 /\ w.row \in 0 .. rows - 1 /\ List(w.above)

LEMMA RewrappedFits ==
  ASSUME NEW cells, NEW oldCols \in Nat, NEW oldRows \in Nat, NEW col \in Nat, NEW row \in Nat,
         NEW cols \in Nat \ {0}, NEW rows \in Nat \ {0}, DOMAIN cells = 0 .. oldCols * oldRows - 1
  PROVE  IsRewrapped(Rewrapped(cells, oldCols, oldRows, col, row, cols, rows), cols, rows)
<1> DEFINE start(k) == Lesser(k * oldCols, Size(cells))
           source(k) == Slice(cells, start(k), Lesser(start(k) + oldCols, Size(cells)))
           filled(k) == {i \in DOMAIN source(k) : source(k)[i] # Space}
           content  == {k \in 0 .. oldRows - 1 : filled(k) # {}} \cup {0}
           last     == Max(content \cup {row})
           used(k)  == Max(filled(k) \cup {IF k = row THEN Lesser(col + 1, oldCols) ELSE 0})
           chunks(k) == (Larger1(used(k)) + cols - 1) \div cols
           piece(k, j) == [i \in 1 .. cols |->
                              IF j * cols + i <= Lesser(Len(source(k)), used(k))
                              THEN source(k)[j * cols + i] ELSE Space]
           chunk(k) == [j \in 1 .. chunks(k - 1) |-> piece(k - 1, j - 1)]
           lines(n) == Joined([k \in 1 .. n |-> chunk(k)])
           wrapped  == lines(Lesser(last + 1, oldRows))
           all      == IF wrapped = <<>> THEN <<[i \in 1 .. cols |-> Space]>> ELSE wrapped
           first    == Minus(Len(all), rows)
           shown(k) == k \div cols + 1 + first \in DOMAIN all
           atRow    == IF row < oldRows THEN Len(lines(row)) + col \div cols ELSE 0
           atCol    == IF row < oldRows THEN col % cols ELSE 0
           now      == [k \in 0 .. cols * rows - 1 |->
                           IF shown(k) THEN all[k \div cols + 1 + first][(k % cols) + 1] ELSE Space]
           above    == SubSeq(all, 1, first)
<1>1. Size(cells) \in Nat
  BY SizeIs
<1>2. ASSUME NEW k \in Nat PROVE used(k) \in Nat
  <2> HIDE DEF used, filled, source
  <2>1. DOMAIN source(k) = 1 .. Lesser(start(k) + oldCols, Size(cells)) - start(k)
    BY DEF source, Slice
  <2>2. start(k) \in Nat
    BY <1>1, Products DEF Lesser
  <2>3. PICK n \in Nat : DOMAIN source(k) \subseteq 0 .. n
    <3> HIDE DEF start
    <3>1. PICK m : m = Lesser(start(k) + oldCols, Size(cells)) - start(k)
      OBVIOUS
    <3>2. m \in Int
      BY <1>1, <2>2, <3>1 DEF Lesser
    <3>3. CASE m \in Nat
      BY <2>1, <3>1, <3>3
    <3>4. CASE m < 0
      BY <2>1, <3>1, <3>4
    <3> QED
      BY <3>2, <3>3, <3>4
  <2>4. PICK c \in Nat : c = IF k = row THEN Lesser(col + 1, oldCols) ELSE 0
    BY DEF Lesser
  <2>5. PICK S : S = filled(k) \cup {c}
    OBVIOUS
  <2>6. PICK b \in Nat : b = n + c
    OBVIOUS
  <2>7. S # {} /\ S \in SUBSET (0 .. b)
    BY <2>3, <2>5, <2>6 DEF filled
  <2>8. Max(S) \in S
    BY ONLY <2>7, GreatestOf, b \in Nat
  <2>9. used(k) = Max(S)
    <3>1. S = filled(k) \cup {IF k = row THEN Lesser(col + 1, oldCols) ELSE 0}
      BY <2>4, <2>5
    <3> QED
      BY <3>1 DEF used
  <2>10. Max(S) \in Nat
    <3>1. Max(S) \in 0 .. b
      BY <2>7, <2>8
    <3> QED
      BY <3>1
  <2> QED
    BY <2>9, <2>10
<1>3. PICK W : \A k, j \in Nat : piece(k, j) \in W
  <2> HIDE DEF piece
  <2> DEFINE V == {piece(at[1], at[2]) : at \in Nat \X Nat}
  <2>1. ASSUME NEW k \in Nat, NEW j \in Nat PROVE piece(k, j) \in V
    <3>1. <<k, j>> \in Nat \X Nat /\ <<k, j>>[1] = k /\ <<k, j>>[2] = j
      OBVIOUS
    <3> QED
      BY <3>1
  <2> HIDE DEF V
  <2> QED
    BY <2>1
<1>4. ASSUME NEW k \in Nat PROVE chunks(k) \in Nat
  <2> HIDE DEF used
  <2>1. Larger1(used(k)) + cols - 1 \in Nat
    BY <1>2 DEF Larger1
  <2> QED
    BY <2>1
<1>5. ASSUME NEW k \in Nat \ {0} PROVE chunk(k) \in Seq(W)
  <2> HIDE DEF chunks, piece
  <2>1. k - 1 \in Nat /\ chunks(k - 1) \in Nat
    BY <1>4
  <2>2. \A j \in 1 .. chunks(k - 1) : piece(k - 1, j - 1) \in W
    BY <1>3, <2>1
  <2> QED
    BY <2>1, <2>2
<1>6. ASSUME NEW n \in Nat PROVE lines(n) \in Seq(W)
  <2> HIDE DEF chunk
  <2>1. PICK q : q = [k \in 1 .. n |-> chunk(k)]
    OBVIOUS
  <2>2. q \in Seq(Seq(W))
    BY <1>5, <2>1
  <2> QED
    BY <2>1, <2>2, JoinedIsList
<1>7. last \in Nat
  <2> HIDE DEF filled
  <2>1. PICK S : S = content \cup {row}
    OBVIOUS
  <2>2. PICK b \in Nat : b = oldRows + row
    OBVIOUS
  <2>3. S # {} /\ S \in SUBSET (0 .. b)
    BY <2>1, <2>2
  <2>4. Max(S) \in S
    BY ONLY <2>3, GreatestOf, b \in Nat
  <2>5. last = Max(S)
    BY <2>1
  <2>6. Max(S) \in Nat
    <3>1. Max(S) \in 0 .. b
      BY <2>3, <2>4
    <3> QED
      BY <3>1
  <2> HIDE DEF last
  <2> QED
    BY <2>5, <2>6
<1>8. Len(all) \in Nat
  <2> HIDE DEF lines, last
  <2>1. Lesser(last + 1, oldRows) \in Nat
    BY <1>7 DEF Lesser
  <2>2. wrapped \in Seq(W)
    BY <1>6, <2>1
  <2> QED
    BY <2>2
<1>9. first \in Nat
  <2> HIDE DEF all
  <2> QED
    BY <1>8 DEF Minus
<1>10. List(above)
  <2> HIDE DEF all, first
  <2>1. PICK a : a = all
    OBVIOUS
  <2>2. PICK f \in Nat : f = first
    BY <1>9
  <2>3. PICK T : T = {a[i] : i \in 1 .. f}
    OBVIOUS
  <2>4. SubSeq(a, 1, f) \in Seq(T)
    BY <2>3, SubSeqProperties
  <2> QED
    BY <2>1, <2>2, <2>4 DEF List
<1>11. Lesser(atCol, cols - 1) \in 0 .. cols - 1
  BY DEF Lesser
<1>12. atRow \in Nat
  <2> HIDE DEF lines
  <2>1. Len(lines(row)) \in Nat
    BY <1>6
  <2>2. col \div cols \in Nat
    OBVIOUS
  <2> QED
    BY <2>1, <2>2
<1>13. Lesser(Minus(atRow, first), rows - 1) \in 0 .. rows - 1
  <2> HIDE DEF atRow, first
  <2> QED
    BY <1>9, <1>12 DEF Lesser, Minus
<1>14. DOMAIN now = 0 .. cols * rows - 1
  <2> HIDE DEF all, first, shown
  <2> QED
    OBVIOUS
<1>15. Rewrapped(cells, oldCols, oldRows, col, row, cols, rows)
       = [cells |-> now, col |-> Lesser(atCol, cols - 1), row |-> Lesser(Minus(atRow, first), rows - 1),
          above |-> above]
  BY DEF Rewrapped
<1> SUFFICES IsRewrapped([cells |-> now, col |-> Lesser(atCol, cols - 1),
                          row |-> Lesser(Minus(atRow, first), rows - 1), above |-> above], cols, rows)
  BY <1>15
<1> HIDE DEF now, above, atCol, atRow, first
<1> QED
  BY <1>10, <1>11, <1>13, <1>14 DEF IsRewrapped

LEMMA ResizedIsGrid ==
  ASSUME NEW g, IsGrid(g), NEW cols \in Nat \ {0}, NEW rows \in Nat \ {0}
  PROVE  IsGrid(Resized(g, cols, rows))
<1>1. CASE <<cols, rows>> = <<g.cols, g.rows>>
  BY <1>1 DEF Resized
<1>2. CASE <<cols, rows>> # <<g.cols, g.rows>>
  <2>1. PICK new : new = Rewrapped(g.cells, g.cols, g.rows, g.col, g.row, cols, rows)
    OBVIOUS
  <2>2. PICK saved : saved = Rewrapped(g.alt.cells, g.cols, g.rows, g.alt.col, g.alt.row, cols, rows)
    OBVIOUS
  <2>3. PICK back : back = Kept(g.back, IF g.alt = NoScreen THEN new.above ELSE saved.above)
    OBVIOUS
  <2>4. PICK alt : alt = IF g.alt = NoScreen THEN g.alt
                         ELSE [cells |-> saved.cells, col |-> saved.col, row |-> saved.row,
                               top |-> 0, bot |-> rows - 1]
    OBVIOUS
  <2>5. PICK h : h = [cols |-> cols, rows |-> rows, cells |-> new.cells, col |-> new.col,
                      row |-> new.row, top |-> 0, bot |-> rows - 1, alt |-> alt,
                      savedCol |-> g.savedCol, savedRow |-> g.savedRow, back |-> back,
                      offset |-> g.offset]
    OBVIOUS
  <2>6. Resized(g, cols, rows) = h
    <3>1. Resized(g, cols, rows) =
            [g EXCEPT !.cols = cols, !.rows = rows, !.cells = new.cells, !.col = new.col,
                      !.row = new.row, !.top = 0, !.bot = rows - 1, !.back = back, !.alt = alt]
      BY <1>2, <2>1, <2>2, <2>3, <2>4 DEF Resized
    <3>2. PICK cells : cells = new.cells
      OBVIOUS
    <3>3. PICK col : col = new.col
      OBVIOUS
    <3>4. PICK row : row = new.row
      OBVIOUS
    <3>5. PICK bot : bot = rows - 1
      OBVIOUS
    <3>6. PICK k : k = [g EXCEPT !.cols = cols, !.rows = rows, !.cells = cells, !.col = col]
      OBVIOUS
    <3>7. k = [cols |-> cols, rows |-> rows, cells |-> cells, col |-> col, row |-> g.row,
               top |-> g.top, bot |-> g.bot, alt |-> g.alt, savedCol |-> g.savedCol,
               savedRow |-> g.savedRow, back |-> g.back, offset |-> g.offset]
      BY <3>6 DEF IsGrid
    <3>8. PICK l : l = [k EXCEPT !.row = row, !.top = 0, !.bot = bot]
      OBVIOUS
    <3>9. l = [cols |-> cols, rows |-> rows, cells |-> cells, col |-> col, row |-> row,
               top |-> 0, bot |-> bot, alt |-> g.alt, savedCol |-> g.savedCol,
               savedRow |-> g.savedRow, back |-> g.back, offset |-> g.offset]
      BY <3>7, <3>8
    <3>10. [l EXCEPT !.back = back, !.alt = alt]
           = [cols |-> cols, rows |-> rows, cells |-> cells, col |-> col, row |-> row,
              top |-> 0, bot |-> bot, alt |-> alt, savedCol |-> g.savedCol,
              savedRow |-> g.savedRow, back |-> back, offset |-> g.offset]
      <4>1. PICK m : m = [l EXCEPT !.back = back]
        OBVIOUS
      <4>2. m = [cols |-> cols, rows |-> rows, cells |-> cells, col |-> col, row |-> row,
                 top |-> 0, bot |-> bot, alt |-> g.alt, savedCol |-> g.savedCol,
                 savedRow |-> g.savedRow, back |-> back, offset |-> g.offset]
        BY <3>9, <4>1
      <4>3. [m EXCEPT !.alt = alt]
            = [cols |-> cols, rows |-> rows, cells |-> cells, col |-> col, row |-> row,
               top |-> 0, bot |-> bot, alt |-> alt, savedCol |-> g.savedCol,
               savedRow |-> g.savedRow, back |-> back, offset |-> g.offset]
        BY <4>2
      <4> QED
        BY <4>1, <4>3
    <3>11. Resized(g, cols, rows) = [l EXCEPT !.back = back, !.alt = alt]
      BY <3>1, <3>2, <3>3, <3>4, <3>5, <3>6, <3>8
    <3> QED
      BY <2>5, <3>2, <3>3, <3>4, <3>5, <3>10, <3>11
  <2>7. IsRewrapped(new, cols, rows)
    <3>1. /\ g.cols \in Nat /\ g.rows \in Nat /\ g.col \in Nat /\ g.row \in Nat
          /\ DOMAIN g.cells = 0 .. g.cols * g.rows - 1
      BY GridFacts DEF IsGrid
    <3> QED
      BY <2>1, <3>1, RewrappedFits
  <2>8. g.alt # NoScreen => IsRewrapped(saved, cols, rows)
    <3>1. ASSUME g.alt # NoScreen PROVE IsRewrapped(saved, cols, rows)
      <4>1. IsSaved(g, g.alt) /\ LastRow(g) \in Nat /\ g.cols \in Nat /\ g.rows \in Nat
        BY <3>1, GridFacts DEF IsGrid
      <4>2. /\ g.alt.col \in Nat /\ g.alt.row \in Nat
            /\ DOMAIN g.alt.cells = 0 .. g.cols * g.rows - 1
        BY <4>1 DEF IsSaved
      <4> QED
        BY <2>2, <4>1, <4>2, RewrappedFits
    <3> QED
      BY <3>1
  <2>9. List(back) /\ Len(back) <= Limit
    <3>1. PICK lines : lines = IF g.alt = NoScreen THEN new.above ELSE saved.above
      OBVIOUS
    <3>2. List(lines)
      BY <2>7, <2>8, <3>1 DEF IsRewrapped
    <3>3. List(g.back)
      BY DEF IsGrid
    <3> QED
      BY <2>3, <3>1, <3>2, <3>3, KeptFits
  <2>10. LastRow(h) = rows - 1 /\ rows - 1 \in Nat
    BY <2>5 DEF LastRow, Minus
  <2>11. /\ new.col \in 0 .. cols /\ new.row \in 0 .. rows - 1
         /\ DOMAIN new.cells = 0 .. cols * rows - 1
    BY <2>7 DEF IsRewrapped
  <2>12. alt # NoScreen => IsSaved(h, alt)
    <3>1. ASSUME alt # NoScreen PROVE IsSaved(h, alt)
      <4>1. g.alt # NoScreen
        BY <2>4, <3>1
      <4>2. saved.col \in 0 .. cols /\ saved.row \in 0 .. rows - 1
            /\ DOMAIN saved.cells = 0 .. cols * rows - 1
        BY <2>8, <4>1 DEF IsRewrapped
      <4>3. alt = [cells |-> saved.cells, col |-> saved.col, row |-> saved.row,
                   top |-> 0, bot |-> rows - 1]
        BY <2>4, <4>1
      <4>4. h.cols = cols /\ h.rows = rows
        BY <2>5
      <4> QED
        BY <2>10, <4>2, <4>3, <4>4 DEF IsSaved
    <3> QED
      BY <3>1
  <2>13. g.savedCol \in Nat /\ g.savedRow \in Nat /\ g.offset \in Nat
    BY DEF IsGrid
  <2>14. IsGrid(h)
    BY <2>5, <2>9, <2>10, <2>11, <2>12, <2>13 DEF IsGrid
  <2> QED
    BY <2>6, <2>14
<1> QED
  BY <1>1, <1>2

LEMMA ResizeKeeps ==
  ASSUME IsGrid(grid), NEW size \in Sizes, Resize(size)
  PROVE  IsGrid(grid)'
<1>1. size[1] \in Nat \ {0} /\ size[2] \in Nat \ {0}
  BY TerminalAssumption
<1>2. IsGrid(Resized(grid, size[1], size[2]))
  BY <1>1, ResizedIsGrid
<1> QED
  BY <1>2, BecameGrid DEF Resize

-----------------------------------------------------------------------------
(* A shell that has printed something.                                     *)

LEMMA NewIsGrid ==
  ASSUME NEW cols \in Nat, NEW rows \in Nat, rows = 0 => cols = 0
  PROVE  IsGrid(New(cols, rows))
<1>1. PICK g : g = New(cols, rows)
  OBVIOUS
<1>2. g = [cols |-> cols, rows |-> rows, cells |-> Wiped(cols * rows), col |-> 0, row |-> 0,
           top |-> 0, bot |-> Minus(rows, 1), alt |-> NoScreen, savedCol |-> 0, savedRow |-> 0,
           back |-> <<>>, offset |-> 0]
  BY <1>1 DEF New
<1>3. LastRow(g) = Minus(rows, 1) /\ Minus(rows, 1) \in Nat
  BY <1>2 DEF LastRow, Minus
<1>4. DOMAIN Wiped(cols * rows) = 0 .. cols * rows - 1
  BY DEF Wiped
<1>5. PICK none : none = <<>>
  OBVIOUS
<1>6. List(none) /\ Len(none) <= Limit
  <2>1. none \in Seq({}) /\ Len(none) = 0
    BY <1>5
  <2> QED
    BY <2>1, TerminalAssumption DEF List
<1>7. IsGrid(g)
  BY <1>2, <1>3, <1>4, <1>5, <1>6 DEF IsGrid
<1> QED
  BY <1>1, <1>7

Printing == INSTANCE FoldFacts WITH
    Op <- LAMBDA k, g, c : IF c = NewLine THEN LineFeed([g EXCEPT !.col = 0]) ELSE Printed(g, c)
LEMMA ShellFolds ==
  ASSUME NEW start
  PROVE  Shell(start) = Printing!Fold(0, New(start.size[1], start.size[2]), start.text)
  BY DEF Shell, FoldLeft, MapThenFoldSet, Max, Printing!Fold, Printing!Iterates, Printing!Top

LEMMA ShellIsGrid ==
  ASSUME NEW start \in Shells
  PROVE  IsGrid(Shell(start))
<1>1. start.size \in {<<0, 0>>} \cup (Nat \ {0}) \X (Nat \ {0}) /\ start.text \in Seq(Range(start.text))
  BY TerminalAssumption
<1>2. PICK g : g = New(start.size[1], start.size[2])
  OBVIOUS
<1>3. IsGrid(g)
  <2>1. /\ start.size[1] \in Nat /\ start.size[2] \in Nat
        /\ start.size[2] = 0 => start.size[1] = 0
    BY <1>1
  <2> QED
    BY <1>2, <2>1, NewIsGrid
<1>4. PICK q : q = start.text
  OBVIOUS
<1>5. PICK n \in Nat : n = Len(q)
  BY <1>1, <1>4
<1>6. PICK h : Printing!Trace(h, 0, g, q)
  BY <1>1, <1>4, Printing!FoldTrace
<1>7. /\ h[0] = g /\ Printing!Fold(0, g, q) = h[n]
      /\ \A i \in 1 .. n : h[i] = IF q[i] = NewLine THEN LineFeed([h[i - 1] EXCEPT !.col = 0])
                                  ELSE Printed(h[i - 1], q[i])
  BY <1>5, <1>6 DEF Printing!Trace
<1> DEFINE S == {i \in Nat : i <= n => IsGrid(h[i])}
<1>8. 0 \in S
  BY <1>3, <1>7
<1>9. ASSUME NEW i \in Nat, i \in S PROVE i + 1 \in S
  <2>1. CASE i + 1 <= n
    <3>1. i + 1 \in 1 .. n /\ (i + 1) - 1 = i /\ i <= n
      BY <2>1
    <3>2. PICK o : o = h[i]
      OBVIOUS
    <3>3. IsGrid(o)
      BY <1>9, <3>1, <3>2
    <3>4. h[i + 1] = IF q[i + 1] = NewLine THEN LineFeed([o EXCEPT !.col = 0]) ELSE Printed(o, q[i + 1])
      BY <1>7, <3>1, <3>2
    <3>5. IsGrid([o EXCEPT !.col = 0])
      BY <3>3, ReturnedIsGrid
    <3>6. IsGrid(LineFeed([o EXCEPT !.col = 0])) /\ IsGrid(Printed(o, q[i + 1]))
      BY <3>3, <3>5, LineFed, PrintedIsGrid
    <3>7. IsGrid(h[i + 1])
      BY <3>4, <3>6
    <3> QED
      BY <3>7
  <2>2. CASE ~(i + 1 <= n)
    BY <2>2
  <2> QED
    BY <2>1, <2>2
<1>10. Nat \subseteq S
  <2> HIDE DEF S
  <2> QED
    BY <1>8, <1>9, Printing!SetInduction
<1>11. IsGrid(h[n])
  BY <1>10
<1>12. Shell(start) = h[n]
  BY <1>2, <1>4, <1>7, ShellFolds
<1> QED
  BY <1>11, <1>12

-----------------------------------------------------------------------------
(* So the grid stays one.                                                  *)

LEMMA TermStepKeepsGrid == ASSUME IsGrid(grid), [TermNext]_termVars PROVE IsGrid(grid)'
<1>1. CASE UNCHANGED termVars
  BY <1>1 DEF termVars
<1>2. CASE TermNext
  <2>1. CASE PrintChar \/ Execute \/ Tab \/ EraseDisplay \/ EraseLine
    BY <2>1, PrintCharKeeps, ExecuteKeeps, TabKeeps, EraseDisplayKeeps, EraseLineKeeps
  <2>2. CASE SaveCursor \/ RestoreCursor \/ ReverseIndex \/ EnterAlternate \/ LeaveAlternate
    BY <2>2, SaveCursorKeeps, RestoreCursorKeeps, ReverseIndexKeeps, EnterAlternateKeeps,
       LeaveAlternateKeeps
  <2>3. ASSUME NEW n \in 0 .. MaxParam,
               \/ MoveCursor(n) \/ ScrollRegion(n) \/ InsertLines(n)
               \/ DeleteLines(n) \/ Chars(n) \/ ScrollView(n)
        PROVE  IsGrid(grid)'
    <3>1. n \in Nat
      BY TerminalAssumption
    <3> QED
      BY <2>3, <3>1, MoveCursorKeeps, ScrollRegionKeeps, InsertLinesKeeps, DeleteLinesKeeps,
         CharsKeep, ScrollViewKeeps
  <2>4. ASSUME NEW n \in 0 .. MaxParam, NEW m \in 0 .. MaxParam, PlaceCursor(n, m) \/ SetRegion(n, m)
        PROVE  IsGrid(grid)'
    <3>1. n \in Nat /\ m \in Nat
      BY TerminalAssumption
    <3> QED
      BY <2>4, <3>1, PlaceCursorKeeps, SetRegionKeeps
  <2>5. ASSUME NEW size \in Sizes, Resize(size) PROVE IsGrid(grid)'
    BY <2>5, ResizeKeeps
  <2> QED
    BY <1>2, <2>1, <2>2, <2>3, <2>4, <2>5 DEF TermNext
<1> QED
  BY <1>1, <1>2

\* The lines that can be shown are as many as the screen has rows.
LEMMA RowsAreShown ==
  ASSUME NEW g, IsGrid(g)
  PROVE  Len(VisibleRows(g)) = g.rows
<1>1. PICK n \in Nat : n = g.rows
  BY DEF IsGrid
<1>2. PICK b \in Nat : b = Len(g.back)
  BY ListShape DEF IsGrid
<1>3. PICK from \in Nat : from = Minus(b, g.offset)
  BY DEF Minus, IsGrid
<1>4. PICK screen : screen = [r \in 1 .. n |-> Slice(g.cells, (r - 1) * g.cols, r * g.cols)]
  OBVIOUS
<1>5. List(screen) /\ Len(screen) = n
  <2> DEFINE line(r) == Slice(g.cells, (r - 1) * g.cols, r * g.cols)
  <2>1. screen = [r \in 1 .. n |-> line(r)]
    BY <1>4
  <2> HIDE DEF line
  <2>2. PICK T : T = {line(r) : r \in 1 .. n}
    OBVIOUS
  <2>3. screen \in Seq(T)
    BY <2>1, <2>2
  <2>4. Len(screen) = n
    BY <2>1
  <2> QED
    BY <2>3, <2>4 DEF List
<1>6. PICK old : old = SubSeq(g.back, from + 1, b)
  OBVIOUS
<1>7. List(old)
  <2>1. PICK back : back = g.back
    OBVIOUS
  <2>2. PICK T : T = {back[i] : i \in from + 1 .. b}
    OBVIOUS
  <2>3. SubSeq(back, from + 1, b) \in Seq(T)
    BY <2>2, SubSeqProperties
  <2> QED
    BY <1>6, <2>1, <2>3 DEF List
<1>8. PICK all : all = old \o screen
  OBVIOUS
<1>9. List(all) /\ Len(all) = Len(old) + n
  BY <1>5, <1>7, <1>8, ListsJoin
<1>10. Len(old) \in Nat
  BY <1>7, ListShape
<1>11. PICK r : r = SubSeq(all, 1, n)
  OBVIOUS
<1>12. Len(r) = n
  <2>1. PICK T : T = {all[i] : i \in 1 .. n}
    OBVIOUS
  <2>2. Len(r) = IF 1 <= n THEN n - 1 + 1 ELSE 0
    BY <1>11, <2>1, SubSeqProperties
  <2> QED
    BY <2>2
<1>13. VisibleRows(g) = r
  BY <1>1, <1>2, <1>3, <1>4, <1>6, <1>8, <1>11 DEF VisibleRows
<1> QED
  BY <1>1, <1>12, <1>13

LEMMA GridIsSound == ASSUME IsGrid(grid) PROVE GridSound
<1>1. /\ LastRow(grid) \in Nat /\ grid.cols \in Nat /\ grid.rows \in Nat
      /\ Size(grid.cells) = grid.cols * grid.rows /\ grid.cells # Panic
  BY RowsFit DEF IsGrid
<1>2. Within(grid, grid, grid.cells)
  BY <1>1 DEF Within, IsGrid
<1>3. ASSUME grid.alt # NoScreen PROVE Within(grid, grid.alt, grid.alt.cells)
  <2>1. IsSaved(grid, grid.alt)
    BY <1>3 DEF IsGrid
  <2>2. PICK n \in Nat : n = grid.cols * grid.rows
    BY <1>1
  <2>3. PICK cells : cells = grid.alt.cells
    OBVIOUS
  <2>4. DOMAIN cells = 0 .. n - 1
    BY <2>1, <2>2, <2>3 DEF IsSaved
  <2>5. Size(cells) = n /\ cells # Panic
    BY <2>4, SizeIs
  <2> QED
    BY <2>1, <2>2, <2>3, <2>5 DEF Within, IsSaved
<1>4. Len(grid.back) <= Limit /\ Len(VisibleRows(grid)) = grid.rows
  BY RowsAreShown DEF IsGrid
<1> QED
  BY <1>2, <1>3, <1>4 DEF GridSound

\* No escape sequence and no size leads out of the grid.
THEOREM GridsAreAlwaysSound == TermSpec => []GridSound
<1>1. TermInit => IsGrid(grid)
  BY ShellIsGrid DEF TermInit
<1>2. IsGrid(grid) /\ [TermNext]_termVars => IsGrid(grid)'
  BY TermStepKeepsGrid
<1>3. IsGrid(grid) => GridSound
  BY GridIsSound
<1> QED
  BY <1>1, <1>2, <1>3, PTL DEF TermSpec
=============================================================================
