-------------------------- MODULE StampLayoutProofs --------------------------
(***************************************************************************)
(* Theorems about StampLayout, for any number of users, any sites, every   *)
(* template, every breakout and every edit.  First what a transaction of a *)
(* stamp does to its tables (StampAdds): it only adds to them, although    *)
(* its plan is made by recursions over trees, connections and names.  Then *)
(* what drawing does to a canvas (DrawRacksDraws), one step of each        *)
(* operation, and the invariant of the layout (LInv).                      *)
(***************************************************************************)
EXTENDS StampLayout, FiniteSetTheorems, SequenceTheorems, WellFoundedInduction, TLAPS

-----------------------------------------------------------------------------
(* The inductive invariant of the layout                                    *)

Op(u) == job[u].op
Once(objects, rack) == \A i, k \in DOMAIN objects : objects[i].rack = rack /\ objects[k].rack = rack => i = k

\* The canvases, and the copies of them that may be saved.
Copies(u) ==
    CASE Op(u) = "edit" -> {job[u].objects}
      [] Op(u) = "save" -> {job[u].read, job[u].new}
      [] OTHER -> {}
Documents == {canvas[s].objects : s \in Scopes} \cup UNION {Copies(u) : u \in Users}

\* The racks that the operation of a user draws.
RacksOf(u) ==
    CASE Op(u) = "draw" -> {d.rack : d \in ToSet(job[u].racks)}
      [] Op(u) = "save" -> {d.rack : d \in ToSet(job[u].drawn)}
      [] OTHER -> {}

\* Whoever asks for a floorplan can have it.
ScopesAreThere == \A r \in StampRequests : r.scope \in Scopes
\* No canvas is ahead of the database.
RacksAreKnown == \A o \in Documents : NamesRacks(o, Len(world.racks))
\* A rack that is still to be drawn has no second object anywhere.
DrawnOnce == \A u \in Users : \A rack \in RacksOf(u) : rack \in DOMAIN world.racks /\ \A o \in Documents : Once(o, rack)
DrawingOf(u) ==
    /\ Op(u) = "draw" => \A i, k \in DOMAIN job[u].racks : job[u].racks[i].rack = job[u].racks[k].rack => i = k
    /\ Op(u) = "save" => /\ \A i, k \in DOMAIN job[u].drawn : job[u].drawn[i].rack = job[u].drawn[k].rack => i = k
                         /\ job[u].new = DrawRacks(job[u].read, job[u].drawn, job[u].force)
DrawingInOrder == \A u \in Users : DrawingOf(u)

\* What a breakout has left of a device.
Complete(d, specs) ==
    \A k \in DOMAIN specs : HasParent(world.devices[d].ports, specs[k]) =>
        \A c \in 0..(specs[k].count - 1) : HasChild(world.devices[d].ports, ChildName(specs[k], c))
Pending(d, specs, children) ==
    /\ \A i \in DOMAIN children : IsChild(children[i])
    /\ \A k \in DOMAIN specs : HasParent(world.devices[d].ports, specs[k]) =>
        \A c \in 0..(specs[k].count - 1) : \/ HasChild(world.devices[d].ports, ChildName(specs[k], c))
                                           \/ \E i \in DOMAIN children : children[i].name = ChildName(specs[k], c)
BreakoutOf(u) ==
    /\ Op(u) \in {"breakout", "children"} =>
          /\ ToSet(job[u].left) \subseteq ToSet(job[u].devices) /\ ToSet(job[u].devices) \subseteq DOMAIN world.devices
          /\ \A d \in ToSet(job[u].devices) : d \in ToSet(job[u].left) \/ Complete(d, job[u].specs)
    /\ Op(u) = "children" => /\ job[u].left # <<>> /\ job[u].children # <<>>
                             /\ Pending(Head(job[u].left), job[u].specs, job[u].children)
BreakoutInOrder == \A u \in Users : BreakoutOf(u)

LInv == LayoutTypeOK /\ ScopesAreThere /\ RacksAreKnown /\ DrawnOnce /\ DrawingInOrder /\ BreakoutInOrder

-----------------------------------------------------------------------------
(* Numbers, and functions defined from one number to the next.  The         *)
(* library's induction theorems take an operator; the least element of a    *)
(* set of counterexamples does the same for a set.                          *)

\* Induction over the numbers up to N
LEMMA Induction ==
  ASSUME NEW N \in Nat, NEW T, 0 \in T, \A k \in 1..N : k - 1 \in T => k \in T
  PROVE  \A k \in 0..N : k \in T
<1> SUFFICES ASSUME NEW k \in 0..N, k \notin T PROVE FALSE
  OBVIOUS
<1> DEFINE R == {p \in Nat \X Nat : p[1] < p[2]}
           S == {n \in 0..N : n \notin T}
<1>1. IsWellFoundedOn(R, Nat)
  BY NatLessThanWellFounded DEF OpToRel
<1>2. PICK m \in S : \A n \in S : <<n, m>> \notin R
  <2>1. S \in SUBSET Nat /\ S # {}
    OBVIOUS
  <2> HIDE DEF S, R
  <2> QED BY <1>1, <2>1, WFMin
<1>3. m \in 1..N /\ m - 1 \in 0..N /\ m - 1 \in T
  <2>1. m \in 1..N
    BY <1>2
  <2>2. m - 1 \in Nat /\ m \in Nat /\ m - 1 < m
    BY <2>1
  <2>3. <<m - 1, m>> \in R
    BY <2>2
  <2>4. m - 1 \notin S
    BY <1>2, <2>3
  <2> QED BY <2>1, <2>4
<1> QED BY <1>2, <1>3

\* Numbers and the ones before them
LEMMA NumbersUpTo ==
  ASSUME NEW n \in Nat
  PROVE  0 \in 0..n /\ n \in 0..n /\ \A k \in 1..n : k \in 0..n /\ k - 1 \in 0..n
OBVIOUS

\* A function that is defined from one number to the next exists.
Unfolds(f, N, X, x, h) == f \in [0..N -> X] /\ f[0] = x /\ \A k \in 1..N : f[k] = h[k][f[k - 1]]

\* A recursion over the numbers up to n has a solution.
LEMMA Recursion ==
  ASSUME NEW N \in Nat, NEW X, NEW x \in X, NEW h \in [1..N -> [X -> X]]
  PROVE  \E f : Unfolds(f, N, X, x, h)
<1> DEFINE Good(n, f) == /\ f[0] = x
                         /\ \A k \in 1..n : f[k] = h[k][f[k - 1]]
                         /\ \A k \in 0..n : f[k] \in X
           T == {n \in 0..N : \E f : Good(n, f)}
<1>1. 0 \in T
  <2> DEFINE g == [k \in 0..0 |-> x]
  <2>1. Good(0, g)
    OBVIOUS
  <2> HIDE DEF g
  <2> QED BY <2>1
<1>2. ASSUME NEW n \in 1..N, n - 1 \in T PROVE n \in T
  <2>1. PICK f : Good(n - 1, f)
    BY <1>2
  <2> DEFINE g == [k \in 0..n |-> IF k = n THEN h[n][f[n - 1]] ELSE f[k]]
  <2>2. f[n - 1] \in X /\ h[n][f[n - 1]] \in X
    BY <2>1
  <2>3. g[0] = x
    BY <2>1
  <2>4. ASSUME NEW k \in 1..n PROVE g[k] = h[k][g[k - 1]]
    <3>1. g[k - 1] = f[k - 1]
      OBVIOUS
    <3>2. k # n => f[k] = h[k][f[k - 1]]
      BY <2>1
    <3> QED BY <3>1, <3>2
  <2>5. ASSUME NEW k \in 0..n PROVE g[k] \in X
    <3>1. k # n => f[k] \in X
      BY <2>1
    <3> QED BY <2>2, <3>1
  <2> HIDE DEF g
  <2>6. Good(n, g)
    BY <2>3, <2>4, <2>5
  <2> QED BY <2>6
<1>3. N \in T
  <2>1. N \in 0..N
    OBVIOUS
  <2> HIDE DEF T
  <2>2. \A k \in 0..N : k \in T
    BY <1>1, <1>2, Induction
  <2> QED BY <2>1, <2>2
<1>4. PICK f : Good(N, f)
  BY <1>3
<1> DEFINE g == [k \in 0..N |-> f[k]]
<1>5. g[0] = x /\ g \in [0..N -> X]
  BY <1>4
<1>6. ASSUME NEW k \in 1..N PROVE g[k] = h[k][g[k - 1]]
  <2>1. g[k] = f[k] /\ g[k - 1] = f[k - 1]
    OBVIOUS
  <2> QED BY <1>4, <2>1
<1> HIDE DEF g
<1> QED BY <1>5, <1>6 DEF Unfolds


\* What holds at first and is kept from one number to the next holds throughout.
LEMMA Steps ==
  ASSUME NEW n \in Nat, NEW f, NEW X, f[0] \in X, \A k \in 1..n : f[k - 1] \in X => f[k] \in X
  PROVE  \A k \in 0..n : f[k] \in X
<1> DEFINE T == {k \in 0..n : f[k] \in X}
<1>1. 0 \in T
  OBVIOUS
<1>2. \A k \in 1..n : k - 1 \in T => k \in T
  OBVIOUS
<1> HIDE DEF T
<1>3. \A k \in 0..n : k \in T
  BY <1>1, <1>2, Induction
<1> QED BY <1>3 DEF T

\* Sequences, item by item
LEMMA Sequence ==
  ASSUME NEW S, NEW s \in Seq(S)
  PROVE  Len(s) \in Nat /\ DOMAIN s = 1..Len(s) /\ (\A i \in 1..Len(s) : s[i] \in S) /\ s \in [1..Len(s) -> S]
OBVIOUS

\* A function on 1..n is a sequence of length n.
LEMMA IsSequence ==
  ASSUME NEW S, NEW n \in Nat, NEW s \in [1..n -> S]
  PROVE  s \in Seq(S) /\ Len(s) = n
BY SeqDef

\* What Append leaves and what it adds
LEMMA Appended ==
  ASSUME NEW S, NEW s \in Seq(S), NEW e \in S
  PROVE  /\ Append(s, e) \in Seq(S) /\ Len(Append(s, e)) = Len(s) + 1
         /\ \A i \in 1..Len(s) : Append(s, e)[i] = s[i]
         /\ Append(s, e)[Len(s) + 1] = e
BY AppendProperties

\* Two sequences, one after the other
LEMMA PutTogether ==
  ASSUME NEW S, NEW a \in Seq(S), NEW b \in Seq(S), NEW c, c = a \o b
  PROVE  /\ Len(a) \in Nat /\ Len(b) \in Nat /\ Len(c) = Len(a) + Len(b)
         /\ \A i \in 1..Len(a) : i \in 1..Len(c) /\ c[i] = a[i]
         /\ \A i \in 1..Len(b) : Len(a) + i \in 1..Len(c) /\ c[Len(a) + i] = b[i]
<1>1. Len(a) \in Nat /\ Len(b) \in Nat
  BY LenProperties
<1>2. Len(c) = Len(a) + Len(b)
  BY ConcatProperties
<1>3. \A i \in 1..Len(a) + Len(b) : c[i] = IF i <= Len(a) THEN a[i] ELSE b[i - Len(a)]
  BY ConcatProperties
<1>4. ASSUME NEW i \in 1..Len(a) PROVE i \in 1..Len(c) /\ c[i] = a[i]
  <2>1. i \in 1..Len(a) + Len(b) /\ i <= Len(a)
    BY <1>1
  <2> QED BY <1>2, <1>3, <2>1
<1>5. ASSUME NEW i \in 1..Len(b) PROVE Len(a) + i \in 1..Len(c) /\ c[Len(a) + i] = b[i]
  <2>1. Len(a) + i \in 1..Len(a) + Len(b) /\ ~(Len(a) + i <= Len(a)) /\ (Len(a) + i) - Len(a) = i
    BY <1>1
  <2>2. c[Len(a) + i] = b[(Len(a) + i) - Len(a)]
    BY <1>3, <2>1
  <2> QED BY <1>2, <2>1, <2>2
<1> QED BY <1>1, <1>2, <1>4, <1>5

IsFlattening(f, s) == \A i \in 1..Len(s) : f[i] = IF i = 1 THEN s[i] ELSE f[i - 1] \o s[i]

\* Flattening solves its own recursion.
LEMMA FlattenUnfolds ==
  ASSUME NEW S, NEW s \in Seq(Seq(S)), Len(s) # 0
  PROVE  \E f : IsFlattening(f, s) /\ FlattenSeq(s) = f[Len(s)]
<1> DEFINE n == Len(s)
           X == Seq(S)
           h == [k \in 1..n |-> [y \in X |-> y \o s[k]]]
           Body(f) == [i \in 1..n |-> IF i = 1 THEN s[i] ELSE f[i - 1] \o s[i]]
<1>1. n \in Nat /\ \A k \in 1..n : s[k] \in X
  BY Sequence
<1>2. h \in [1..n -> [X -> X]]
  <2>1. \A k \in 1..n, y \in X : y \o s[k] \in X
    BY <1>1, ConcatProperties
  <2> HIDE DEF X, n
  <2> QED BY <2>1
<1>3. PICK f : Unfolds(f, n, X, <<>>, h)
  <2>1. <<>> \in X
    BY EmptySeq
  <2> HIDE DEF h, X, n
  <2> QED BY <1>1, <1>2, <2>1, Recursion
<1>4. f[0] = <<>> /\ \A k \in 1..n : f[k] = f[k - 1] \o s[k]
  <2>1. \A k \in 1..n : k - 1 \in 0..n
    BY <1>1, NumbersUpTo
  <2>2. \A k \in 1..n, y \in X : h[k][y] = y \o s[k]
    OBVIOUS
  <2> HIDE DEF h, X, n
  <2> QED BY <1>3, <2>1, <2>2 DEF Unfolds
<1>5. f[1] = s[1]
  <2>1. 1 \in 1..n /\ 1 - 1 = 0
    BY <1>1
  <2>2. f[1] = <<>> \o s[1] /\ s[1] \in Seq(S)
    BY <1>1, <1>4, <2>1
  <2> QED BY <2>2, ConcatEmptySeq
<1> DEFINE g == [i \in 1..n |-> f[i]]
<1>6. g = Body(g)
  <2>1. ASSUME NEW i \in 1..n PROVE g[i] = IF i = 1 THEN s[i] ELSE g[i - 1] \o s[i]
    <3>1. CASE i = 1
      BY <1>5, <3>1
    <3>2. CASE i # 1
      <4>1. i - 1 \in 1..n
        BY <1>1, <3>2
      <4> QED BY <1>4, <3>2, <4>1
    <3> QED BY <3>1, <3>2
  <2> QED BY <2>1
<1> DEFINE c == CHOOSE d : d = Body(d)
<1>7. c = Body(c)
  <2> HIDE DEF g, Body
  <2> QED BY <1>6
<1>8. FlattenSeq(s) = c[n]
  BY DEF FlattenSeq
<1>9. IsFlattening(c, s)
  <2> HIDE DEF c
  <2> QED BY <1>7 DEF IsFlattening
<1> QED BY <1>8, <1>9

\* Sequences that are put together have all their items, and no others.
LEMMA Flattened ==
  ASSUME NEW S, NEW s \in Seq(Seq(S))
  PROVE  /\ FlattenSeq(s) \in Seq(S)
         /\ \A k \in 1..Len(s) : \A i \in 1..Len(s[k]) :
                \E j \in 1..Len(FlattenSeq(s)) : FlattenSeq(s)[j] = s[k][i]
<1> DEFINE n == Len(s)
<1>1. n \in Nat /\ \A k \in 1..n : s[k] \in Seq(S)
  BY Sequence
<1>2. CASE n = 0
  <2>1. s = <<>>
    BY <1>2, EmptySeq
  <2>2. FlattenSeq(s) = <<>>
    BY <1>2, <2>1 DEF FlattenSeq
  <2>3. <<>> \in Seq(S)
    BY EmptySeq
  <2> QED BY <1>2, <2>2, <2>3
<1>3. CASE n # 0
  <2>1. PICK f : IsFlattening(f, s) /\ FlattenSeq(s) = f[n]
    BY <1>3, FlattenUnfolds
  <2> DEFINE F == [k \in 0..n |-> IF k = 0 THEN <<>> ELSE f[k]]
  <2>2. F[0] = <<>> /\ F[n] = FlattenSeq(s) /\ 0 \in 0..n /\ n \in 0..n
    BY <1>1, <1>3, <2>1
  <2>3. ASSUME NEW k \in 1..n, F[k - 1] \in Seq(S) PROVE F[k] = F[k - 1] \o s[k]
    <3>1. F[k] = f[k] /\ s[k] \in Seq(S)
      BY <1>1
    <3>2. CASE k = 1
      <4>1. F[k - 1] = <<>> /\ f[k] = s[k]
        BY <2>1, <3>2 DEF IsFlattening
      <4> QED BY <3>1, <4>1, ConcatEmptySeq
    <3>3. CASE k # 1
      <4>1. k - 1 \in 1..n /\ k - 1 \in 0..n
        BY <1>1, <3>3
      <4>2. F[k - 1] = f[k - 1]
        BY <4>1
      <4>3. f[k] = f[k - 1] \o s[k]
        BY <2>1, <3>3 DEF IsFlattening
      <4> QED BY <3>1, <4>2, <4>3
    <3> QED BY <3>2, <3>3
  <2>4. \A k \in 0..n : F[k] \in Seq(S)
    <3>1. F[0] \in Seq(S)
      BY <2>2, EmptySeq
    <3>2. \A k \in 1..n : F[k - 1] \in Seq(S) => F[k] \in Seq(S)
      BY <1>1, <2>3, ConcatProperties
    <3> HIDE DEF F, n
    <3> QED BY <1>1, <3>1, <3>2, Steps
  <2>5. ASSUME NEW k \in 1..n, NEW i \in 1..Len(s[k])
        PROVE  \E j \in 1..Len(FlattenSeq(s)) : FlattenSeq(s)[j] = s[k][i]
    <3> DEFINE e == s[k][i]
               T == {m \in 0..n : m >= k => \E j \in 1..Len(F[m]) : F[m][j] = e}
    <3>1. 0 \in T
      BY <1>1
    <3>2. ASSUME NEW m \in 1..n, m - 1 \in T PROVE m \in T
      <4>1. F[m - 1] \in Seq(S) /\ s[m] \in Seq(S) /\ F[m] = F[m - 1] \o s[m] /\ m - 1 \in 0..n
        BY <1>1, <2>3, <2>4, NumbersUpTo
      <4> HIDE DEF F
      <4> DEFINE a == F[m - 1]  b == s[m]  c == F[m]
      <4>6. a \in Seq(S) /\ b \in Seq(S) /\ c = a \o b
        BY <4>1
      <4> HIDE DEF a, b, c
      <4>2. /\ \A j \in 1..Len(a) : j \in 1..Len(c) /\ c[j] = a[j]
            /\ \A j \in 1..Len(b) : Len(a) + j \in 1..Len(c) /\ c[Len(a) + j] = b[j]
        BY <4>6, PutTogether
      <4>5. m \in 0..n
        BY NumbersUpTo, <1>1
      <4>3. CASE m = k
        <5>1. i \in 1..Len(b) /\ b[i] = e
          BY <4>3 DEF b
        <5>2. \E j \in 1..Len(c) : c[j] = e
          BY <4>2, <5>1
        <5> QED BY <4>5, <5>2 DEF c
      <4>4. CASE m > k
        <5>1. m - 1 >= k
          BY <4>4
        <5>2. \E j \in 1..Len(a) : a[j] = e
          BY <3>2, <5>1 DEF a
        <5>3. \E j \in 1..Len(c) : c[j] = e
          BY <4>2, <5>2
        <5> QED BY <4>5, <5>3 DEF c
      <4>7. CASE m < k
        BY <4>5, <4>7
      <4> QED BY <4>3, <4>4, <4>5, <4>7
    <3> HIDE DEF T
    <3>3. \A m \in 0..n : m \in T
      BY <1>1, <3>1, <3>2, Induction
    <3>4. n \in T /\ n >= k
      BY <1>1, <2>2, <3>3
    <3>5. \E j \in 1..Len(F[n]) : F[n][j] = e
      <4> HIDE DEF F
      <4> QED BY <3>4 DEF T
    <3> HIDE DEF F
    <3> QED BY <2>2, <3>5
  <2>6. FlattenSeq(s) \in Seq(S)
    <3> HIDE DEF F
    <3> QED BY <2>2, <2>4
  <2> QED BY <2>5, <2>6
<1> QED BY <1>2, <1>3

-----------------------------------------------------------------------------
(* A stamp adds to what is there                                            *)

Paths == Seq(Nat \X Nat)
TxRows == [places : Seq(PlaceRows), racks : Seq(RackRows), devices : Seq(DeviceRows), cables : SUBSET [a : Ends, b : Ends],
           under : UNION {[S -> Nat] : S \in SUBSET Paths},
           registry : SUBSET [key : Nat \X Nat \X Nat, devices : Seq(Nat)], failed : BOOLEAN]
\* The places and devices that a transaction has noted are of its own tables.
NotedPlaces(y) == \A q \in DOMAIN y.under : y.under[q] \in 1..Len(y.places)
NotedDevices(y) == \A e \in y.registry : \A k \in 1..Len(e.devices) : e.devices[k] \in 1..Len(y.devices)
NotedOnce(y) == \A d, e \in y.registry : d.key = e.key => d = e
Txs == {y \in TxRows : IsFiniteSet(y.registry) /\ NotedOnce(y) /\ NotedPlaces(y) /\ NotedDevices(y)}

Longer(s, t) == Len(s) <= Len(t) /\ \A i \in 1..Len(s) : t[i] = s[i]
Extends(x, y) == Longer(x.places, y.places) /\ Longer(x.racks, y.racks) /\ Longer(x.devices, y.devices)
After(x) == {y \in Txs : Extends(x, y)}

\* Tables that only grow, grow through several steps.
LEMMA LongerAgain ==
  ASSUME NEW A, NEW B, NEW C, NEW s \in Seq(A), NEW t \in Seq(B), NEW u \in Seq(C), Longer(s, t), Longer(t, u)
  PROVE  Longer(s, u)
<1>1. Len(s) \in Nat /\ Len(t) \in Nat /\ Len(u) \in Nat
  BY LenProperties
<1>2. \A i \in 1..Len(s) : i \in 1..Len(t)
  BY <1>1 DEF Longer
<1> QED BY <1>1, <1>2 DEF Longer

\* A table is as long as itself.
LEMMA LongerSelf == ASSUME NEW A, NEW s \in Seq(A) PROVE Longer(s, s)
<1>1. Len(s) \in Nat
  BY LenProperties
<1> QED BY <1>1 DEF Longer

\* A row more makes a table longer.
LEMMA LongerByOne == ASSUME NEW A, NEW s \in Seq(A), NEW e \in A PROVE Longer(s, Append(s, e))
<1>1. Len(s) \in Nat
  BY LenProperties
<1>2. Len(Append(s, e)) = Len(s) + 1 /\ \A i \in 1..Len(s) : Append(s, e)[i] = s[i]
  BY Appended
<1> QED BY <1>1, <1>2 DEF Longer

\* A transaction that does nothing
LEMMA AfterItself == \A x \in Txs : x \in After(x)
BY LongerSelf DEF After, Extends, Txs, TxRows

\* Two steps of a transaction, one after the other
LEMMA AfterAgain ==
  ASSUME NEW x \in Txs, NEW y \in After(x), NEW z \in After(y)
  PROVE  z \in After(x)
<1>1. x \in TxRows /\ y \in TxRows /\ z \in TxRows /\ z \in Txs
  BY DEF After, Txs
<1>2. x.places \in Seq(PlaceRows) /\ y.places \in Seq(PlaceRows) /\ z.places \in Seq(PlaceRows)
  BY <1>1 DEF TxRows
<1>3. x.racks \in Seq(RackRows) /\ y.racks \in Seq(RackRows) /\ z.racks \in Seq(RackRows)
  BY <1>1 DEF TxRows
<1>4. x.devices \in Seq(DeviceRows) /\ y.devices \in Seq(DeviceRows) /\ z.devices \in Seq(DeviceRows)
  BY <1>1 DEF TxRows
<1>5. Extends(x, y) /\ Extends(y, z)
  BY DEF After
<1>6. Longer(x.places, z.places)
  BY <1>2, <1>5, LongerAgain DEF Extends
<1>7. Longer(x.racks, z.racks)
  BY <1>3, <1>5, LongerAgain DEF Extends
<1>8. Longer(x.devices, z.devices)
  BY <1>4, <1>5, LongerAgain DEF Extends
<1> QED BY <1>1, <1>6, <1>7, <1>8 DEF After, Extends

\* A transaction is left alone, but for what no property of it is about.
LEMMA AfterFailure ==
  ASSUME NEW x \in Txs
  PROVE  Fail(x) \in After(x)
<1>1. x \in TxRows /\ x \in After(x)
  BY AfterItself DEF Txs
<1>2. Fail(x) = [x EXCEPT !.failed = TRUE]
  BY DEF Fail
<1>3. Fail(x) \in TxRows
  BY <1>1, <1>2 DEF TxRows
<1>4. /\ Fail(x).places = x.places /\ Fail(x).racks = x.racks /\ Fail(x).devices = x.devices
      /\ Fail(x).under = x.under /\ Fail(x).registry = x.registry
  BY <1>1, <1>2 DEF TxRows
<1>5. Fail(x) \in Txs
  BY <1>3, <1>4 DEF Txs, NotedOnce, NotedPlaces, NotedDevices
<1>6. Extends(x, x)
  BY <1>1 DEF After
<1> QED BY <1>4, <1>5, <1>6 DEF After, Extends

-----------------------------------------------------------------------------
(* Names and child interfaces                                               *)

\* A pattern makes a name.
LEMMA RenderIsName ==
  ASSUME NEW pattern, pattern.tag \in Int, NEW index \in Nat, NEW parent \in Names, NEW plane \in Nat
  PROVE  Render(pattern, index, parent, plane) \in Names
<1>1. Letters \in Nat
  BY BoundsAssumption
<1> DEFINE Token(t, v) == IF t \in pattern.tokens THEN v ELSE 0
           a == <<pattern.tag, Token("index", index), Token("letter", IF index < Letters THEN index ELSE Letters), Token("plane", plane)>>
           b == IF "parent" \in pattern.tokens THEN parent ELSE <<>>
<1>2. a \in Seq(Int)
  <2>1. Token("index", index) \in Int /\ Token("plane", plane) \in Int
    OBVIOUS
  <2>2. (IF index < Letters THEN index ELSE Letters) \in Int
    BY <1>1
  <2>3. Token("letter", IF index < Letters THEN index ELSE Letters) \in Int
    BY <2>2
  <2> HIDE DEF Token
  <2> QED BY <2>1, <2>3
<1>3. b \in Seq(Int)
  BY EmptySeq DEF Names
<1>4. Render(pattern, index, parent, plane) = a \o b
  BY DEF Render
<1> HIDE DEF a, b
<1> QED BY <1>2, <1>3, <1>4, ConcatProperties DEF Names

\* One child after the other, unless its name is taken.
Added(y, child, known) == IF child.name \in known \cup NamesOf(y) THEN y ELSE Append(y, child)
IsMade(f, children, known) == f[0] = <<>> /\ \A k \in 1..Len(children) : f[k] = Added(f[k - 1], children[k], known)

\* What is made for a list of names is a recursion over it.
LEMMA MadeUnfolds ==
  ASSUME NEW C, NEW children \in Seq(C), NEW known
  PROVE  \E f : IsMade(f, children, known) /\ Unnamed(children, known) = f[Len(children)]
<1> DEFINE n == Len(children)
           X == Seq(C)
           h == [k \in 1..n |-> [y \in X |-> Added(y, children[k], known)]]
           Body(f) == [k \in 0..n |-> IF k = 0 THEN <<>> ELSE Added(f[k - 1], children[k], known)]
<1>1. n \in Nat /\ \A k \in 1..n : children[k] \in C
  BY Sequence
<1>2. h \in [1..n -> [X -> X]]
  <2>1. \A k \in 1..n, y \in X : Added(y, children[k], known) \in X
    BY <1>1, Appended DEF Added
  <2> HIDE DEF X, n
  <2> QED BY <2>1
<1>3. PICK f : Unfolds(f, n, X, <<>>, h)
  <2>1. <<>> \in X
    BY EmptySeq
  <2> HIDE DEF h, X, n
  <2> QED BY <1>1, <1>2, <2>1, Recursion
<1>4. f \in [0..n -> X] /\ f[0] = <<>> /\ \A k \in 1..n : f[k] = Added(f[k - 1], children[k], known)
  <2>1. \A k \in 1..n : k - 1 \in 0..n
    BY <1>1, NumbersUpTo
  <2>2. \A k \in 1..n, y \in X : h[k][y] = Added(y, children[k], known)
    OBVIOUS
  <2> HIDE DEF h, X, n
  <2> QED BY <1>3, <2>1, <2>2 DEF Unfolds
<1>5. f = Body(f)
  <2>1. \A k \in 0..n : k = 0 \/ k \in 1..n
    BY <1>1
  <2>2. f = [k \in 0..n |-> f[k]]
    BY <1>4
  <2> HIDE DEF h, X, n
  <2> QED BY <1>4, <2>1, <2>2
<1> DEFINE c == CHOOSE d : d = Body(d)
<1>6. c = Body(c)
  <2> HIDE DEF Body
  <2> QED BY <1>5
<1>7. Unnamed(children, known) = c[n]
  BY DEF Unnamed, Added
<1>8. IsMade(c, children, known)
  <2>1. \A k \in 1..n : k \in 0..n /\ k # 0
    BY <1>1
  <2>2. 0 \in 0..n
    BY <1>1
  <2> HIDE DEF c
  <2> QED BY <1>6, <2>1, <2>2 DEF IsMade
<1> QED BY <1>7, <1>8

\* What is made are some of the children, and all of a name that was not known.
LEMMA UnnamedAreMade ==
  ASSUME NEW C, NEW children \in Seq(C), NEW known
  PROVE  /\ Unnamed(children, known) \in Seq(C)
         /\ \A i \in 1..Len(children) : children[i].name \in known \cup NamesOf(Unnamed(children, known))
<1> DEFINE n == Len(children)
<1>1. n \in Nat /\ \A k \in 1..n : children[k] \in C
  BY Sequence
<1>2. PICK f : IsMade(f, children, known) /\ Unnamed(children, known) = f[n]
  BY MadeUnfolds
<1>3. \A k \in 0..n : f[k] \in Seq(C)
  <2>1. f[0] \in Seq(C)
    BY <1>2, EmptySeq DEF IsMade
  <2>2. ASSUME NEW k \in 1..n, f[k - 1] \in Seq(C) PROVE f[k] \in Seq(C)
    <3>1. f[k] = f[k - 1] \/ f[k] = Append(f[k - 1], children[k])
      BY <1>2 DEF IsMade, Added
    <3>2. Append(f[k - 1], children[k]) \in Seq(C)
      BY <1>1, <2>2, Appended
    <3> QED BY <2>2, <3>1, <3>2
  <2> HIDE DEF n
  <2> QED BY <1>1, <2>1, <2>2, Steps
<1>4. ASSUME NEW k \in 1..n
      PROVE  NamesOf(f[k - 1]) \subseteq NamesOf(f[k]) /\ children[k].name \in known \cup NamesOf(f[k])
  <2>1. f[k - 1] \in Seq(C) /\ f[k] = Added(f[k - 1], children[k], known)
    BY <1>1, <1>2, <1>3, NumbersUpTo DEF IsMade
  <2>2. CASE children[k].name \in known \cup NamesOf(f[k - 1])
    BY <2>1, <2>2 DEF Added
  <2>3. CASE children[k].name \notin known \cup NamesOf(f[k - 1])
    <3> DEFINE s == f[k - 1]  e == children[k]  t == f[k]
    <3>1. t = Append(s, e) /\ s \in Seq(C) /\ e \in C
      BY <1>1, <2>1, <2>3 DEF Added
    <3> HIDE DEF s, e, t
    <3>2. /\ DOMAIN s = 1..Len(s) /\ Len(s) \in Nat /\ DOMAIN t = 1..Len(t) /\ Len(t) = Len(s) + 1
          /\ \A i \in 1..Len(s) : t[i] = s[i]
          /\ t[Len(s) + 1] = e
      BY <3>1, Appended, Sequence
    <3>3. \A i \in DOMAIN s : i \in DOMAIN t /\ t[i] = s[i]
      BY <3>2
    <3>4. Len(s) + 1 \in DOMAIN t
      BY <3>2
    <3>5. NamesOf(s) \subseteq NamesOf(t)
      BY <3>3 DEF NamesOf
    <3>6. e.name \in NamesOf(t)
      BY <3>2, <3>4 DEF NamesOf
    <3> QED BY <3>5, <3>6 DEF s, e, t
  <2> QED BY <2>2, <2>3
<1>5. ASSUME NEW i \in 1..n
      PROVE  children[i].name \in known \cup NamesOf(f[n])
  <2> DEFINE T == {k \in 0..n : k >= i => children[i].name \in known \cup NamesOf(f[k])}
  <2>1. 0 \in T
    BY <1>1
  <2>2. ASSUME NEW k \in 1..n, k - 1 \in T PROVE k \in T
    <3>1. CASE k = i
      BY <1>1, <1>4, <3>1, NumbersUpTo
    <3>2. CASE k # i
      <4>1. k >= i => k - 1 >= i
        BY <1>1, <3>2
      <4>2. NamesOf(f[k - 1]) \subseteq NamesOf(f[k]) /\ k \in 0..n
        BY <1>1, <1>4, NumbersUpTo
      <4>3. k >= i => children[i].name \in known \cup NamesOf(f[k - 1])
        BY <2>2, <4>1
      <4> QED BY <4>2, <4>3
    <3> QED BY <3>1, <3>2
  <2> HIDE DEF T, n
  <2>3. \A k \in 0..n : k \in T
    BY <1>1, <2>1, <2>2, Induction
  <2>4. n \in T /\ n >= i
    BY <1>1, <2>3, NumbersUpTo
  <2> QED BY <2>4 DEF T
<1> HIDE DEF n
<1>6. f[n] \in Seq(C)
  BY <1>1, <1>3, NumbersUpTo
<1> QED BY <1>2, <1>5, <1>6 DEF n

ChildPorts == {p \in Ports : IsChild(p)}

Specs == [parent : Names \ {<<>>}, count : Nat, start : Nat, tokens : SUBSET {"parent", "n", "plane"}]

\* The specs of a breakout have the fields they are read by.
LEMMA SpecsAreRows ==
  ASSUME NEW specs, IsBreakout(specs)
  PROVE  /\ specs \in Seq(Specs) /\ Len(specs) \in Nat /\ DOMAIN specs = 1..Len(specs)
         /\ \A k \in DOMAIN specs : specs[k] \in Specs
<1>1. specs \in Seq(Specs)
  BY DEF IsBreakout, Specs
<1> HIDE DEF Specs
<1> QED BY <1>1, Sequence

\* A child is an interface, and one that is marked as a child.
LEMMA ChildIsPort ==
  ASSUME NEW specs, IsBreakout(specs), NEW k \in DOMAIN specs, NEW c \in Nat
  PROVE  Child(specs[k], c) \in ChildPorts /\ Child(specs[k], c).name = ChildName(specs[k], c)
<1>1. specs[k] \in Specs
  BY SpecsAreRows
<1> DEFINE spec == specs[k]
           Token(t, v) == IF t \in spec.tokens THEN v ELSE 0
<1>2. spec.parent \in Seq(Int) /\ spec.parent # <<>> /\ spec.start \in Nat
  BY <1>1 DEF Names, Specs
<1>3. spec.parent[1] \in Int
  BY <1>2, EmptySeq, Sequence
<1>4. ChildName(spec, c) = <<Token("parent", spec.parent[1]), Token("n", c + 1), Token("plane", spec.start + c)>>
  BY DEF ChildName
<1>5. Token("parent", spec.parent[1]) \in Int /\ Token("n", c + 1) \in Int /\ Token("plane", spec.start + c) \in Int
  BY <1>2, <1>3
<1> HIDE DEF Token, spec
<1>6. ChildName(spec, c) \in Names
  BY <1>4, <1>5 DEF Names
<1>7. Child(spec, c) = [name |-> ChildName(spec, c), parent |-> spec.parent, plane |-> spec.start + c]
  BY DEF Child
<1>8. Child(spec, c) \in Ports /\ IsChild(Child(spec, c)) /\ Child(spec, c).name = ChildName(spec, c)
  BY <1>2, <1>6, <1>7 DEF Ports, Names, IsChild
<1> QED BY <1>8 DEF ChildPorts, spec

\* All the children of specs whose parents are there.
LEMMA SpecifiedAreChildren ==
  ASSUME NEW specs, IsBreakout(specs), NEW ports
  PROVE  /\ Specified(specs, ports) \in Seq(ChildPorts)
         /\ \A k \in DOMAIN specs : specs[k].parent \in NamesOf(ports) =>
              \A c \in 0..(specs[k].count - 1) :
                \E j \in 1..Len(Specified(specs, ports)) : Specified(specs, ports)[j].name = ChildName(specs[k], c)
<1> DEFINE Of(k) == IF specs[k].parent \in NamesOf(ports) THEN [c \in 1..specs[k].count |-> Child(specs[k], c - 1)] ELSE <<>>
           s == [k \in DOMAIN specs |-> Of(k)]
           n == Len(specs)
<1>1. n \in Nat /\ DOMAIN specs = 1..n /\ \A k \in 1..n : specs[k].count \in Nat
  <2>1. n \in Nat /\ DOMAIN specs = 1..n /\ \A k \in 1..n : specs[k] \in Specs
    BY SpecsAreRows
  <2> QED BY <2>1 DEF Specs
<1>2. ASSUME NEW k \in 1..n
      PROVE  /\ Of(k) \in Seq(ChildPorts)
             /\ specs[k].parent \in NamesOf(ports) => \A c \in 0..(specs[k].count - 1) :
                    c + 1 \in 1..Len(Of(k)) /\ Of(k)[c + 1] = Child(specs[k], c)
  <2>1. CASE specs[k].parent \notin NamesOf(ports)
    <3>1. Of(k) = <<>>
      BY <2>1
    <3> HIDE DEF Of
    <3> QED BY <2>1, <3>1, EmptySeq
  <2>2. CASE specs[k].parent \in NamesOf(ports)
    <3> DEFINE m == specs[k].count
    <3>1. Of(k) = [c \in 1..m |-> Child(specs[k], c - 1)]
      BY <2>2
    <3>2. m \in Nat /\ \A c \in 1..m : c - 1 \in Nat
      BY <1>1
    <3>3. \A c \in 1..m : Child(specs[k], c - 1) \in ChildPorts
      BY <1>1, <3>2, ChildIsPort
    <3> HIDE DEF Of, m
    <3>4. Of(k) \in [1..m -> ChildPorts]
      BY <3>1, <3>3
    <3>5. Of(k) \in Seq(ChildPorts) /\ Len(Of(k)) = m
      BY <3>2, <3>4, IsSequence
    <3>6. \A c \in 0..(m - 1) : c + 1 \in 1..m /\ (c + 1) - 1 = c
      BY <3>2
    <3>7. \A c \in 0..(m - 1) : c + 1 \in 1..Len(Of(k)) /\ Of(k)[c + 1] = Child(specs[k], c)
      BY <3>1, <3>5, <3>6
    <3> QED BY <3>5, <3>7 DEF m
  <2> QED BY <2>1, <2>2
<1>3. s \in Seq(Seq(ChildPorts)) /\ Len(s) = n
  <2>1. s \in [1..n -> Seq(ChildPorts)]
    BY <1>1, <1>2
  <2> HIDE DEF s, n
  <2> QED BY <1>1, <2>1, IsSequence
<1>4. Specified(specs, ports) = FlattenSeq(s)
  BY DEF Specified
<1>5. \A k \in 1..n : s[k] = Of(k)
  BY <1>1
<1> HIDE DEF s, Of, n
<1>6. /\ FlattenSeq(s) \in Seq(ChildPorts)
      /\ \A k \in 1..Len(s) : \A i \in 1..Len(s[k]) : \E j \in 1..Len(FlattenSeq(s)) : FlattenSeq(s)[j] = s[k][i]
  BY <1>3, Flattened
<1>7. ASSUME NEW k \in 1..n, specs[k].parent \in NamesOf(ports), NEW c \in 0..(specs[k].count - 1)
      PROVE  \E j \in 1..Len(FlattenSeq(s)) : FlattenSeq(s)[j].name = ChildName(specs[k], c)
  <2>1. c + 1 \in 1..Len(s[k]) /\ s[k][c + 1] = Child(specs[k], c)
    BY <1>2, <1>5, <1>7
  <2>2. \E j \in 1..Len(FlattenSeq(s)) : FlattenSeq(s)[j] = s[k][c + 1]
    BY <1>3, <1>6, <2>1
  <2>3. c \in Nat
    BY <1>1
  <2>4. Child(specs[k], c).name = ChildName(specs[k], c)
    BY <1>1, <2>3, ChildIsPort
  <2> QED BY <2>1, <2>2, <2>4
<1> QED BY <1>1, <1>4, <1>6, <1>7

\* What a device lacks, and it lacks nothing else.
LEMMA MissingAreMade ==
  ASSUME NEW specs, IsBreakout(specs), NEW ports
  PROVE  /\ MissingChildren(specs, ports) \in Seq(ChildPorts)
         /\ \A k \in DOMAIN specs : specs[k].parent \in NamesOf(ports) =>
              \A c \in 0..(specs[k].count - 1) :
                \/ HasChild(ports, ChildName(specs[k], c))
                \/ \E i \in DOMAIN MissingChildren(specs, ports) : MissingChildren(specs, ports)[i].name = ChildName(specs[k], c)
<1> DEFINE s == Specified(specs, ports)
           known == {p.name : p \in {q \in Range(ports) : IsChild(q)}}
           M == Unnamed(s, known)
<1>1. s \in Seq(ChildPorts)
  BY SpecifiedAreChildren
<1>2. M = MissingChildren(specs, ports)
  BY DEF MissingChildren
<1> HIDE DEF s, known
<1>3. M \in Seq(ChildPorts) /\ \A i \in 1..Len(s) : s[i].name \in known \cup NamesOf(M)
  BY <1>1, UnnamedAreMade
<1>4. ASSUME NEW k \in DOMAIN specs, specs[k].parent \in NamesOf(ports), NEW c \in 0..(specs[k].count - 1)
      PROVE  HasChild(ports, ChildName(specs[k], c)) \/ \E i \in DOMAIN M : M[i].name = ChildName(specs[k], c)
  <2>1. PICK j \in 1..Len(s) : s[j].name = ChildName(specs[k], c)
    BY <1>4, SpecifiedAreChildren DEF s
  <2>2. ChildName(specs[k], c) \in known \cup NamesOf(M)
    BY <1>3, <2>1
  <2> HIDE DEF M
  <2>3. ASSUME ChildName(specs[k], c) \in known PROVE HasChild(ports, ChildName(specs[k], c))
    BY <2>3 DEF known, HasChild, Range
  <2>4. ASSUME ChildName(specs[k], c) \in NamesOf(M) PROVE \E i \in DOMAIN M : M[i].name = ChildName(specs[k], c)
    BY <2>4 DEF NamesOf
  <2> QED BY <2>2, <2>3, <2>4
<1> HIDE DEF M
<1> QED BY <1>2, <1>3, <1>4

-----------------------------------------------------------------------------
(* Rows that a stamp adds                                                   *)

\* A rack more, or a failure when its name is taken
LEMMA AddRackKeeps ==
  ASSUME NEW y \in Txs, NEW name \in Names, NEW place \in Nat, NEW at \in Int, NEW origin \in Seq(Int)
  PROVE  /\ AddRack(y, name, place, at, origin) \in After(y)
         /\ AddRack(y, name, place, at, origin).failed \/ Len(AddRack(y, name, place, at, origin).racks) \in 1..Len(AddRack(y, name, place, at, origin).racks)
<1> DEFINE row == [name |-> name, place |-> place, placed |-> TRUE, at |-> at, unit |-> "meters", frame |-> place, origin |-> origin]
           z == [y EXCEPT !.racks = Append(@, row)]
           r == AddRack(y, name, place, at, origin)
<1>1. y \in TxRows /\ y.racks \in Seq(RackRows) /\ y.failed \in BOOLEAN
  BY DEF Txs, TxRows
<1>2. row \in RackRows
  BY DEF RackRows, Units, Names
<1> HIDE DEF row
<1>3. /\ Append(y.racks, row) \in Seq(RackRows) /\ Longer(y.racks, Append(y.racks, row))
      /\ Len(Append(y.racks, row)) = Len(y.racks) + 1 /\ Len(y.racks) \in Nat
  BY <1>1, <1>2, Appended, LongerByOne, LenProperties
<1>4. z \in TxRows
  BY <1>1, <1>3 DEF TxRows
<1>5. /\ z.racks = Append(y.racks, row) /\ z.places = y.places /\ z.devices = y.devices
      /\ z.under = y.under /\ z.registry = y.registry
  BY <1>1 DEF TxRows
<1>6. z \in Txs
  BY <1>4, <1>5 DEF Txs, NotedOnce, NotedPlaces, NotedDevices
<1>7. Extends(y, y)
  BY AfterItself DEF After
<1>8. z \in After(y)
  BY <1>3, <1>5, <1>6, <1>7 DEF After, Extends
<1>9. r = z \/ r = Fail(y)
  BY DEF AddRack, row
<1>10. CASE r = z
  BY <1>3, <1>5, <1>8, <1>10
<1>11. CASE r = Fail(y)
  <2>1. Fail(y).failed = TRUE
    BY <1>1 DEF Fail, TxRows
  <2> QED BY <1>11, <2>1, AfterFailure
<1> QED BY <1>9, <1>10, <1>11

\* A device more, or the same tables when its name is taken
LEMMA AddDeviceKeeps ==
  ASSUME NEW y \in Txs, NEW slot, IsSlot(slot), NEW index \in Nat, NEW rack \in 1..Len(y.racks), NEW plane \in Nat
  PROVE  AddDevice(y, slot, index, rack, plane) \in After(y)
<1> DEFINE children == MissingChildren(slot.specs, slot.ports)
           ports == slot.ports \o children
           name == Render(slot.pattern, index, y.racks[rack].name, plane)
           device == [name |-> name, rack |-> rack, u |-> slot.u, face |-> slot.face, ports |-> ports]
           z == [y EXCEPT !.devices = Append(@, device)]
           r == AddDevice(y, slot, index, rack, plane)
<1>1. /\ y \in TxRows /\ y.racks \in Seq(RackRows) /\ y.devices \in Seq(DeviceRows)
      /\ Len(y.racks) \in Nat /\ Len(y.devices) \in Nat
  BY LenProperties DEF Txs, TxRows
<1>2. slot.pattern.tag \in Int /\ slot.u \in Int /\ slot.face \in {"front", "rear"} /\ slot.ports \in Seq(Ports) /\ IsBreakout(slot.specs)
  BY DEF IsSlot
<1>3. name \in Names
  <2>1. y.racks[rack] \in RackRows
    BY <1>1, Sequence
  <2>2. y.racks[rack].name \in Names
    BY <2>1 DEF RackRows
  <2> QED BY <1>2, <2>2, RenderIsName
<1>4. ports \in Seq(Ports)
  <2>1. children \in Seq(ChildPorts)
    BY <1>2, MissingAreMade
  <2> HIDE DEF children
  <2>2. Len(children) \in Nat /\ \A i \in 1..Len(children) : children[i] \in ChildPorts
    BY <2>1, Sequence
  <2>3. children = [i \in 1..Len(children) |-> children[i]]
    BY <2>1
  <2>4. \A i \in 1..Len(children) : children[i] \in Ports
    BY <2>2 DEF ChildPorts
  <2>5. children \in Seq(Ports)
    BY <2>2, <2>3, <2>4, IsSequence
  <2> QED BY <1>2, <2>5, ConcatProperties
<1>5. device \in DeviceRows
  <2>1. rack \in Nat
    BY <1>1
  <2> HIDE DEF name, ports
  <2> QED BY <1>2, <1>3, <1>4, <2>1 DEF DeviceRows
<1>6. r = z \/ r = Fail(y)
  BY DEF AddDevice
<1> HIDE DEF device, r
<1>7. Append(y.devices, device) \in Seq(DeviceRows) /\ Longer(y.devices, Append(y.devices, device))
      /\ Len(Append(y.devices, device)) = Len(y.devices) + 1
  BY <1>1, <1>5, Appended, LongerByOne
<1>8. z \in TxRows
  BY <1>1, <1>7 DEF TxRows
<1>9. /\ z.devices = Append(y.devices, device) /\ z.places = y.places /\ z.racks = y.racks
      /\ z.under = y.under /\ z.registry = y.registry
  BY <1>1 DEF TxRows
<1>10. NotedDevices(z)
  <2>1. \A i \in 1..Len(y.devices) : i \in 1..Len(z.devices)
    BY <1>1, <1>7, <1>9
  <2>2. NotedDevices(y)
    BY DEF Txs
  <2> QED BY <1>9, <2>1, <2>2 DEF NotedDevices
<1>11. z \in Txs
  BY <1>8, <1>9, <1>10 DEF Txs, NotedOnce, NotedPlaces
<1>12. Extends(y, y)
  BY AfterItself DEF After
<1>13. z \in After(y)
  BY <1>7, <1>9, <1>11, <1>12 DEF After, Extends
<1> QED BY <1>6, <1>13, AfterFailure DEF r

\* A rack instance is noted with devices of the transaction.
LEMMA RegisterKeeps ==
  ASSUME NEW y \in Txs, NEW key \in Nat \X Nat \X Nat, NEW ids \in Seq(Nat), \A k \in 1..Len(ids) : ids[k] \in 1..Len(y.devices)
  PROVE  Register(y, key, ids) \in After(y)
<1> DEFINE row == [key |-> key, devices |-> ids]
           rest == {e \in y.registry : e.key # key}
           z == [y EXCEPT !.registry = {e \in @ : e.key # key} \cup {[key |-> key, devices |-> ids]}]
           Rows == [key : Nat \X Nat \X Nat, devices : Seq(Nat)]
<1>1. y \in TxRows /\ y.registry \in SUBSET Rows /\ IsFiniteSet(y.registry) /\ NotedOnce(y) /\ NotedDevices(y)
  BY DEF Txs, TxRows
<1>2. row \in Rows
  OBVIOUS
<1> HIDE DEF row, Rows
<1>3. rest \cup {row} \in SUBSET Rows
  BY <1>1, <1>2
<1>4. Register(y, key, ids) = z /\ z = [y EXCEPT !.registry = rest \cup {row}]
  BY DEF Register, row
<1>5. IsFiniteSet(rest \cup {row})
  <2>1. rest \in SUBSET y.registry
    OBVIOUS
  <2> HIDE DEF rest
  <2> QED BY <1>1, <2>1, FS_Subset, FS_AddElement
<1> HIDE DEF rest, z
<1>6. z \in TxRows
  BY <1>1, <1>3, <1>4 DEF TxRows, Rows
<1>7. /\ z.registry = rest \cup {row} /\ z.places = y.places /\ z.racks = y.racks /\ z.devices = y.devices
      /\ z.under = y.under
  BY <1>1, <1>4 DEF TxRows
<1>8. NotedOnce(z)
  <2>1. \A e \in rest : e \in y.registry /\ e.key # row.key
    BY DEF rest, row
  <2> QED BY <1>1, <1>7, <2>1 DEF NotedOnce
<1>9. NotedDevices(z)
  <2>1. \A e \in rest : e \in y.registry
    BY DEF rest
  <2>2. row.devices = ids
    BY DEF row
  <2> QED BY <1>1, <1>7, <2>1, <2>2 DEF NotedDevices
<1>10. z \in Txs
  BY <1>5, <1>6, <1>7, <1>8, <1>9 DEF Txs, NotedPlaces
<1>11. Extends(y, y)
  BY AfterItself DEF After
<1> QED BY <1>4, <1>7, <1>10, <1>11 DEF After, Extends

\* A location more, or the one that is there
LEMMA AddLocationKeeps ==
  ASSUME NEW y \in Txs, NEW name \in Names, NEW place \in Nat, NEW path \in Paths
  PROVE  AddLocation(y, name, place, path) \in After(y)
<1> DEFINE row == [name |-> name, parent |-> place]
           new == Len(y.places) + 1
           under == [q \in DOMAIN y.under \cup {path} |-> IF q = path THEN new ELSE y.under[q]]
           z == [y EXCEPT !.places = Append(@, row), !.under = [q \in DOMAIN @ \cup {path} |-> IF q = path THEN new ELSE @[q]]]
           r == AddLocation(y, name, place, path)
<1>1. /\ y \in TxRows /\ y.places \in Seq(PlaceRows) /\ Len(y.places) \in Nat
      /\ y.under \in UNION {[S -> Nat] : S \in SUBSET Paths} /\ NotedPlaces(y)
  BY LenProperties DEF Txs, TxRows
<1>2. row \in PlaceRows
  BY DEF PlaceRows
<1>3. r = z \/ r = Fail(y)
  BY DEF AddLocation
<1>4. z = [y EXCEPT !.places = Append(y.places, row), !.under = under]
  OBVIOUS
<1> HIDE DEF row, r, z
<1>5. /\ Append(y.places, row) \in Seq(PlaceRows) /\ Longer(y.places, Append(y.places, row))
      /\ Len(Append(y.places, row)) = Len(y.places) + 1
  BY <1>1, <1>2, Appended, LongerByOne
<1>6. under \in UNION {[S -> Nat] : S \in SUBSET Paths} /\ \A q \in DOMAIN under : under[q] \in 1..new
  <2>1. PICK S \in SUBSET Paths : y.under \in [S -> Nat]
    BY <1>1
  <2>2. DOMAIN y.under = S
    BY <2>1
  <2>3. \A q \in S : y.under[q] \in 1..Len(y.places)
    BY <1>1, <2>2 DEF NotedPlaces
  <2>4. \A q \in S \cup {path} : under[q] \in Nat /\ under[q] \in 1..new
    BY <1>1, <2>2, <2>3
  <2>5. under \in [S \cup {path} -> Nat] /\ S \cup {path} \in SUBSET Paths
    BY <2>2, <2>4
  <2>6. DOMAIN under = S \cup {path}
    BY <2>2
  <2> HIDE DEF under
  <2>7. \E R \in SUBSET Paths : under \in [R -> Nat]
    BY <2>5
  <2> QED BY <2>4, <2>6, <2>7
<1> HIDE DEF under
<1>7. z \in TxRows
  BY <1>1, <1>4, <1>5, <1>6 DEF TxRows
<1>8. /\ z.places = Append(y.places, row) /\ z.racks = y.racks /\ z.devices = y.devices
      /\ z.under = under /\ z.registry = y.registry
  BY <1>1, <1>4 DEF TxRows
<1>9. NotedPlaces(z)
  BY <1>5, <1>6, <1>8 DEF NotedPlaces
<1>10. z \in Txs
  BY <1>7, <1>8, <1>9 DEF Txs, NotedOnce, NotedDevices
<1>11. Extends(y, y)
  BY AfterItself DEF After
<1>12. z \in After(y)
  BY <1>5, <1>8, <1>10, <1>11 DEF After, Extends
<1> QED BY <1>3, <1>12, AfterFailure DEF r

IsStrictOrder(B, S) ==
  /\ \A x \in S : <<x, x>> \notin B
  /\ \A x, y \in S : x # y => <<x, y>> \in B \/ <<y, x>> \in B
  /\ \A x, y, z \in S : <<x, y>> \in B /\ <<y, z>> \in B => <<x, z>> \in B

\* Finite sets of numbers are counted out by rank.
LEMMA RankReached ==
  ASSUME NEW S, IsFiniteSet(S), NEW B, IsStrictOrder(B, S),
         NEW k \in Nat, k < Cardinality(S)
  PROVE  \E r \in S : Cardinality({s \in S : <<s, r>> \in B}) = k
<1> DEFINE n == Cardinality(S)
           Below(r) == {s \in S : <<s, r>> \in B}
           f == [r \in S |-> Cardinality(Below(r))]
           T == 0..(n - 1)
<1>1. n \in Nat
  BY FS_CardinalityType
<1> USE DEF IsStrictOrder
<1>2. ASSUME NEW r \in S
      PROVE  IsFiniteSet(Below(r)) /\ Cardinality(Below(r)) \in Nat /\ Cardinality(Below(r)) < n
  <2>1. Below(r) \in SUBSET S /\ Below(r) # S
    OBVIOUS
  <2> HIDE DEF Below
  <2>2. IsFiniteSet(Below(r)) /\ Cardinality(Below(r)) <= n /\ (n = Cardinality(Below(r)) => S = Below(r))
    BY <2>1, FS_Subset
  <2>3. Cardinality(Below(r)) \in Nat
    BY <2>2, FS_CardinalityType
  <2> QED BY <1>1, <2>1, <2>2, <2>3
<1>3. ASSUME NEW r \in S, NEW q \in S, <<r, q>> \in B
      PROVE  f[r] < f[q]
  <2>1. Below(r) \in SUBSET Below(q) /\ Below(r) # Below(q)
    <3>1. r \in Below(q) /\ r \notin Below(r)
      BY <1>3
    <3>2. \A s \in Below(r) : s \in Below(q)
      BY <1>3
    <3> QED BY <3>1, <3>2
  <2>2. IsFiniteSet(Below(q)) /\ Cardinality(Below(q)) \in Nat /\ Cardinality(Below(r)) \in Nat
    BY <1>2
  <2>3. f[r] = Cardinality(Below(r)) /\ f[q] = Cardinality(Below(q))
    OBVIOUS
  <2> HIDE DEF Below, f
  <2>4. Cardinality(Below(r)) <= Cardinality(Below(q)) /\ (Cardinality(Below(q)) = Cardinality(Below(r)) => Below(q) = Below(r))
    BY <2>1, <2>2, FS_Subset
  <2> QED BY <2>1, <2>2, <2>3, <2>4
<1>4. \A r \in S : f[r] \in T
  <2> HIDE DEF Below
  <2> QED BY <1>1, <1>2
<1>5. \A r, q \in S : f[r] = f[q] => r = q
  <2>1. \A r \in S : f[r] \in Int
    BY <1>1, <1>4
  <2> SUFFICES ASSUME NEW r \in S, NEW q \in S, r # q PROVE f[r] # f[q]
    OBVIOUS
  <2>2. f[r] < f[q] \/ f[q] < f[r]
    BY <1>3
  <2> HIDE DEF f
  <2> QED BY <2>1, <2>2
<1>6. f \in Injection(S, T)
  <2>1. f \in [S -> T]
    BY <1>4
  <2> HIDE DEF T
  <2>2. \A r, q \in S : f[r] = f[q] => r = q
    BY <1>5
  <2> HIDE DEF f
  <2> QED BY <2>1, <2>2 DEF Injection, IsInjective
<1>7. IsFiniteSet(T) /\ Cardinality(T) = n
  <2> HIDE DEF n
  <2>1. 0 \in Int /\ n - 1 \in Int
    BY <1>1
  <2>2. IsFiniteSet(T) /\ Cardinality(T) = IF 0 > n - 1 THEN 0 ELSE n - 1 - 0 + 1
    BY <2>1, FS_Interval
  <2> QED BY <1>1, <2>2
<1>8. f \in Surjection(S, T)
  <2> HIDE DEF T, f, n
  <2>1. Cardinality(S) = Cardinality(T)
    BY <1>7 DEF n
  <2> QED BY <1>6, <1>7, <2>1, FS_Injection
<1>9. k \in T
  BY <1>1
<1>10. PICK r \in S : f[r] = k
  <2> HIDE DEF f, T
  <2> QED BY <1>8, <1>9 DEF Surjection
<1> QED BY <1>10

\* The devices that a transaction has noted for a node, in order.
LEMMA NotedDevicesOf ==
  ASSUME NEW y \in Txs, NEW n
  PROVE  DevicesOf(y, n) \in Seq(1..Len(y.devices))
<1> DEFINE S == {e \in y.registry : e.key[1] = n}
           B == {p \in S \X S : Sooner(p[1].key, p[2].key)}
           Place(e) == Cardinality({d \in S : Sooner(d.key, e.key)}) + 1
           m == Cardinality(S)
           sorted == [k \in 1..m |-> CHOOSE e \in S : Place(e) = k]
           s == [k \in DOMAIN sorted |-> sorted[k].devices]
           D == 1..Len(y.devices)
<1>1. /\ IsFiniteSet(y.registry) /\ NotedOnce(y) /\ NotedDevices(y)
      /\ y.registry \in SUBSET [key : Nat \X Nat \X Nat, devices : Seq(Nat)]
  BY DEF Txs, TxRows
<1>2. IsFiniteSet(S) /\ m \in Nat
  <2>1. S \in SUBSET y.registry
    OBVIOUS
  <2> HIDE DEF S
  <2> QED BY <1>1, <2>1, FS_Subset, FS_CardinalityType
<1>3. \A e \in S : e.key[1] = n /\ e.key[2] \in Nat /\ e.key[3] \in Nat /\ e.key = <<e.key[1], e.key[2], e.key[3]>>
  BY <1>1
<1>4. \A d, e \in S : d.key[2] = e.key[2] /\ d.key[3] = e.key[3] => d = e
  <2> SUFFICES ASSUME NEW d \in S, NEW e \in S, d.key[2] = e.key[2], d.key[3] = e.key[3] PROVE d = e
    OBVIOUS
  <2>1. d.key = e.key
    BY <1>3
  <2> QED BY <1>1, <2>1 DEF NotedOnce
<1>5. \A x, z \in S : <<x, z>> \in B <=> x.key[2] < z.key[2] \/ (x.key[2] = z.key[2] /\ x.key[3] < z.key[3])
  BY DEF Sooner
<1>6. ASSUME NEW k \in 1..m PROVE \E e \in S : Place(e) = k
  <2>1. \A x \in S : <<x, x>> \notin B
    <3> HIDE DEF S, B
    <3> QED BY <1>3, <1>5
  <2>2. \A x, z \in S : x # z => <<x, z>> \in B \/ <<z, x>> \in B
    <3> SUFFICES ASSUME NEW x \in S, NEW z \in S, x # z PROVE <<x, z>> \in B \/ <<z, x>> \in B
      OBVIOUS
    <3>1. x.key[2] \in Nat /\ x.key[3] \in Nat /\ z.key[2] \in Nat /\ z.key[3] \in Nat
      BY <1>3
    <3>2. x.key[2] # z.key[2] \/ x.key[3] # z.key[3]
      BY <1>4
    <3> HIDE DEF S, B
    <3> QED BY <3>1, <3>2, <1>5
  <2>3. \A x, z, w \in S : <<x, z>> \in B /\ <<z, w>> \in B => <<x, w>> \in B
    <3> HIDE DEF S, B
    <3> QED BY <1>3, <1>5
  <2> DEFINE j == k - 1
  <2>4. j \in Nat /\ j < Cardinality(S)
    BY <1>2
  <2>5. PICK e \in S : Cardinality({d \in S : <<d, e>> \in B}) = j
    <3>1. IsFiniteSet(S)
      BY <1>2
    <3> HIDE DEF S, B, j, m, Place, s, sorted, D
    <3>2. IsStrictOrder(B, S)
      BY <2>1, <2>2, <2>3 DEF IsStrictOrder
    <3> QED BY <2>4, <3>1, <3>2, RankReached
  <2>6. {d \in S : <<d, e>> \in B} = {d \in S : Sooner(d.key, e.key)}
    OBVIOUS
  <2>7. Place(e) = k
    <3> DEFINE c == Cardinality({d \in S : Sooner(d.key, e.key)})
    <3>1. c = k - 1
      BY <2>5, <2>6
    <3>2. Place(e) = c + 1
      OBVIOUS
    <3> HIDE DEF c, Place
    <3> QED BY <1>2, <3>1, <3>2
  <2> HIDE DEF S, Place
  <2> QED BY <2>7
<1>7. \A k \in 1..m : sorted[k] \in S
  <2> HIDE DEF Place, S, m
  <2> QED BY <1>6
<1>8. DOMAIN sorted = 1..m
  OBVIOUS
<1>9. \A e \in S : e.devices \in Seq(D)
  <2> SUFFICES ASSUME NEW e \in S PROVE e.devices \in Seq(D)
    OBVIOUS
  <2>1. e.devices \in Seq(Nat) /\ \A k \in 1..Len(e.devices) : e.devices[k] \in D
    BY <1>1 DEF NotedDevices
  <2> DEFINE ids == e.devices
  <2>2. Len(ids) \in Nat /\ ids = [k \in 1..Len(ids) |-> ids[k]]
    BY <2>1
  <2>3. ids \in [1..Len(ids) -> D]
    BY <2>1, <2>2
  <2> HIDE DEF ids
  <2>4. ids \in Seq(D)
    BY <2>2, <2>3, IsSequence
  <2> QED BY <2>4 DEF ids
<1> HIDE DEF sorted, S, D, m
<1>10. s \in Seq(Seq(D))
  <2>1. s \in [1..m -> Seq(D)]
    BY <1>7, <1>8, <1>9
  <2> HIDE DEF s
  <2> QED BY <1>2, <2>1, IsSequence
<1>11. DevicesOf(y, n) = FlattenSeq(s)
  BY DEF DevicesOf, sorted, S, m
<1> HIDE DEF s
<1>12. FlattenSeq(s) \in Seq(D)
  BY <1>10, Flattened
<1> QED BY <1>11, <1>12 DEF D

\* A connection pairs devices of the transaction.
LEMMA PairsAreDevices ==
  ASSUME NEW y \in Txs, NEW c
  PROVE  Pairs(y, c) \in Seq((1..Len(y.devices)) \X (1..Len(y.devices)))
<1> DEFINE D == 1..Len(y.devices)
           S == DevicesOf(y, c.source)
           T == IF c.dest = c.source THEN <<>> ELSE DevicesOf(y, c.dest)
           P == Pairs(y, c)
<1>1. S \in Seq(D) /\ T \in Seq(D)
  BY NotedDevicesOf, EmptySeq
<1>2. IF S = <<>> \/ T = <<>> THEN P = <<>>
      ELSE \/ P = <<>> /\ Len(S) # Len(T)
           \/ P = [k \in DOMAIN S |-> <<S[k], T[k]>>] /\ Len(S) = Len(T)
           \/ P = [k \in DOMAIN T |-> <<S[1], T[k]>>]
           \/ P = [k \in DOMAIN S |-> <<S[k], T[1]>>]
  BY DEF Pairs
<1> HIDE DEF S, T, P, D
<1>3. /\ Len(S) \in Nat /\ DOMAIN S = 1..Len(S) /\ \A i \in 1..Len(S) : S[i] \in D
      /\ Len(T) \in Nat /\ DOMAIN T = 1..Len(T) /\ \A i \in 1..Len(T) : T[i] \in D
  BY <1>1, Sequence
<1>4. <<>> \in Seq(D \X D)
  BY EmptySeq
<1>5. CASE S = <<>> \/ T = <<>>
  BY <1>2, <1>4, <1>5 DEF P, D
<1>6. CASE S # <<>> /\ T # <<>>
  <2>1. 1 \in 1..Len(S) /\ 1 \in 1..Len(T)
    BY <1>1, <1>3, <1>6, EmptySeq
  <2>2. \/ P = <<>>
        \/ Len(S) = Len(T) /\ P = [k \in 1..Len(S) |-> <<S[k], T[k]>>]
        \/ P = [k \in 1..Len(T) |-> <<S[1], T[k]>>]
        \/ P = [k \in 1..Len(S) |-> <<S[k], T[1]>>]
    BY <1>2, <1>3, <1>6
  <2>3. ASSUME Len(S) = Len(T), P = [k \in 1..Len(S) |-> <<S[k], T[k]>>] PROVE P \in [1..Len(S) -> D \X D]
    BY <1>3, <2>3
  <2>4. ASSUME P = [k \in 1..Len(T) |-> <<S[1], T[k]>>] PROVE P \in [1..Len(T) -> D \X D]
    BY <1>3, <2>1, <2>4
  <2>5. ASSUME P = [k \in 1..Len(S) |-> <<S[k], T[1]>>] PROVE P \in [1..Len(S) -> D \X D]
    BY <1>3, <2>1, <2>5
  <2>6. P \in Seq(D \X D)
    BY <1>3, <1>4, <2>2, <2>3, <2>4, <2>5, IsSequence
  <2> QED BY <2>6 DEF P, D
<1> QED BY <1>5, <1>6

\* A cable adds no rack, place or device.
LEMMA StampCableKeeps ==
  ASSUME NEW y \in Txs, NEW c, NEW pair \in (1..Len(y.devices)) \X (1..Len(y.devices))
  PROVE  StampCable(y, c, pair) \in After(y)
<1> DEFINE ends == Termination(y, pair[1], c.sourceSlot) \X Termination(y, pair[2], c.destSlot)
           Free(e) == \A cable \in y.cables : {e[1], e[2]} \cap {cable.a, cable.b} = {}
           new == IF c.connectors = <<1, 1>> THEN {[a |-> e[1], b |-> e[2]] : e \in {x \in ends : Free(x)}} ELSE {}
           z == [y EXCEPT !.cables = @ \cup new]
<1>1. /\ y \in TxRows /\ y.devices \in Seq(DeviceRows) /\ Len(y.devices) \in Nat /\ y.cables \in SUBSET [a : Ends, b : Ends]
  BY LenProperties DEF Txs, TxRows
<1>2. ASSUME NEW d \in 1..Len(y.devices), NEW slot PROVE Termination(y, d, slot) \in SUBSET Ends
  <2> DEFINE ports == y.devices[d].ports
  <2>1. y.devices[d] \in DeviceRows
    BY <1>1, Sequence
  <2>2. ports \in Seq(Ports)
    BY <2>1 DEF DeviceRows
  <2> HIDE DEF ports
  <2>3. \A i \in DOMAIN ports : ports[i] \in Ports
    BY <2>2, Sequence
  <2>4. NamesOf(ports) \in SUBSET Names
    BY <2>3 DEF NamesOf, Ports
  <2>5. d \in Nat
    BY <1>1
  <2> DEFINE names == NamesOf(ports)
             chosen == {n \in names : Cardinality({m \in names : Less(m, n)}) = slot}
  <2>6. Termination(y, d, slot) = {<<d, name>> : name \in chosen}
    BY DEF Termination, ports
  <2>7. chosen \in SUBSET Names
    BY <2>4
  <2> HIDE DEF chosen
  <2> QED BY <2>5, <2>6, <2>7 DEF Ends
<1>3. \A e \in ends : e[1] \in Ends /\ e[2] \in Ends
  BY <1>2
<1> HIDE DEF ends
<1>4. new \in SUBSET [a : Ends, b : Ends]
  BY <1>3
<1>5. StampCable(y, c, pair) = z
  BY DEF StampCable, ends
<1> HIDE DEF new
<1>6. y.cables \cup new \in SUBSET [a : Ends, b : Ends]
  BY <1>1, <1>4
<1>7. z \in TxRows
  BY <1>1, <1>6 DEF TxRows
<1>8. z.places = y.places /\ z.racks = y.racks /\ z.devices = y.devices /\ z.under = y.under /\ z.registry = y.registry
  BY <1>1 DEF TxRows
<1>9. z \in Txs
  BY <1>7, <1>8 DEF Txs, NotedOnce, NotedPlaces, NotedDevices
<1>10. Extends(y, y)
  BY AfterItself DEF After
<1> QED BY <1>5, <1>8, <1>9, <1>10 DEF After, Extends

-----------------------------------------------------------------------------
(* One step after another, until one fails                                  *)

IsRun(f, n, X, x, h) == /\ f \in [0..n -> X] /\ f[0] = x
                        /\ \A k \in 1..n : f[k] = IF f[k - 1].failed THEN f[k - 1] ELSE h[k][f[k - 1]]

\* The cables of a connection are put down one after the other.
LEMMA RunExists ==
  ASSUME NEW n \in Nat, NEW X, NEW x \in X, NEW h \in [1..n -> [X -> X]]
  PROVE  \E f : IsRun(f, n, X, x, h)
<1> DEFINE g == [k \in 1..n |-> [y \in X |-> IF y.failed THEN y ELSE h[k][y]]]
<1>1. g \in [1..n -> [X -> X]]
  OBVIOUS
<1>2. \A k \in 1..n, y \in X : g[k][y] = IF y.failed THEN y ELSE h[k][y]
  OBVIOUS
<1> HIDE DEF g
<1>3. PICK f : Unfolds(f, n, X, x, g)
  BY <1>1, Recursion
<1>4. ASSUME NEW k \in 1..n PROVE f[k] = IF f[k - 1].failed THEN f[k - 1] ELSE h[k][f[k - 1]]
  <2>1. k - 1 \in 0..n
    BY NumbersUpTo
  <2> QED BY <1>2, <1>3, <2>1 DEF Unfolds
<1> QED BY <1>3, <1>4 DEF Unfolds, IsRun

\* A connection adds no rack, place or device.
LEMMA StampConnectionKeeps ==
  ASSUME NEW y \in Txs, NEW c
  PROVE  StampConnection(y, c) \in After(y)
<1> DEFINE s == Pairs(y, c)
           n == Len(s)
           X == After(y)
           h == [k \in 1..n |-> [z \in X |-> StampCable(z, c, s[k])]]
           Body(d) == [k \in 0..n |-> IF k = 0 THEN y
                          ELSE LET before == d[k - 1] IN IF before.failed THEN before ELSE StampCable(before, c, s[k])]
           run == CHOOSE d : d = Body(d)
<1>1. n \in Nat /\ \A k \in 1..n : s[k] \in (1..Len(y.devices)) \X (1..Len(y.devices))
  BY PairsAreDevices, Sequence
<1>2. ASSUME NEW k \in 1..n, NEW z \in X PROVE StampCable(z, c, s[k]) \in X
  <2>1. z \in Txs /\ Len(z.devices) \in Nat /\ Len(y.devices) \in Nat
    BY LenProperties DEF After, Txs, TxRows
  <2>2. Len(y.devices) <= Len(z.devices)
    BY DEF After, Extends, Longer
  <2>3. s[k] \in (1..Len(z.devices)) \X (1..Len(z.devices))
    BY <1>1, <2>1, <2>2
  <2>4. StampCable(z, c, s[k]) \in After(z)
    BY <2>1, <2>3, StampCableKeeps
  <2> QED BY <2>4, AfterAgain
<1>3. StampConnection(y, c) = run[n]
  BY DEF StampConnection, Chain
<1>4. y \in X
  BY AfterItself
<1> HIDE DEF X, s, n
<1>5. h \in [1..n -> [X -> X]] /\ \A k \in 1..n, z \in X : h[k][z] = StampCable(z, c, s[k])
  BY <1>2
<1> HIDE DEF h
<1>6. PICK f : IsRun(f, n, X, y, h)
  BY <1>1, <1>4, <1>5, RunExists
<1>7. f = Body(f)
  <2>1. \A k \in 1..n : f[k - 1] \in X
    BY <1>1, <1>6, NumbersUpTo DEF IsRun
  <2>2. \A k \in 0..n : k = 0 \/ k \in 1..n
    BY <1>1
  <2>3. f = [k \in 0..n |-> f[k]]
    BY <1>6 DEF IsRun
  <2> QED BY <1>5, <1>6, <2>1, <2>2, <2>3 DEF IsRun
<1>8. run = Body(run)
  <2> HIDE DEF Body
  <2> QED BY <1>7
<1> HIDE DEF run
<1>9. run[0] = y /\ \A k \in 1..n : run[k] = IF run[k - 1].failed THEN run[k - 1] ELSE StampCable(run[k - 1], c, s[k])
  <2>1. 0 \in 0..n /\ \A k \in 1..n : k \in 0..n /\ k # 0
    BY <1>1
  <2> QED BY <1>8, <2>1
<1>10. \A k \in 0..n : run[k] \in X
  <2>1. \A k \in 1..n : run[k - 1] \in X => run[k] \in X
    BY <1>2, <1>9
  <2> QED BY <1>1, <1>4, <1>9, <2>1, Steps
<1> QED BY <1>1, <1>3, <1>10, NumbersUpTo DEF X

\* The numbers up to m in their order
LEMMA UptoCounts ==
  ASSUME NEW m \in Nat
  PROVE  Len(Upto(m)) = m /\ \A k \in 1..m : Upto(m)[k] = k
<1>1. Upto(m) = [i \in 1..m |-> i]
  BY DEF Upto
<1>2. Upto(m) \in [1..m -> Nat]
  BY <1>1
<1> QED BY <1>1, <1>2, IsSequence

\* Racks are only ever added.
LEMMA RacksStay ==
  ASSUME NEW y \in Txs, NEW z \in After(y), NEW rack \in 1..Len(y.racks)
  PROVE  z \in Txs /\ rack \in 1..Len(z.racks)
<1>1. z \in Txs /\ Len(z.racks) \in Nat /\ Len(y.racks) \in Nat
  BY LenProperties DEF After, Txs, TxRows
<1>2. Len(y.racks) <= Len(z.racks)
  BY DEF After, Extends, Longer
<1> QED BY <1>1, <1>2

\* The slots of a rack, one after the other
LEMMA AddDevicesKeeps ==
  ASSUME NEW y \in Txs, NEW population, IsPopulation(population), NEW rack \in 1..Len(y.racks), NEW plane \in Nat
  PROVE  AddDevices(y, population, rack, plane) \in After(y)
<1> DEFINE s == Upto(Len(population.slots))
           n == Len(s)
           X == After(y)
           h == [k \in 1..n |-> [z \in X |-> AddDevice(z, population.slots[s[k]], s[k], rack, plane)]]
           Body(d) == [k \in 0..n |-> IF k = 0 THEN y
                          ELSE LET before == d[k - 1] IN IF before.failed THEN before ELSE AddDevice(before, population.slots[s[k]], s[k], rack, plane)]
           run == CHOOSE d : d = Body(d)
<1>1. n \in Nat /\ \A k \in 1..n : s[k] = k /\ IsSlot(population.slots[k])
  <2> DEFINE slots == population.slots
  <2>1. slots \in Seq(Range(slots)) /\ \A slot \in Range(slots) : IsSlot(slot)
    BY DEF IsPopulation
  <2> HIDE DEF slots
  <2>2. Len(slots) \in Nat /\ \A k \in 1..Len(slots) : IsSlot(slots[k])
    BY <2>1, Sequence
  <2> QED BY <2>2, UptoCounts DEF slots
<1>2. ASSUME NEW k \in 1..n, NEW z \in X PROVE AddDevice(z, population.slots[s[k]], s[k], rack, plane) \in X
  <2>1. z \in Txs /\ rack \in 1..Len(z.racks)
    BY RacksStay
  <2>2. s[k] \in Nat /\ IsSlot(population.slots[s[k]])
    BY <1>1
  <2>3. AddDevice(z, population.slots[s[k]], s[k], rack, plane) \in After(z)
    BY <2>1, <2>2, AddDeviceKeeps
  <2> QED BY <2>3, AfterAgain
<1>3. AddDevices(y, population, rack, plane) = run[n]
  BY DEF AddDevices, Chain
<1>4. y \in X
  BY AfterItself
<1> HIDE DEF X, s, n
<1>5. h \in [1..n -> [X -> X]] /\ \A k \in 1..n, z \in X : h[k][z] = AddDevice(z, population.slots[s[k]], s[k], rack, plane)
  BY <1>2
<1> HIDE DEF h
<1>6. PICK f : IsRun(f, n, X, y, h)
  BY <1>1, <1>4, <1>5, RunExists
<1>7. f = Body(f)
  <2>1. \A k \in 1..n : f[k - 1] \in X
    BY <1>1, <1>6, NumbersUpTo DEF IsRun
  <2>2. \A k \in 0..n : k = 0 \/ k \in 1..n
    BY <1>1
  <2>3. f = [k \in 0..n |-> f[k]]
    BY <1>6 DEF IsRun
  <2> QED BY <1>5, <1>6, <2>1, <2>2, <2>3 DEF IsRun
<1>8. run = Body(run)
  <2> HIDE DEF Body
  <2> QED BY <1>7
<1> HIDE DEF run
<1>9. run[0] = y /\ \A k \in 1..n : run[k] = IF run[k - 1].failed THEN run[k - 1] ELSE AddDevice(run[k - 1], population.slots[s[k]], s[k], rack, plane)
  <2>1. 0 \in 0..n /\ \A k \in 1..n : k \in 0..n /\ k # 0
    BY <1>1
  <2> QED BY <1>8, <2>1
<1>10. \A k \in 0..n : run[k] \in X
  <2>1. \A k \in 1..n : run[k - 1] \in X => run[k] \in X
    BY <1>2, <1>9
  <2> QED BY <1>1, <1>4, <1>9, <2>1, Steps
<1> QED BY <1>1, <1>3, <1>10, NumbersUpTo DEF X

\* A rack filled once, or once for each plane
LEMMA StampRackPopulationKeeps ==
  ASSUME NEW y \in Txs, NEW population, IsPopulation(population), NEW rack \in 1..Len(y.racks), NEW plane \in Nat
  PROVE  StampRackPopulation(y, population, rack, plane) \in After(y)
<1> DEFINE s == Upto(IF population.multiplier = 0 THEN 1 ELSE population.multiplier)
           n == Len(s)
           X == After(y)
           h == [k \in 1..n |-> [z \in X |-> AddDevices(z, population, rack, IF population.multiplier > 1 THEN s[k] ELSE plane)]]
           Body(d) == [k \in 0..n |-> IF k = 0 THEN y
                          ELSE LET before == d[k - 1] IN IF before.failed THEN before ELSE AddDevices(before, population, rack, IF population.multiplier > 1 THEN s[k] ELSE plane)]
           run == CHOOSE d : d = Body(d)
<1>1. n \in Nat /\ \A k \in 1..n : s[k] = k
  <2>1. (IF population.multiplier = 0 THEN 1 ELSE population.multiplier) \in Nat
    BY DEF IsPopulation
  <2> QED BY <2>1, UptoCounts
<1>2. ASSUME NEW k \in 1..n, NEW z \in X PROVE AddDevices(z, population, rack, IF population.multiplier > 1 THEN s[k] ELSE plane) \in X
  <2>1. z \in Txs /\ rack \in 1..Len(z.racks)
    BY RacksStay
  <2>2. (IF population.multiplier > 1 THEN s[k] ELSE plane) \in Nat
    BY <1>1
  <2>3. AddDevices(z, population, rack, IF population.multiplier > 1 THEN s[k] ELSE plane) \in After(z)
    BY <2>1, <2>2, AddDevicesKeeps
  <2> QED BY <2>3, AfterAgain
<1>3. StampRackPopulation(y, population, rack, plane) = run[n]
  BY DEF StampRackPopulation, Chain
<1>4. y \in X
  BY AfterItself
<1> HIDE DEF X, s, n
<1>5. h \in [1..n -> [X -> X]] /\ \A k \in 1..n, z \in X : h[k][z] = AddDevices(z, population, rack, IF population.multiplier > 1 THEN s[k] ELSE plane)
  BY <1>2
<1> HIDE DEF h
<1>6. PICK f : IsRun(f, n, X, y, h)
  BY <1>1, <1>4, <1>5, RunExists
<1>7. f = Body(f)
  <2>1. \A k \in 1..n : f[k - 1] \in X
    BY <1>1, <1>6, NumbersUpTo DEF IsRun
  <2>2. \A k \in 0..n : k = 0 \/ k \in 1..n
    BY <1>1
  <2>3. f = [k \in 0..n |-> f[k]]
    BY <1>6 DEF IsRun
  <2> QED BY <1>5, <1>6, <2>1, <2>2, <2>3 DEF IsRun
<1>8. run = Body(run)
  <2> HIDE DEF Body
  <2> QED BY <1>7
<1> HIDE DEF run
<1>9. run[0] = y /\ \A k \in 1..n : run[k] = IF run[k - 1].failed THEN run[k - 1] ELSE AddDevices(run[k - 1], population, rack, IF population.multiplier > 1 THEN s[k] ELSE plane)
  <2>1. 0 \in 0..n /\ \A k \in 1..n : k \in 0..n /\ k # 0
    BY <1>1
  <2> QED BY <1>8, <2>1
<1>10. \A k \in 0..n : run[k] \in X
  <2>1. \A k \in 1..n : run[k - 1] \in X => run[k] \in X
    BY <1>2, <1>9
  <2> QED BY <1>1, <1>4, <1>9, <2>1, Steps
<1> QED BY <1>1, <1>3, <1>10, NumbersUpTo DEF X

\* A node stands for a number of planes.
LEMMA PlaneMultiplierCounts ==
  ASSUME NEW nodes, NEW n, IsNode(nodes, n)
  PROVE  PlaneMultiplier(nodes[n]) \in Nat
<1> DEFINE p == nodes[n].population
<1>1. CASE nodes[n].populated
  <2>1. p.multiplier \in Nat /\ p.fabricPlanes \in Nat
    BY <1>1 DEF IsNode, IsPopulation
  <2> QED BY <1>1, <2>1 DEF PlaneMultiplier
<1>2. CASE ~nodes[n].populated
  BY <1>2 DEF PlaneMultiplier
<1> QED BY <1>1, <1>2

\* The position of a rack is a number.
LEMMA PositionIsNumber ==
  ASSUME NEW nodes, NEW n, IsNode(nodes, n), NEW i \in Nat
  PROVE  Position(nodes[n], i) \in Int
<1>1. nodes[n].position \in Int /\ nodes[n].stride \in Int /\ i - 1 \in Int
  BY DEF IsNode
<1>2. \A a, b \in Int : a * b \in Int
  OBVIOUS
<1>3. (i - 1) * nodes[n].stride \in Int
  BY <1>1, <1>2
<1> QED BY <1>1, <1>3 DEF Position

\* A rack with its devices, noted by node, instance and plane
LEMMA StampRackKeeps ==
  ASSUME NEW y \in Txs, NEW t, NEW n \in Nat, IsNode(t.nodes, n), NEW place \in Nat, NEW parent \in Names,
         NEW i \in Nat, NEW plane \in Nat
  PROVE  StampRack(y, t, n, place, parent, i, plane) \in After(y)
<1> DEFINE node == t.nodes[n]
           many == PlaneMultiplier(node) > 1
           suffix == IF many /\ "plane" \notin node.pattern.tokens THEN <<plane>> ELSE <<>>
           shown == IF many THEN plane ELSE 0
           name == Render(node.pattern, i, parent, shown) \o suffix
           racked == AddRack(y, name, place, Position(node, i), <<n, i, plane>>)
           full == StampRackPopulation(racked, node.population, Len(racked.racks), shown)
           old == Len(y.devices)
           ids == [d \in 1..(Len(full.devices) - old) |-> old + d]
<1>1. name \in Names
  <2>1. shown \in Nat /\ node.pattern.tag \in Int
    BY DEF IsNode
  <2>2. Render(node.pattern, i, parent, shown) \in Seq(Int)
    BY <2>1, RenderIsName DEF Names
  <2>3. <<plane>> \in Seq(Int) /\ <<>> \in Seq(Int)
    BY EmptySeq
  <2>4. suffix \in Seq(Int)
    BY <2>3
  <2> HIDE DEF suffix, shown
  <2> QED BY <2>2, <2>4, ConcatProperties DEF Names
<1>2. Position(node, i) \in Int /\ <<n, i, plane>> \in Seq(Int)
  BY PositionIsNumber
<1> HIDE DEF name
<1>3. racked \in After(y) /\ (racked.failed \/ Len(racked.racks) \in 1..Len(racked.racks))
  BY <1>1, <1>2, AddRackKeeps
<1>4. racked \in Txs
  BY <1>3 DEF After
<1>5. shown \in Nat
  OBVIOUS
<1> HIDE DEF racked, shown
<1>6. ASSUME ~racked.failed, node.populated
      PROVE  Register(full, <<n, i, plane>>, ids) \in After(y)
  <2>1. IsPopulation(node.population)
    BY <1>6 DEF IsNode
  <2>2. full \in After(racked)
    BY <1>3, <1>4, <1>5, <1>6, <2>1, StampRackPopulationKeeps
  <2>3. full \in After(y)
    BY <1>3, <2>2, AfterAgain
  <2> HIDE DEF full
  <2>4. full \in Txs /\ Len(full.devices) \in Nat /\ old \in Nat /\ old <= Len(full.devices)
    <3>1. full \in Txs /\ full \in TxRows /\ y \in TxRows
      BY <2>3 DEF After, Txs
    <3>2. Longer(y.devices, full.devices)
      BY <2>3 DEF After, Extends
    <3> QED BY <3>1, <3>2, LenProperties DEF Longer, TxRows
  <2> DEFINE m == Len(full.devices) - old
  <2>5. m \in Nat /\ ids = [d \in 1..m |-> old + d]
    BY <2>4
  <2>6. \A d \in 1..m : old + d \in Nat /\ old + d \in 1..Len(full.devices)
    BY <2>4
  <2> HIDE DEF ids, m, old
  <2>7. ids \in [1..m -> Nat]
    BY <2>5, <2>6
  <2>8. ids \in Seq(Nat) /\ Len(ids) = m
    BY <2>5, <2>7, IsSequence
  <2>9. \A k \in 1..Len(ids) : ids[k] \in 1..Len(full.devices)
    BY <2>5, <2>6, <2>8
  <2>10. <<n, i, plane>> \in Nat \X Nat \X Nat
    OBVIOUS
  <2>11. Register(full, <<n, i, plane>>, ids) \in After(full)
    BY <2>4, <2>8, <2>9, <2>10, RegisterKeeps
  <2> QED BY <2>3, <2>11, AfterAgain
<1>7. StampRack(y, t, n, place, parent, i, plane) =
        IF racked.failed \/ ~node.populated THEN racked ELSE Register(full, <<n, i, plane>>, ids)
  BY DEF StampRack, racked, name, shown
<1> QED BY <1>3, <1>6, <1>7

\* The racks of an instance, one for each plane
StampPlanes(y, t, m, place, parent, i) ==
    Chain(LAMBDA a, p : StampRack(a, t, m, place, parent, i, p), y, Upto(PlaneMultiplier(t.nodes[m])))

\* The racks of all planes of one instance
LEMMA PlanesKeep ==
  ASSUME NEW y \in Txs, NEW t, NEW m \in Nat, IsNode(t.nodes, m), NEW place \in Nat, NEW parent \in Names, NEW i \in Nat
  PROVE  StampPlanes(y, t, m, place, parent, i) \in After(y)
<1> DEFINE s == Upto(PlaneMultiplier(t.nodes[m]))
           n == Len(s)
           X == After(y)
           h == [k \in 1..n |-> [z \in X |-> StampRack(z, t, m, place, parent, i, s[k])]]
           Body(d) == [k \in 0..n |-> IF k = 0 THEN y
                          ELSE LET before == d[k - 1] IN IF before.failed THEN before ELSE StampRack(before, t, m, place, parent, i, s[k])]
           run == CHOOSE d : d = Body(d)
<1>1. n \in Nat /\ \A k \in 1..n : s[k] = k
  BY PlaneMultiplierCounts, UptoCounts
<1>2. ASSUME NEW k \in 1..n, NEW z \in X PROVE StampRack(z, t, m, place, parent, i, s[k]) \in X
  <2>1. z \in Txs /\ s[k] \in Nat
    BY <1>1 DEF After
  <2>2. StampRack(z, t, m, place, parent, i, s[k]) \in After(z)
    BY <2>1, StampRackKeeps
  <2> QED BY <2>2, AfterAgain
<1>3. StampPlanes(y, t, m, place, parent, i) = run[n]
  BY DEF StampPlanes, Chain
<1>4. y \in X
  BY AfterItself
<1> HIDE DEF X, s, n
<1>5. h \in [1..n -> [X -> X]] /\ \A k \in 1..n, z \in X : h[k][z] = StampRack(z, t, m, place, parent, i, s[k])
  BY <1>2
<1> HIDE DEF h
<1>6. PICK f : IsRun(f, n, X, y, h)
  BY <1>1, <1>4, <1>5, RunExists
<1>7. f = Body(f)
  <2>1. \A k \in 1..n : f[k - 1] \in X
    BY <1>1, <1>6, NumbersUpTo DEF IsRun
  <2>2. \A k \in 0..n : k = 0 \/ k \in 1..n
    BY <1>1
  <2>3. f = [k \in 0..n |-> f[k]]
    BY <1>6 DEF IsRun
  <2> QED BY <1>5, <1>6, <2>1, <2>2, <2>3 DEF IsRun
<1>8. run = Body(run)
  <2> HIDE DEF Body
  <2> QED BY <1>7
<1> HIDE DEF run
<1>9. run[0] = y /\ \A k \in 1..n : run[k] = IF run[k - 1].failed THEN run[k - 1] ELSE StampRack(run[k - 1], t, m, place, parent, i, s[k])
  <2>1. 0 \in 0..n /\ \A k \in 1..n : k \in 0..n /\ k # 0
    BY <1>1
  <2> QED BY <1>8, <2>1
<1>10. \A k \in 0..n : run[k] \in X
  <2>1. \A k \in 1..n : run[k - 1] \in X => run[k] \in X
    BY <1>2, <1>9
  <2> QED BY <1>1, <1>4, <1>9, <2>1, Steps
<1> QED BY <1>1, <1>3, <1>10, NumbersUpTo DEF X

\* An instance of a node: a location, or racks
VisitPaths(t) == {p \in Paths : p # <<>> /\ Last(p)[1] \in DOMAIN t.nodes}

\* One instance of a node, a location or its racks
LEMMA StampInstanceKeeps ==
  ASSUME NEW y \in Txs, NEW t, IsTemplate(t), NEW scope \in 0..Len(y.places), NEW path \in VisitPaths(t)
  PROVE  StampInstance(y, t, scope, path) \in After(y)
<1> DEFINE n == Last(path)[1]
           i == Last(path)[2]
           place == LocationAbove(y, scope, path)
           parent == IF place = 0 THEN <<>> ELSE y.places[place].name
<1>1. path \in Paths /\ n \in Nat /\ i \in Nat /\ n \in DOMAIN t.nodes
  <2>1. path \in Seq(Nat \X Nat) /\ path # <<>> /\ n \in DOMAIN t.nodes
    BY DEF VisitPaths, Paths
  <2>2. path[Len(path)] \in Nat \X Nat
    BY <2>1, EmptySeq, Sequence
  <2>3. Last(path) \in Nat \X Nat
    BY <2>2 DEF Last
  <2> QED BY <2>1, <2>3 DEF Paths
<1>2. IsNode(t.nodes, n)
  BY <1>1 DEF IsTemplate
<1>3. y.places \in Seq(PlaceRows) /\ Len(y.places) \in Nat /\ NotedPlaces(y)
  BY LenProperties DEF Txs, TxRows
<1>4. place \in 0..Len(y.places) /\ place \in Nat
  BY <1>3 DEF LocationAbove, NotedPlaces
<1>5. parent \in Names
  <2>1. CASE place = 0
    BY <2>1, EmptySeq DEF Names
  <2>2. CASE place # 0
    <3>1. place \in 1..Len(y.places)
      BY <1>3, <1>4, <2>2
    <3> HIDE DEF place
    <3>2. y.places[place] \in PlaceRows
      BY <1>3, <3>1, Sequence
    <3> QED BY <2>2, <3>2 DEF PlaceRows
  <2> QED BY <2>1, <2>2
<1>6. Render(t.nodes[n].pattern, i, parent, 0) \in Names
  <2>1. t.nodes[n].pattern.tag \in Int
    BY <1>2 DEF IsNode
  <2> QED BY <1>1, <1>5, <2>1, RenderIsName
<1>7. AddLocation(y, Render(t.nodes[n].pattern, i, parent, 0), place, path) \in After(y)
  <2> HIDE DEF place, parent
  <2> QED BY <1>1, <1>4, <1>6, AddLocationKeeps
<1>8. StampPlanes(y, t, n, place, parent, i) \in After(y)
  <2> HIDE DEF place, parent
  <2> QED BY <1>1, <1>2, <1>4, <1>5, PlanesKeep
<1>9. \/ StampInstance(y, t, scope, path) = StampPlanes(y, t, n, place, parent, i)
      \/ StampInstance(y, t, scope, path) = AddLocation(y, Render(t.nodes[n].pattern, i, parent, 0), place, path)
  BY DEF StampInstance, StampPlanes
<1> QED BY <1>7, <1>8, <1>9

-----------------------------------------------------------------------------
(* The instances of the nodes of a template                                 *)

\* A function on 1..m is a sequence whatever m is.
LEMMA IsSequenceOfAny ==
  ASSUME NEW S, NEW m \in Int, NEW s \in [1..m -> S]
  PROVE  s \in Seq(S)
<1>1. CASE m \in Nat
  BY <1>1, IsSequence
<1>2. CASE m \notin Nat
  <2>1. 1..m = 1..0
    BY <1>2
  <2>2. s \in [1..0 -> S]
    BY <2>1
  <2> QED BY <2>2, IsSequence
<1> QED BY <1>1, <1>2

\* Functions with the same values are the same.
LEMMA SameFunction ==
  ASSUME NEW D, NEW R, NEW a \in [D -> R], NEW b \in [D -> R], \A d \in D : a[d] = b[d]
  PROVE  a = b
<1>1. a = [d \in D |-> a[d]] /\ b = [d \in D |-> b[d]]
  OBVIOUS
<1> QED BY <1>1

Instances(c, m, below) ==
    FlattenSeq([i \in 1..m |-> <<<<<<c, i>>>>>> \o [k \in DOMAIN below |-> <<<<c, i>>>> \o below[k]]])
Instantiated(t, v, y, n) ==
    FlattenSeq([c \in DOMAIN t.nodes |->
        IF t.nodes[c].parent = n /\ (n = 0 \/ t.nodes[n].kind # "rack_position")
        THEN Instances(c, Quantity(t.nodes[c], v), y[c]) ELSE <<>>])

\* The instances of a node, each followed by what is below it, are visits.
LEMMA InstancesAreVisits ==
  ASSUME NEW t, NEW c \in DOMAIN t.nodes, c \in Nat, NEW m \in Int, NEW below \in Seq(VisitPaths(t))
  PROVE  Instances(c, m, below) \in Seq(VisitPaths(t))
<1> DEFINE V == VisitPaths(t)
           one(i) == <<<<c, i>>>>
           rest(i) == [k \in DOMAIN below |-> one(i) \o below[k]]
           s == [i \in 1..m |-> <<one(i)>> \o rest(i)]
<1>1. Len(below) \in Nat /\ DOMAIN below = 1..Len(below) /\ \A k \in 1..Len(below) : below[k] \in V
  BY Sequence
<1>2. \A p \in V : p \in Seq(Nat \X Nat) /\ p # <<>> /\ Last(p)[1] \in DOMAIN t.nodes
  BY DEF VisitPaths, Paths
<1>3. \A p \in Seq(Nat \X Nat) : p # <<>> /\ Last(p)[1] \in DOMAIN t.nodes => p \in V
  BY DEF VisitPaths, Paths
<1> HIDE DEF V
<1>4. ASSUME NEW i \in 1..m PROVE <<one(i)>> \o rest(i) \in Seq(V)
  <2> DEFINE a == one(i)
  <2>1. a \in Seq(Nat \X Nat) /\ Len(a) = 1 /\ a[1] = <<c, i>> /\ i \in Nat
    OBVIOUS
  <2>2. a # <<>> /\ Last(a) = <<c, i>>
    BY <2>1, EmptySeq DEF Last
  <2>8. <<c, i>>[1] \in DOMAIN t.nodes
    OBVIOUS
  <2> HIDE DEF a
  <2>3. a \in V
    BY <1>3, <2>1, <2>2, <2>8
  <2>4. ASSUME NEW k \in 1..Len(below) PROVE a \o below[k] \in V
    <3> DEFINE b == below[k]  p == a \o b
    <3>1. b \in Seq(Nat \X Nat) /\ b # <<>> /\ Last(b)[1] \in DOMAIN t.nodes
      BY <1>1, <1>2
    <3> HIDE DEF b
    <3>2. Len(b) \in Nat /\ Len(b) # 0
      BY <3>1, EmptySeq
    <3>3. p \in Seq(Nat \X Nat) /\ p = a \o b
      BY <2>1, <3>1, ConcatProperties
    <3> HIDE DEF p
    <3>4. Len(p) = 1 + Len(b) /\ \A j \in 1..Len(b) : p[1 + j] = b[j]
      <4> DEFINE W == Nat \X Nat
      <4>3. a \in Seq(W) /\ b \in Seq(W) /\ p = a \o b
        BY <2>1, <3>1, <3>3
      <4> HIDE DEF W
      <4>1. \A j \in 1..Len(b) : p[Len(a) + j] = b[j]
        BY <4>3, PutTogether
      <4>2. Len(p) = Len(a) + Len(b)
        BY <4>3, PutTogether
      <4> QED BY <2>1, <4>1, <4>2
    <3>5. Len(b) \in 1..Len(b)
      BY <3>2
    <3>6. Last(p) = Last(b) /\ p # <<>>
      <4>1. p[1 + Len(b)] = b[Len(b)]
        BY <3>4, <3>5
      <4>2. Len(p) # 0
        BY <3>2, <3>4
      <4> QED BY <3>3, <3>4, <4>1, <4>2, EmptySeq DEF Last
    <3>7. p \in V
      BY <1>3, <3>1, <3>3, <3>6
    <3> QED BY <3>7 DEF p, b
  <2>5. rest(i) \in Seq(V)
    <3> DEFINE r == [k \in DOMAIN below |-> a \o below[k]]
    <3>1. r \in [1..Len(below) -> V]
      BY <1>1, <2>4
    <3>2. r \in Seq(V)
      <4> HIDE DEF r
      <4> QED BY <1>1, <3>1, IsSequence
    <3>3. r = rest(i)
      BY DEF a
    <3> QED BY <3>2, <3>3
  <2>6. <<a>> \in Seq(V)
    BY <2>3
  <2>7. <<a>> \o rest(i) \in Seq(V)
    <3> HIDE DEF rest
    <3> QED BY <2>5, <2>6, ConcatProperties
  <2> QED BY <2>7 DEF a
<1>5. s \in [1..m -> Seq(V)]
  BY <1>4
<1>6. Instances(c, m, below) = FlattenSeq(s)
  BY DEF Instances
<1> HIDE DEF s
<1>7. s \in Seq(Seq(V))
  BY <1>5, IsSequenceOfAny
<1> QED BY <1>6, <1>7, Flattened DEF V

\* What is under a node is known from what is under later ones.
LEMMA InstantiatedAreVisits ==
  ASSUME NEW t, IsTemplate(t), NEW v, \A c \in DOMAIN t.nodes : Quantity(t.nodes[c], v) \in Int,
         NEW n \in Nat, NEW y, \A c \in DOMAIN t.nodes : c > n => y[c] \in Seq(VisitPaths(t))
  PROVE  Instantiated(t, v, y, n) \in Seq(VisitPaths(t))
<1> DEFINE V == VisitPaths(t)
           Of(c) == IF t.nodes[c].parent = n /\ (n = 0 \/ t.nodes[n].kind # "rack_position")
                    THEN Instances(c, Quantity(t.nodes[c], v), y[c]) ELSE <<>>
           s == [c \in DOMAIN t.nodes |-> Of(c)]
           N == Len(t.nodes)
<1>1. N \in Nat /\ DOMAIN t.nodes = 1..N
  <2> DEFINE nodes == t.nodes
  <2>1. nodes \in Seq(Range(nodes))
    BY DEF IsTemplate
  <2> HIDE DEF nodes
  <2>2. Len(nodes) \in Nat /\ DOMAIN nodes = 1..Len(nodes)
    BY <2>1, Sequence
  <2> QED BY <2>2 DEF nodes
<1>2. ASSUME NEW c \in 1..N PROVE Of(c) \in Seq(V)
  <2>1. c \in Nat /\ c \in DOMAIN t.nodes
    BY <1>1
  <2>2. t.nodes[c].parent = n => c > n
    <3>1. t.nodes[c].parent \in 0..(c - 1)
      BY <2>1 DEF IsTemplate, IsNode
    <3> QED BY <2>1, <3>1
  <2>3. t.nodes[c].parent = n => Instances(c, Quantity(t.nodes[c], v), y[c]) \in Seq(V)
    BY <2>1, <2>2, InstancesAreVisits
  <2> QED BY <2>3, EmptySeq
<1>3. s \in [1..N -> Seq(V)]
  BY <1>1, <1>2
<1>4. Instantiated(t, v, y, n) = FlattenSeq(s)
  BY DEF Instantiated
<1> HIDE DEF s, N, V
<1>5. s \in Seq(Seq(V))
  BY <1>1, <1>3, IsSequence
<1> QED BY <1>4, <1>5, Flattened DEF V

\* Instances do not depend on the function that counts them.
LEMMA InstantiatedAlike ==
  ASSUME NEW t, IsTemplate(t), NEW v, NEW n \in Nat, NEW y, NEW z, \A c \in DOMAIN t.nodes : c > n => y[c] = z[c]
  PROVE  Instantiated(t, v, y, n) = Instantiated(t, v, z, n)
<1> DEFINE Of(w, c) == IF t.nodes[c].parent = n /\ (n = 0 \/ t.nodes[n].kind # "rack_position")
                       THEN Instances(c, Quantity(t.nodes[c], v), w[c]) ELSE <<>>
<1>1. ASSUME NEW c \in DOMAIN t.nodes PROVE Of(y, c) = Of(z, c)
  <2>1. DOMAIN t.nodes \subseteq Nat
    <3> DEFINE nodes == t.nodes
    <3>1. nodes \in Seq(Range(nodes))
      BY DEF IsTemplate
    <3> HIDE DEF nodes
    <3>2. Len(nodes) \in Nat /\ DOMAIN nodes = 1..Len(nodes)
      BY <3>1, Sequence
    <3> QED BY <3>2 DEF nodes
  <2>2. t.nodes[c].parent \in 0..(c - 1)
    BY DEF IsTemplate, IsNode
  <2>3. t.nodes[c].parent = n => y[c] = z[c]
    BY <2>1, <2>2
  <2> QED BY <2>3
<1>2. [c \in DOMAIN t.nodes |-> Of(y, c)] = [c \in DOMAIN t.nodes |-> Of(z, c)]
  BY <1>1
<1>3. \A w : Instantiated(t, v, w, n) = FlattenSeq([c \in DOMAIN t.nodes |-> Of(w, c)])
  BY DEF Instantiated
<1> HIDE DEF Of
<1> QED BY <1>2, <1>3

\* The visits of a template are visits.
LEMMA VisitsAreVisits ==
  ASSUME NEW t, IsTemplate(t), NEW v, \A c \in DOMAIN t.nodes : Quantity(t.nodes[c], v) \in Int
  PROVE  Visits(t, v) \in Seq(VisitPaths(t))
<1> DEFINE N == Len(t.nodes)
           S == Seq(VisitPaths(t))
           X == [0..N -> S]
           x == [n \in 0..N |-> <<>>]
           Body(d) == [n \in 0..N |-> Instantiated(t, v, d, n)]
           h == [k \in 1..(N + 1) |-> [y \in X |-> Body(y)]]
           under == CHOOSE d : d = Body(d)
<1>1. N \in Nat /\ DOMAIN t.nodes = 1..N
  <2> DEFINE nodes == t.nodes
  <2>1. nodes \in Seq(Range(nodes))
    BY DEF IsTemplate
  <2> HIDE DEF nodes
  <2>2. Len(nodes) \in Nat /\ DOMAIN nodes = 1..Len(nodes)
    BY <2>1, Sequence
  <2> QED BY <2>2 DEF nodes
<1>a. \A n \in 0..N : n \in Nat
  BY <1>1
<1>2. Visits(t, v) = under[0]
  BY DEF Visits, Instantiated, Instances
<1> HIDE DEF S
<1>3. ASSUME NEW y \in X PROVE Body(y) \in X
  <2>1. \A c \in DOMAIN t.nodes : y[c] \in S
    BY <1>1
  <2>2. \A n \in 0..N : Instantiated(t, v, y, n) \in S
    BY <1>a, <2>1, InstantiatedAreVisits DEF S
  <2> QED BY <2>2
<1>4. x \in X
  <2>1. <<>> \in S
    BY EmptySeq DEF S
  <2> QED BY <2>1
<1> HIDE DEF X, N, x
<1>5. h \in [1..(N + 1) -> [X -> X]] /\ \A k \in 1..(N + 1), y \in X : h[k][y] = Body(y)
  <2> HIDE DEF Body
  <2> QED BY <1>3
<1> HIDE DEF h
<1>6. PICK f : Unfolds(f, N + 1, X, x, h)
  <2>1. N + 1 \in Nat
    BY <1>1
  <2> QED BY <1>4, <1>5, <2>1, Recursion
<1>7. \A k \in 1..(N + 1) : f[k] = Body(f[k - 1]) /\ f[k - 1] \in X
  <2>1. \A k \in 1..(N + 1) : k - 1 \in 0..(N + 1)
    BY <1>1
  <2> HIDE DEF Body
  <2> QED BY <1>5, <1>6, <2>1 DEF Unfolds
\* After k rounds nothing changes any more under the last k nodes.
<1> DEFINE T == {k \in 0..(N + 1) : \A n \in 0..N : n > N - k => Body(f[k])[n] = f[k][n]}
<1>8. 0 \in T
  BY <1>1
<1>9. ASSUME NEW k \in 1..(N + 1), k - 1 \in T PROVE k \in T
  <2>1. f[k] = Body(f[k - 1])
    BY <1>7
  <2>2. ASSUME NEW n \in 0..N, n > N - k PROVE Body(f[k])[n] = f[k][n]
    <3>1. ASSUME NEW c \in DOMAIN t.nodes, c > n PROVE f[k][c] = f[k - 1][c]
      <4>1. c \in 0..N /\ c > N - (k - 1)
        BY <1>1, <2>2, <3>1
      <4>2. Body(f[k - 1])[c] = f[k - 1][c]
        BY <1>9, <4>1
      <4> HIDE DEF Body
      <4> QED BY <2>1, <4>2
    <3>2. n \in Nat
      BY <1>a
    <3>3. Instantiated(t, v, f[k], n) = Instantiated(t, v, f[k - 1], n)
      BY <3>1, <3>2, InstantiatedAlike
    <3>4. Body(f[k])[n] = Instantiated(t, v, f[k], n) /\ Body(f[k - 1])[n] = Instantiated(t, v, f[k - 1], n)
      OBVIOUS
    <3> HIDE DEF Body
    <3> QED BY <2>1, <3>3, <3>4
  <2>3. k \in 0..(N + 1)
    BY <1>1
  <2> HIDE DEF Body
  <2> QED BY <2>2, <2>3
<1>10. \E d : d = Body(d)
  <2> DEFINE M == N + 1
  <2>1. M \in Nat /\ M \in T
    <3>1. M \in Nat /\ M \in 0..M
      BY <1>1
    <3> HIDE DEF T, Body, M
    <3>2. \A k \in 0..M : k \in T
      BY <1>8, <1>9, <3>1, Induction DEF M
    <3> QED BY <3>1, <3>2
  <2>2. \A n \in 0..N : Body(f[M])[n] = f[M][n]
    <3>1. \A n \in 0..N : n > N - M
      BY <1>1
    <3> HIDE DEF Body
    <3> QED BY <2>1, <3>1
  <2>3. f[M] \in X /\ Body(f[M]) \in X
    <3>1. M \in 1..(N + 1)
      BY <1>1
    <3>2. f[M] = Body(f[M - 1]) /\ f[M - 1] \in X
      BY <1>7, <3>1
    <3> HIDE DEF Body, M
    <3> QED BY <1>3, <3>2
  <2> HIDE DEF Body, M
  <2>4. f[M] = Body(f[M])
    <3> DEFINE A == f[M]  B == Body(f[M])  W == 0..N
    <3>1. A \in [W -> S] /\ B \in [W -> S] /\ \A n \in W : A[n] = B[n]
      BY <2>2, <2>3 DEF X
    <3> HIDE DEF A, B, W
    <3>2. A = B
      BY <3>1, SameFunction
    <3> QED BY <3>2 DEF A, B
  <2> QED BY <2>4
<1>11. under = Body(under)
  <2> HIDE DEF Body
  <2> QED BY <1>10
<1> HIDE DEF under
<1> DEFINE R == {k \in 0..N : \A n \in 0..N : n >= N - k => under[n] \in S}
<1>12. \A n \in 0..N : (\A c \in DOMAIN t.nodes : c > n => under[c] \in S) => under[n] \in S
  <2> SUFFICES ASSUME NEW n \in 0..N, \A c \in DOMAIN t.nodes : c > n => under[c] \in S PROVE under[n] \in S
    OBVIOUS
  <2>1. under[n] = Instantiated(t, v, under, n)
    BY <1>11
  <2>2. Instantiated(t, v, under, n) \in S
    BY <1>a, InstantiatedAreVisits DEF S
  <2> QED BY <2>1, <2>2
<1> HIDE DEF Body
<1>13. 0 \in R
  <2>1. under[N] \in S
    <3>1. N \in 0..N /\ \A c \in DOMAIN t.nodes : ~(c > N)
      BY <1>1
    <3> QED BY <1>12, <3>1
  <2>2. \A n \in 0..N : n >= N - 0 => n = N
    BY <1>1
  <2> QED BY <1>1, <2>1, <2>2
<1>14. ASSUME NEW k \in 1..N, k - 1 \in R PROVE k \in R
  <2>1. ASSUME NEW n \in 0..N, n >= N - k PROVE under[n] \in S
    <3>1. ASSUME NEW c \in DOMAIN t.nodes, c > n PROVE under[c] \in S
      <4>1. c \in 0..N /\ c >= N - (k - 1)
        BY <1>1, <2>1, <3>1
      <4> QED BY <1>14, <4>1
    <3> QED BY <1>12, <3>1
  <2>2. k \in 0..N
    BY <1>1
  <2> QED BY <2>1, <2>2
<1>15. N \in R /\ 0 \in 0..N /\ 0 >= N - N
  <2>1. N \in 0..N /\ 0 \in 0..N /\ 0 >= N - N
    BY <1>1
  <2> HIDE DEF R
  <2>2. \A k \in 0..N : k \in R
    BY <1>1, <1>13, <1>14, Induction
  <2> QED BY <2>1, <2>2
<1>16. under[0] \in S
  BY <1>15
<1> QED BY <1>2, <1>16 DEF S

StampTree(y, t, scope, visits) == Chain(LAMBDA a, path : StampInstance(a, t, scope, path), y, visits)
\* The tree of a template
LEMMA StampTreeKeeps ==
  ASSUME NEW y \in Txs, NEW t, IsTemplate(t), NEW scope \in 0..Len(y.places), NEW visits \in Seq(VisitPaths(t))
  PROVE  StampTree(y, t, scope, visits) \in After(y)
<1> DEFINE s == visits
           n == Len(s)
           X == After(y)
           h == [k \in 1..n |-> [z \in X |-> StampInstance(z, t, scope, s[k])]]
           Body(d) == [k \in 0..n |-> IF k = 0 THEN y
                          ELSE LET before == d[k - 1] IN IF before.failed THEN before ELSE StampInstance(before, t, scope, s[k])]
           run == CHOOSE d : d = Body(d)
<1>1. n \in Nat /\ \A k \in 1..n : s[k] \in VisitPaths(t)
  BY Sequence
<1>2. ASSUME NEW k \in 1..n, NEW z \in X PROVE StampInstance(z, t, scope, s[k]) \in X
  <2>1. z \in Txs /\ z \in TxRows /\ y \in TxRows /\ Longer(y.places, z.places)
    BY DEF After, Txs, Extends
  <2>2. Len(y.places) \in Nat /\ Len(z.places) \in Nat
    BY <2>1, LenProperties DEF TxRows
  <2>3. scope \in 0..Len(z.places)
    BY <2>1, <2>2 DEF Longer
  <2>4. StampInstance(z, t, scope, s[k]) \in After(z)
    BY <1>1, <2>1, <2>3, StampInstanceKeeps
  <2> QED BY <2>4, AfterAgain
<1>3. StampTree(y, t, scope, visits) = run[n]
  BY DEF StampTree, Chain
<1>4. y \in X
  BY AfterItself
<1> HIDE DEF X, s, n
<1>5. h \in [1..n -> [X -> X]] /\ \A k \in 1..n, z \in X : h[k][z] = StampInstance(z, t, scope, s[k])
  BY <1>2
<1> HIDE DEF h
<1>6. PICK f : IsRun(f, n, X, y, h)
  BY <1>1, <1>4, <1>5, RunExists
<1>7. f = Body(f)
  <2>1. \A k \in 1..n : f[k - 1] \in X
    BY <1>1, <1>6, NumbersUpTo DEF IsRun
  <2>2. \A k \in 0..n : k = 0 \/ k \in 1..n
    BY <1>1
  <2>3. f = [k \in 0..n |-> f[k]]
    BY <1>6 DEF IsRun
  <2> QED BY <1>5, <1>6, <2>1, <2>2, <2>3 DEF IsRun
<1>8. run = Body(run)
  <2> HIDE DEF Body
  <2> QED BY <1>7
<1> HIDE DEF run
<1>9. run[0] = y /\ \A k \in 1..n : run[k] = IF run[k - 1].failed THEN run[k - 1] ELSE StampInstance(run[k - 1], t, scope, s[k])
  <2>1. 0 \in 0..n /\ \A k \in 1..n : k \in 0..n /\ k # 0
    BY <1>1
  <2> QED BY <1>8, <2>1
<1>10. \A k \in 0..n : run[k] \in X
  <2>1. \A k \in 1..n : run[k - 1] \in X => run[k] \in X
    BY <1>2, <1>9
  <2> QED BY <1>1, <1>4, <1>9, <2>1, Steps
<1> QED BY <1>1, <1>3, <1>10, NumbersUpTo DEF X

StampConnections(y, connections) == Chain(StampConnection, y, connections)
\* The connections of a template
LEMMA StampConnectionsKeeps ==
  ASSUME NEW y \in Txs, NEW C, NEW connections \in Seq(C)
  PROVE  StampConnections(y, connections) \in After(y)
<1> DEFINE s == connections
           n == Len(s)
           X == After(y)
           h == [k \in 1..n |-> [z \in X |-> StampConnection(z, s[k])]]
           Body(d) == [k \in 0..n |-> IF k = 0 THEN y
                          ELSE LET before == d[k - 1] IN IF before.failed THEN before ELSE StampConnection(before, s[k])]
           run == CHOOSE d : d = Body(d)
<1>1. n \in Nat
  BY Sequence
<1>2. ASSUME NEW k \in 1..n, NEW z \in X PROVE StampConnection(z, s[k]) \in X
  <2>1. z \in Txs
    BY DEF After
  <2>2. StampConnection(z, s[k]) \in After(z)
    BY <2>1, StampConnectionKeeps
  <2> QED BY <2>2, AfterAgain
<1>3. StampConnections(y, connections) = run[n]
  BY DEF StampConnections, Chain
<1>4. y \in X
  BY AfterItself
<1> HIDE DEF X, s, n
<1>5. h \in [1..n -> [X -> X]] /\ \A k \in 1..n, z \in X : h[k][z] = StampConnection(z, s[k])
  BY <1>2
<1> HIDE DEF h
<1>6. PICK f : IsRun(f, n, X, y, h)
  BY <1>1, <1>4, <1>5, RunExists
<1>7. f = Body(f)
  <2>1. \A k \in 1..n : f[k - 1] \in X
    BY <1>1, <1>6, NumbersUpTo DEF IsRun
  <2>2. \A k \in 0..n : k = 0 \/ k \in 1..n
    BY <1>1
  <2>3. f = [k \in 0..n |-> f[k]]
    BY <1>6 DEF IsRun
  <2> QED BY <1>5, <1>6, <2>1, <2>2, <2>3 DEF IsRun
<1>8. run = Body(run)
  <2> HIDE DEF Body
  <2> QED BY <1>7
<1> HIDE DEF run
<1>9. run[0] = y /\ \A k \in 1..n : run[k] = IF run[k - 1].failed THEN run[k - 1] ELSE StampConnection(run[k - 1], s[k])
  <2>1. 0 \in 0..n /\ \A k \in 1..n : k \in 0..n /\ k # 0
    BY <1>1
  <2> QED BY <1>8, <2>1
<1>10. \A k \in 0..n : run[k] \in X
  <2>1. \A k \in 1..n : run[k - 1] \in X => run[k] \in X
    BY <1>2, <1>9
  <2> QED BY <1>1, <1>4, <1>9, <2>1, Steps
<1> QED BY <1>1, <1>3, <1>10, NumbersUpTo DEF X

\* A quantity is a number, whatever the variables say.
LEMMA QuantityIsNumber ==
  ASSUME NEW t, IsTemplate(t), NEW v, \A x \in DOMAIN v : v[x] \in Int \cup {NotANumber}, NEW c \in DOMAIN t.nodes
  PROVE  Quantity(t.nodes[c], v) \in Int
<1> DEFINE node == t.nodes[c]
<1>1. node.quantity \in Int
  BY DEF IsTemplate, IsNode
<1>2. CASE node.expr \in DOMAIN v /\ v[node.expr] # NotANumber
  <2>1. v[node.expr] \in Int
    BY <1>2
  <2> QED BY <1>2, <2>1 DEF Quantity
<1>3. CASE ~(node.expr \in DOMAIN v /\ v[node.expr] # NotANumber)
  BY <1>1, <1>3 DEF Quantity
<1> QED BY <1>2, <1>3

\* A stamp leaves everything that was there where it was.
LEMMA StampAdds ==
  ASSUME NEW w \in WorldRows, NEW t, IsTemplate(t), NEW scope \in 0..Len(w.places),
         NEW variables, \A x \in DOMAIN variables : variables[x] \in Int \cup {NotANumber}
  PROVE  LET tx == StampSpatialTemplate(w, t, scope, variables)
         IN  tx \in Txs /\ Longer(w.places, tx.places) /\ Longer(w.racks, tx.racks) /\ Longer(w.devices, tx.devices)
<1> DEFINE x == [places |-> w.places, racks |-> w.racks, devices |-> w.devices, cables |-> w.cables,
                 under |-> <<>>, registry |-> {}, failed |-> FALSE]
           chosen == [v \in DOMAIN variables \cup DOMAIN t.defaults |->
                          IF v \in DOMAIN variables THEN variables[v] ELSE t.defaults[v]]
           tree == StampTree(x, t, scope, Visits(t, chosen))
           tx == StampConnections(tree, t.connections)
<1>1. x \in Txs
  <2>1. /\ w.places \in Seq(PlaceRows) /\ w.racks \in Seq(RackRows) /\ w.devices \in Seq(DeviceRows)
        /\ w.cables \in SUBSET [a : Ends, b : Ends]
    BY DEF WorldRows
  <2>2. <<>> \in UNION {[S -> Nat] : S \in SUBSET Paths} /\ DOMAIN <<>> = {}
    <3>1. <<>> \in [{} -> Nat] /\ {} \in SUBSET Paths
      OBVIOUS
    <3>2. \A g : g \in [{} -> Nat] => g \in UNION {[S -> Nat] : S \in SUBSET Paths}
      BY <3>1
    <3>3. DOMAIN <<>> = {}
      OBVIOUS
    <3> QED BY <3>1, <3>2, <3>3
  <2>3. x \in TxRows
    BY <2>1, <2>2 DEF TxRows
  <2>4. IsFiniteSet({})
    BY FS_EmptySet
  <2> QED BY <2>2, <2>3, <2>4 DEF Txs, NotedOnce, NotedPlaces, NotedDevices
<1>2. \A v \in DOMAIN chosen : chosen[v] \in Int \cup {NotANumber}
  BY DEF IsTemplate
<1> HIDE DEF chosen
<1>3. Visits(t, chosen) \in Seq(VisitPaths(t))
  BY <1>2, QuantityIsNumber, VisitsAreVisits
<1>4. x.places = w.places /\ x.racks = w.racks /\ x.devices = w.devices
  OBVIOUS
<1> HIDE DEF x
<1>5. tree \in After(x)
  BY <1>1, <1>3, <1>4, StampTreeKeeps
<1>6. tree \in Txs
  BY <1>5 DEF After
<1> HIDE DEF tree
<1>7. tx \in After(tree)
  <2> DEFINE cs == t.connections
  <2>1. cs \in Seq(Range(cs))
    BY DEF IsTemplate
  <2> HIDE DEF cs
  <2>2. StampConnections(tree, cs) \in After(tree)
    BY <1>6, <2>1, StampConnectionsKeeps
  <2> QED BY <2>2 DEF cs
<1>8. tx \in After(x)
  BY <1>1, <1>5, <1>7, AfterAgain
<1>9. StampSpatialTemplate(w, t, scope, variables) = tx
  BY DEF StampSpatialTemplate, StampConnections, StampTree, tree, chosen, x
<1> HIDE DEF tx
<1>10. tx \in Txs /\ Longer(w.places, tx.places) /\ Longer(w.racks, tx.racks) /\ Longer(w.devices, tx.devices)
  BY <1>4, <1>8 DEF After, Extends
<1> QED BY <1>9, <1>10

-----------------------------------------------------------------------------
(* A coordinate survives the way to the canvas and back in every unit; the  *)
(* way from the canvas and back does not (a foot is 30.48 pixels).          *)

(* Rounding always has a result. *)
LEMMA NearestExists ==
    ASSUME NEW n \in Int, NEW d \in {1, 10, 125, 381}
    PROVE  Nearest(n, d) # {} /\ Nearest(n, d) \subseteq Int
<1> DEFINE q == (2 * n + d) \div (2 * d)
<1>1. q \in Int /\ 2 * n <= 2 * q * d + d /\ 2 * q * d - d <= 2 * n
  <2>1. CASE d = 1
    BY <2>1
  <2>2. CASE d = 10
    BY <2>2
  <2>3. CASE d = 125
    BY <2>3
  <2>4. CASE d = 381
    BY <2>4
  <2> QED BY <2>1, <2>2, <2>3, <2>4
<1> QED BY <1>1 DEF Nearest

(* What the bridge writes to the canvas for a placement it reads back as    *)
(* that placement, for every coordinate and every unit: synchronising and   *)
(* reconciling without an edit in between moves nothing                     *)
(* (_canvas_coordinate, _placement_coordinate).                             *)
THEOREM RoundTrip ==
    ASSUME NEW v \in Int, NEW unit \in Units, NEW c \in CanvasCoordinates(v, unit)
    PROVE  PlacementCoordinates(c, unit) = {v}
<1>1. CASE unit = "meters"
  <2>1. c \in Int /\ c = 10 * v
    BY <1>1 DEF CanvasCoordinates, Nearest, Numerator, Denominator
  <2>2. (2 * c + 10) \div 20 = v
    BY <2>1
  <2> QED BY <1>1, <2>1, <2>2 DEF PlacementCoordinates, Nearest, Numerator, Denominator
<1>2. CASE unit = "feet"
  <2>1. c \in Int /\ 762 * v <= 250 * c + 125 /\ 250 * c - 125 <= 762 * v
    BY <1>2 DEF CanvasCoordinates, Nearest, Numerator, Denominator
  <2>2. (2 * (c * 125) + 381) \div 762 = v
    BY <2>1
  <2> QED BY <1>2, <2>1, <2>2 DEF PlacementCoordinates, Nearest, Numerator, Denominator
<1>3. CASE unit = "rack_units"
  <2>1. c \in Int /\ c = v
    BY <1>3 DEF CanvasCoordinates, Nearest, Numerator, Denominator
  <2>2. (2 * c + 1) \div 2 = v
    BY <2>1
  <2> QED BY <1>3, <2>1, <2>2 DEF PlacementCoordinates, Nearest, Numerator, Denominator
<1> QED BY <1>1, <1>2, <1>3 DEF Units

(* A placement always has a place on the canvas. *)
THEOREM EveryPlacementIsDrawn ==
    ASSUME NEW v \in Int, NEW unit \in Units
    PROVE  CanvasCoordinates(v, unit) # {} /\ CanvasCoordinates(v, unit) \subseteq Int
<1>1. v * Numerator(unit) \in Int /\ Denominator(unit) \in {1, 125}
  BY DEF Units, Numerator, Denominator
<1> QED BY <1>1, NearestExists DEF CanvasCoordinates

-----------------------------------------------------------------------------
(* The racks of a stamp on a canvas                                         *)

\* Racks are drawn at places.
Drawings == [rack : Nat, at : Int]

\* The object of a rack is the first that names it, if any does.
LEMMA FirstObject ==
  ASSUME NEW o \in Seq(Objects), NEW rack
  PROVE  /\ RackObjectIndex(o, rack) = 0 => \A i \in 1..Len(o) : o[i].rack # rack
         /\ RackObjectIndex(o, rack) # 0 => RackObjectIndex(o, rack) \in 1..Len(o) /\ o[RackObjectIndex(o, rack)].rack = rack
<1> DEFINE S == ObjectsOf(o, rack)
           c == CHOOSE i \in S : \A k \in S : i <= k
<1>1. Len(o) \in Nat /\ DOMAIN o = 1..Len(o)
  BY Sequence
<1>2. S = {i \in 1..Len(o) : o[i].rack = rack}
  BY <1>1 DEF ObjectsOf
<1>3. RackObjectIndex(o, rack) = IF S = {} THEN 0 ELSE c
  BY DEF RackObjectIndex
<1>4. ASSUME S # {} PROVE c \in S
  <2>1. S \in SUBSET Nat
    BY <1>1, <1>2
  <2> HIDE DEF S
  <2>2. \E i \in S : \A k \in S : i <= k
    <3> DEFINE R == {p \in Nat \X Nat : p[1] < p[2]}
    <3>1. IsWellFoundedOn(R, Nat)
      BY NatLessThanWellFounded DEF OpToRel
    <3>2. \A i, k \in Nat : k < i => <<k, i>> \in R
      OBVIOUS
    <3> HIDE DEF R
    <3>3. PICK i \in S : \A k \in S : <<k, i>> \notin R
      BY <1>4, <2>1, <3>1, WFMin
    <3>4. ASSUME NEW k \in S PROVE i <= k
      <4>1. i \in Nat /\ k \in Nat /\ ~(k < i)
        BY <2>1, <3>2, <3>3
      <4> QED BY <4>1
    <3> QED BY <3>4
  <2> QED BY <2>2
<1> HIDE DEF c
<1>5. CASE S = {}
  BY <1>2, <1>3, <1>5
<1>6. CASE S # {}
  <2>1. c \in 1..Len(o) /\ o[c].rack = rack /\ c # 0
    BY <1>1, <1>2, <1>4, <1>6
  <2> QED BY <1>3, <1>6, <2>1
<1> QED BY <1>5, <1>6

\* One rack drawn: every other object stays, and its own is where it should
\* be unless an operator keeps it.
OneDrawn(o, d, force, y) ==
  /\ y \in Seq(Objects) /\ Len(o) <= Len(y)
  /\ \A i \in 1..Len(o) : o[i].rack # d.rack => y[i] = o[i]
  /\ \A i \in 1..Len(y) : y[i].rack = d.rack \/ (i \in 1..Len(o) /\ y[i] = o[i])
  /\ \E i \in 1..Len(y) : y[i].rack = d.rack
  /\ (\A i, k \in 1..Len(o) : o[i].rack = d.rack /\ o[k].rack = d.rack => i = k) =>
        /\ \A i \in 1..Len(y) : y[i].rack = d.rack =>
                y[i].at = d.at \/ (i \in 1..Len(o) /\ y[i] = o[i] /\ ManualOverride(o[i]) /\ ~force)
        /\ \A i, k \in 1..Len(y) : y[i].rack = d.rack /\ y[k].rack = d.rack => i = k

\* One rack drawn (_upsert_rack_object)
LEMMA DrawRackDraws ==
  ASSUME NEW o \in Seq(Objects), NEW d \in Drawings, NEW force \in BOOLEAN
  PROVE  OneDrawn(o, d, force, DrawRack(o, d.rack, d.at, force))
<1> DEFINE new == Serialize(d.rack, d.at)
           n == Len(o)
           j == RackObjectIndex(o, d.rack)
           y == DrawRack(o, d.rack, d.at, force)
<1>1. n \in Nat /\ DOMAIN o = 1..n /\ \A i \in 1..n : o[i] \in Objects
  BY Sequence
<1>2. new \in Objects /\ new.rack = d.rack /\ new.at = d.at
  <2>1. d.rack \in Nat /\ d.at \in Int
    BY DEF Drawings
  <2> QED BY <2>1 DEF Serialize, Objects
<1>3. /\ j = 0 => \A i \in 1..n : o[i].rack # d.rack
      /\ j # 0 => j \in 1..n /\ o[j].rack = d.rack
  BY FirstObject
<1>4. y = IF j = 0 THEN Append(o, new) ELSE IF ~force /\ ManualOverride(o[j]) THEN o ELSE [o EXCEPT ![j] = Merge(@, new)]
  BY DEF DrawRack
<1> HIDE DEF new, n, j, y
<1>5. CASE j = 0
  <2>1. /\ y \in Seq(Objects) /\ Len(y) = n + 1 /\ y[n + 1] = new
        /\ \A i \in 1..n : y[i] = o[i]
    BY <1>2, <1>4, <1>5, Appended DEF n
  <2>2. \A i \in 1..Len(y) : i = n + 1 \/ i \in 1..n
    BY <1>1, <2>1
  <2>3. n + 1 \in 1..Len(y) /\ n <= Len(y)
    BY <1>1, <2>1
  <2>4. \A i \in 1..Len(y) : y[i].rack = d.rack => i = n + 1
    BY <1>3, <1>5, <2>1, <2>2
  <2> QED BY <1>2, <1>3, <1>5, <2>1, <2>2, <2>3, <2>4 DEF OneDrawn, n, y
<1>6. CASE j # 0 /\ ~force /\ ManualOverride(o[j])
  <2>1. y = o /\ j \in 1..n /\ o[j].rack = d.rack
    BY <1>3, <1>4, <1>6
  <2> QED BY <1>1, <1>6, <2>1 DEF OneDrawn, n, y
<1>7. CASE j # 0 /\ ~(~force /\ ManualOverride(o[j]))
  <2> DEFINE e == Merge(o[j], new)
  <2>1. j \in 1..n /\ o[j].rack = d.rack /\ y = [o EXCEPT ![j] = e]
    BY <1>3, <1>4, <1>7
  <2>2. e \in Objects /\ e.rack = d.rack /\ e.at = d.at
    <3>1. e = [new EXCEPT !.pins = o[j].pins \cap {"manual_override"}]
      BY DEF Merge
    <3>2. o[j].pins \cap {"manual_override"} \in SUBSET Flags
      BY DEF Flags
    <3> HIDE DEF e
    <3> QED BY <1>2, <3>1, <3>2 DEF Objects
  <2> HIDE DEF e
  <2>3. y \in [1..n -> Objects] /\ y[j] = e /\ \A i \in 1..n : i # j => y[i] = o[i]
    BY <1>1, <2>1, <2>2
  <2>4. y \in Seq(Objects) /\ Len(y) = n
    BY <1>1, <2>3, IsSequence
  <2>5. \A i \in 1..n : y[i].rack = o[i].rack
    BY <2>1, <2>2, <2>3
  <2>6. n <= Len(y)
    BY <1>1, <2>4
  <2> QED BY <2>1, <2>2, <2>3, <2>4, <2>5, <2>6 DEF OneDrawn, n, y
<1> QED BY <1>5, <1>6, <1>7

IsDrawing(f, o, drawn, force) ==
  /\ f[0] = o
  /\ \A k \in 1..Len(drawn) : f[k] = DrawRack(f[k - 1], drawn[k].rack, drawn[k].at, force)

\* The racks of a stamp are drawn one after the other.
LEMMA DrawingUnfolds ==
  ASSUME NEW o \in Seq(Objects), NEW drawn \in Seq(Drawings), NEW force \in BOOLEAN
  PROVE  \E f : IsDrawing(f, o, drawn, force) /\ DrawRacks(o, drawn, force) = f[Len(drawn)]
<1> DEFINE n == Len(drawn)
           X == Seq(Objects)
           Draw(y, k) == DrawRack(y, drawn[k].rack, drawn[k].at, force)
           h == [k \in 1..n |-> [y \in X |-> Draw(y, k)]]
           Body(f) == [k \in 0..n |-> IF k = 0 THEN o ELSE Draw(f[k - 1], k)]
<1>1. n \in Nat /\ \A k \in 1..n : drawn[k] \in Drawings
  BY Sequence
<1>2. h \in [1..n -> [X -> X]]
  <2>1. \A k \in 1..n, y \in X : Draw(y, k) \in X
    BY <1>1, DrawRackDraws DEF OneDrawn
  <2> HIDE DEF X, n, Draw
  <2> QED BY <2>1
<1>3. PICK f : Unfolds(f, n, X, o, h)
  <2> HIDE DEF h, X, n
  <2> QED BY <1>1, <1>2, Recursion DEF X
<1>4. f \in [0..n -> X] /\ f[0] = o /\ \A k \in 1..n : f[k] = Draw(f[k - 1], k)
  <2>1. \A k \in 1..n : k - 1 \in 0..n
    BY <1>1, NumbersUpTo
  <2>2. \A k \in 1..n, y \in X : h[k][y] = Draw(y, k)
    OBVIOUS
  <2> HIDE DEF h, X, n, Draw
  <2> QED BY <1>3, <2>1, <2>2 DEF Unfolds
<1>5. f = Body(f)
  <2>1. \A k \in 0..n : k = 0 \/ k \in 1..n
    BY <1>1
  <2>2. f = [k \in 0..n |-> f[k]]
    BY <1>4
  <2> HIDE DEF h, X, n, Draw
  <2> QED BY <1>4, <2>1, <2>2
<1> DEFINE c == CHOOSE d : d = Body(d)
<1>6. c = Body(c)
  <2> HIDE DEF Body
  <2> QED BY <1>5
<1>7. DrawRacks(o, drawn, force) = c[n]
  BY DEF DrawRacks
<1>8. IsDrawing(c, o, drawn, force)
  <2>1. \A k \in 1..n : k \in 0..n /\ k # 0
    BY <1>1
  <2>2. 0 \in 0..n
    BY <1>1
  <2> HIDE DEF c
  <2> QED BY <1>6, <2>1, <2>2 DEF IsDrawing
<1> QED BY <1>7, <1>8

\* The first k racks drawn
AllDrawn(o, drawn, force, k, y) ==
  /\ y \in Seq(Objects) /\ Len(o) <= Len(y)
  /\ \A i \in 1..Len(o) : (\A j \in 1..k : drawn[j].rack # o[i].rack) => y[i] = o[i]
  /\ \A i \in 1..Len(y) : (\E j \in 1..k : drawn[j].rack = y[i].rack) \/ (i \in 1..Len(o) /\ y[i] = o[i])
  /\ \A j \in 1..k :
        /\ \E i \in 1..Len(y) : y[i].rack = drawn[j].rack
        /\ \A i \in 1..Len(y) : y[i].rack = drawn[j].rack =>
                y[i].at = drawn[j].at \/ (i \in 1..Len(o) /\ y[i] = o[i] /\ ManualOverride(o[i]) /\ ~force)
        /\ \A i, m \in 1..Len(y) : y[i].rack = drawn[j].rack /\ y[m].rack = drawn[j].rack => i = m

\* After all racks of a stamp are drawn, every one has the object it should
\* have, and the objects of other racks are as they were.
LEMMA DrawRacksDraws ==
  ASSUME NEW o \in Seq(Objects), NEW drawn \in Seq(Drawings), NEW force \in BOOLEAN,
         \A i, k \in DOMAIN drawn : drawn[i].rack = drawn[k].rack => i = k,
         \A k \in DOMAIN drawn : Once(o, drawn[k].rack)
  PROVE  AllDrawn(o, drawn, force, Len(drawn), DrawRacks(o, drawn, force))
<1> DEFINE n == Len(drawn)
<1>1. n \in Nat /\ DOMAIN drawn = 1..n /\ \A k \in 1..n : drawn[k] \in Drawings
  BY Sequence
<1>2. Len(o) \in Nat /\ DOMAIN o = 1..Len(o)
  BY Sequence
<1>3. PICK f : IsDrawing(f, o, drawn, force) /\ DrawRacks(o, drawn, force) = f[n]
  BY DrawingUnfolds
<1> DEFINE T == {k \in 0..n : AllDrawn(o, drawn, force, k, f[k])}
<1>4. 0 \in T
  <2>1. f[0] = o
    BY <1>3 DEF IsDrawing
  <2>2. AllDrawn(o, drawn, force, 0, o)
    BY <1>2 DEF AllDrawn
  <2>3. 0 \in 0..n
    BY <1>1
  <2> QED BY <2>1, <2>2, <2>3
<1>5. ASSUME NEW k \in 1..n, k - 1 \in T PROVE k \in T
  <2> DEFINE x == f[k - 1]  y == f[k]  d == drawn[k]
  <2>1. AllDrawn(o, drawn, force, k - 1, x)
    BY <1>5
  <2>2. x \in Seq(Objects) /\ d \in Drawings /\ y = DrawRack(x, d.rack, d.at, force)
    BY <1>1, <1>3, <2>1 DEF IsDrawing, AllDrawn
  <2>3. OneDrawn(x, d, force, y)
    BY <2>2, DrawRackDraws
  <2>4. k \in Nat /\ k - 1 \in Nat /\ \A j \in 1..k : j = k \/ j \in 1..(k - 1)
    BY <1>1
  <2>5. \A j \in 1..(k - 1) : j \in 1..k /\ drawn[j].rack # d.rack
    BY <1>1, <2>4
  <2>6. k \in 1..k /\ k \in 1..n /\ k \in 0..n
    BY <1>1, <2>4
  <2>7. y \in Seq(Objects) /\ Len(x) \in Nat /\ Len(y) \in Nat /\ Len(x) <= Len(y) /\ Len(o) <= Len(x)
    BY <2>1, <2>2, <2>3, LenProperties DEF OneDrawn, AllDrawn
  <2> HIDE DEF x, y
  <2>8. \A i, m \in 1..Len(x) : x[i].rack = d.rack /\ x[m].rack = d.rack => i = m
    <3>1. ASSUME NEW i \in 1..Len(x), x[i].rack = d.rack PROVE i \in 1..Len(o) /\ x[i] = o[i]
      <4>1. ~\E j \in 1..(k - 1) : drawn[j].rack = x[i].rack
        BY <2>5, <3>1
      <4> QED BY <2>1, <4>1 DEF AllDrawn
    <3>2. \A i, m \in 1..Len(o) : o[i].rack = d.rack /\ o[m].rack = d.rack => i = m
      BY <1>1, <1>2, <2>6 DEF Once
    <3> QED BY <3>1, <3>2
  <2>9. \A i \in 1..Len(o) : (\A j \in 1..k : drawn[j].rack # o[i].rack) => y[i] = o[i]
    <3> SUFFICES ASSUME NEW i \in 1..Len(o), \A j \in 1..k : drawn[j].rack # o[i].rack PROVE y[i] = o[i]
      OBVIOUS
    <3>1. x[i] = o[i]
      BY <2>1, <2>5 DEF AllDrawn
    <3>2. i \in 1..Len(x) /\ x[i].rack # d.rack
      BY <1>2, <2>6, <2>7, <3>1
    <3> QED BY <2>3, <3>1, <3>2 DEF OneDrawn
  <2>10. \A i \in 1..Len(y) : (\E j \in 1..k : drawn[j].rack = y[i].rack) \/ (i \in 1..Len(o) /\ y[i] = o[i])
    <3> SUFFICES ASSUME NEW i \in 1..Len(y), y[i].rack # d.rack
                 PROVE  (\E j \in 1..k : drawn[j].rack = y[i].rack) \/ (i \in 1..Len(o) /\ y[i] = o[i])
      BY <2>6
    <3>1. i \in 1..Len(x) /\ y[i] = x[i]
      BY <2>3 DEF OneDrawn
    <3> QED BY <2>1, <2>5, <3>1 DEF AllDrawn
  <2>11. ASSUME NEW j \in 1..k
         PROVE  /\ \E i \in 1..Len(y) : y[i].rack = drawn[j].rack
                /\ \A i \in 1..Len(y) : y[i].rack = drawn[j].rack =>
                        y[i].at = drawn[j].at \/ (i \in 1..Len(o) /\ y[i] = o[i] /\ ManualOverride(o[i]) /\ ~force)
                /\ \A i, m \in 1..Len(y) : y[i].rack = drawn[j].rack /\ y[m].rack = drawn[j].rack => i = m
    <3>1. CASE j = k
      <4>1. \E i \in 1..Len(y) : y[i].rack = d.rack
        BY <2>3 DEF OneDrawn
      <4>2. \A i, m \in 1..Len(y) : y[i].rack = d.rack /\ y[m].rack = d.rack => i = m
        BY <2>3, <2>8 DEF OneDrawn
      <4>3. ASSUME NEW i \in 1..Len(y), y[i].rack = d.rack
            PROVE  y[i].at = d.at \/ (i \in 1..Len(o) /\ y[i] = o[i] /\ ManualOverride(o[i]) /\ ~force)
        <5>1. y[i].at = d.at \/ (i \in 1..Len(x) /\ y[i] = x[i] /\ ManualOverride(x[i]) /\ ~force)
          BY <2>3, <2>8, <4>3 DEF OneDrawn
        <5>2. ASSUME i \in 1..Len(x), y[i] = x[i] PROVE i \in 1..Len(o) /\ x[i] = o[i]
          BY <2>1, <2>5, <4>3, <5>2 DEF AllDrawn
        <5> QED BY <5>1, <5>2
      <4> QED BY <3>1, <4>1, <4>2, <4>3
    <3>2. CASE j # k
      <4>1. j \in 1..(k - 1) /\ drawn[j].rack # d.rack
        BY <2>4, <2>5, <3>2
      <4>2. \A i \in 1..Len(y) : y[i].rack = drawn[j].rack => i \in 1..Len(x) /\ y[i] = x[i]
        BY <2>3, <4>1 DEF OneDrawn
      <4>3. PICK i \in 1..Len(x) : x[i].rack = drawn[j].rack
        BY <2>1, <4>1 DEF AllDrawn
      <4>4. i \in 1..Len(y) /\ y[i] = x[i]
        BY <2>3, <2>7, <4>1, <4>3 DEF OneDrawn
      <4>5. /\ \A l \in 1..Len(x) : x[l].rack = drawn[j].rack =>
                    x[l].at = drawn[j].at \/ (l \in 1..Len(o) /\ x[l] = o[l] /\ ManualOverride(o[l]) /\ ~force)
            /\ \A l, m \in 1..Len(x) : x[l].rack = drawn[j].rack /\ x[m].rack = drawn[j].rack => l = m
        BY <2>1, <4>1 DEF AllDrawn
      <4> QED BY <4>2, <4>3, <4>4, <4>5
    <3> QED BY <3>1, <3>2
  <2>12. Len(o) <= Len(y)
    BY <1>2, <2>7
  <2>13. AllDrawn(o, drawn, force, k, y)
    BY <2>7, <2>9, <2>10, <2>11, <2>12 DEF AllDrawn
  <2> QED BY <2>6, <2>13 DEF y
<1>6. n \in T
  <2> HIDE DEF T, n
  <2>1. \A k \in 0..n : k \in T
    BY <1>1, <1>4, <1>5, Induction
  <2> QED BY <1>1, <2>1, NumbersUpTo
<1> QED BY <1>3, <1>6

-----------------------------------------------------------------------------
(* One operation moves on                                                   *)

DrawJobs == [op : {"draw"}, scope : Scopes, force : BOOLEAN, racks : Seq([rack : Nat, from : Int])]
SaveJobs == [op : {"save"}, scope : Scopes, force : BOOLEAN, drawn : Seq(Drawings), read : Seq(Objects), new : Seq(Objects)]
ReconcileJobs == [op : {"reconcile"}, scope : Scopes, create : BOOLEAN, objects : Seq(Objects)]
BreakoutJobs == [op : {"breakout", "children"}, devices : Seq(Nat), left : Seq(Nat), specs : {r.specs : r \in BreakoutRuns},
                 children : Seq(Ports)]
EditJobs == [op : {"edit"}, scope : Scopes, objects : Seq(Objects)]

\* The operations under way, by kind
LEMMA JobsAre == Jobs = {Idle} \cup DrawJobs \cup SaveJobs \cup ReconcileJobs \cup BreakoutJobs \cup EditJobs
BY DEF Jobs, DrawJobs, SaveJobs, ReconcileJobs, BreakoutJobs, EditJobs, Drawings

\* The name of an operation tells its kind.
LEMMA JobShape ==
  ASSUME NEW j \in Jobs
  PROVE  /\ j.op = "draw" => j \in DrawJobs
         /\ j.op = "save" => j \in SaveJobs
         /\ j.op = "reconcile" => j \in ReconcileJobs
         /\ j.op \in {"breakout", "children"} => j \in BreakoutJobs
         /\ j.op = "edit" => j \in EditJobs
<1>1. Idle.op = "idle"
  BY DEF Idle
<1>2. /\ \A k \in DrawJobs : k.op = "draw"
      /\ \A k \in SaveJobs : k.op = "save"
      /\ \A k \in ReconcileJobs : k.op = "reconcile"
      /\ \A k \in BreakoutJobs : k.op \in {"breakout", "children"}
      /\ \A k \in EditJobs : k.op = "edit"
  BY DEF DrawJobs, SaveJobs, ReconcileJobs, BreakoutJobs, EditJobs
<1> QED BY <1>1, <1>2, JobsAre

\* A user goes on to a job, and the others stay where they are.
Moves(u, j) == (Begin(u, j) \/ Continue(u, j)) /\ Scopes' = Scopes

\* A step of one user leaves the operations of the others alone.
LEMMA MovesOn ==
  ASSUME LayoutTypeOK, NEW u \in Users, NEW j \in Jobs, Moves(u, j)
  PROVE  job' \in [Users -> Jobs] /\ job'[u] = j /\ (\A v \in Users : v # u => job'[v] = job[v]) /\ begun' \in 0..MaxOperations
<1>1. job' = [job EXCEPT ![u] = j] /\ job \in [Users -> Jobs]
  BY DEF Moves, Begin, Continue, LayoutTypeOK
<1>2. begun' \in 0..MaxOperations
  <2>1. begun \in 0..MaxOperations /\ MaxOperations \in Nat
    BY BoundsAssumption DEF LayoutTypeOK
  <2>2. begun' = begun \/ (begun' = begun + 1 /\ begun < MaxOperations)
    BY DEF Moves, Begin, Continue, MayBegin
  <2> QED BY <2>1, <2>2
<1> HIDE DEF Moves
<1> QED BY <1>1, <1>2

\* Types after a step
LEMMA TypeAfter ==
  ASSUME LayoutTypeOK, NEW u \in Users, NEW j \in Jobs, Moves(u, j), world' \in WorldRows, canvas' \in [Scopes -> Canvases]
  PROVE  LayoutTypeOK'
<1>1. job' \in [Users -> Jobs] /\ begun' \in 0..MaxOperations
  BY MovesOn
<1>2. Scopes' = Scopes /\ Scopes \subseteq Nat
  BY DEF Moves, LayoutTypeOK
<1>3. Jobs' = Jobs
  BY <1>2 DEF Jobs
<1> QED BY <1>1, <1>2, <1>3 DEF LayoutTypeOK

\* A step brings in no documents but those that are named.
LEMMA DocumentsAfter ==
  ASSUME LayoutTypeOK, NEW u \in Users, NEW j \in Jobs, Moves(u, j), NEW New,
         \A s \in Scopes : canvas'[s].objects \in Documents \cup New,
         j.op = "edit" => j.objects \in Documents \cup New,
         j.op = "save" => j.read \in Documents \cup New /\ j.new \in Documents \cup New
  PROVE  Documents' \subseteq Documents \cup New
<1>1. job'[u] = j /\ \A v \in Users : v # u => job'[v] = job[v]
  BY MovesOn
<1>2. Scopes' = Scopes
  BY DEF Moves
<1>3. ASSUME NEW v \in Users, v # u PROVE Copies(v)' \subseteq Documents
  <2>1. Copies(v)' = Copies(v)
    BY <1>1, <1>3 DEF Copies, Op
  <2> QED BY <2>1 DEF Documents
<1>4. Copies(u)' \subseteq Documents \cup New
  <2>1. CASE j.op = "edit"
    BY <1>1, <2>1 DEF Copies, Op
  <2>2. CASE j.op = "save"
    BY <1>1, <2>2 DEF Copies, Op
  <2>3. CASE j.op # "edit" /\ j.op # "save"
    <3>1. Copies(u)' = {}
      BY <1>1, <2>3 DEF Copies, Op
    <3> QED BY <3>1
  <2> QED BY <2>1, <2>2, <2>3
<1> HIDE DEF Moves
<1>5. Documents' = {canvas'[s].objects : s \in Scopes} \cup UNION {Copies(v)' : v \in Users}
  BY <1>2 DEF Documents
<1>6. \A s \in Scopes : canvas'[s].objects \in Documents \cup New
  OBVIOUS
<1>7. \A v \in Users : Copies(v)' \subseteq Documents \cup New
  BY <1>3, <1>4
<1> QED BY <1>5, <1>6, <1>7

\* What a job draws
Draws(j) == CASE j.op = "draw" -> {d.rack : d \in ToSet(j.racks)}
              [] j.op = "save" -> {d.rack : d \in ToSet(j.drawn)}
              [] OTHER -> {}

\* A step that takes up no rack and only brings in canvases with one object
\* for each rack that is being drawn
LEMMA DrawingsAfter ==
  ASSUME LInv, NEW u \in Users, NEW j \in Jobs, Moves(u, j), NEW New, Documents' \subseteq Documents \cup New,
         world' \in WorldRows, Len(world.racks) <= Len(world'.racks),
         \A o \in New : NamesRacks(o, Len(world'.racks)) /\ \A v \in Users : \A rack \in RacksOf(v) : Once(o, rack),
         Draws(j) \subseteq RacksOf(u)
  PROVE  RacksAreKnown' /\ DrawnOnce'
<1>1. job'[u] = j /\ \A v \in Users : v # u => job'[v] = job[v]
  BY MovesOn DEF LInv
<1>2. Len(world.racks) \in Nat /\ Len(world'.racks) \in Nat /\ DOMAIN world.racks \subseteq DOMAIN world'.racks
  <2>1. world \in WorldRows
    BY DEF LInv, LayoutTypeOK
  <2>2. world.racks \in Seq(RackRows) /\ world'.racks \in Seq(RackRows)
    BY <2>1 DEF WorldRows
  <2> DEFINE x == world.racks  y == world'.racks
  <2>3. x \in Seq(RackRows) /\ y \in Seq(RackRows) /\ Len(x) <= Len(y)
    BY <2>2
  <2> HIDE DEF x, y
  <2>4. Len(x) \in Nat /\ Len(y) \in Nat /\ DOMAIN x = 1..Len(x) /\ DOMAIN y = 1..Len(y)
    BY <2>3, Sequence
  <2>5. DOMAIN x \subseteq DOMAIN y
    BY <2>3, <2>4
  <2> QED BY <2>4, <2>5 DEF x, y
<1>3. RacksAreKnown'
  <2>1. ASSUME NEW o \in Documents PROVE NamesRacks(o, Len(world'.racks))
    <3>1. NamesRacks(o, Len(world.racks))
      BY DEF LInv, RacksAreKnown
    <3> QED BY <1>2, <3>1 DEF NamesRacks
  <2>2. \A o \in Documents' : NamesRacks(o, Len(world'.racks))
    BY <2>1
  <2> QED BY <2>2 DEF RacksAreKnown
<1>4. ASSUME NEW v \in Users, NEW rack \in RacksOf(v)' PROVE rack \in RacksOf(v)
  <2>1. CASE v = u
    <3>1. RacksOf(u)' = Draws(j)
      BY <1>1 DEF RacksOf, Op, Draws
    <3> QED BY <1>4, <2>1, <3>1
  <2>2. CASE v # u
    <3>1. RacksOf(v)' = RacksOf(v)
      BY <1>1, <2>2 DEF RacksOf, Op
    <3> QED BY <1>4, <3>1
  <2> QED BY <2>1, <2>2
<1>5. DrawnOnce'
  <2>1. ASSUME NEW v \in Users, NEW rack \in RacksOf(v)'
        PROVE  rack \in DOMAIN world'.racks /\ \A o \in Documents' : Once(o, rack)
    <3>1. rack \in RacksOf(v)
      BY <1>4
    <3>2. rack \in DOMAIN world.racks /\ \A o \in Documents : Once(o, rack)
      BY <3>1 DEF LInv, DrawnOnce
    <3> QED BY <1>2, <3>1, <3>2
  <2> QED BY <2>1 DEF DrawnOnce
<1> QED BY <1>3, <1>5

\* What is drawn after a step was drawn from what was read.
LEMMA DrawingOfAfter ==
  ASSUME LInv, NEW u \in Users, NEW j \in Jobs, Moves(u, j),
         j.op = "draw" => \A i, k \in DOMAIN j.racks : j.racks[i].rack = j.racks[k].rack => i = k,
         j.op = "save" => /\ \A i, k \in DOMAIN j.drawn : j.drawn[i].rack = j.drawn[k].rack => i = k
                          /\ j.new = DrawRacks(j.read, j.drawn, j.force)
  PROVE  DrawingInOrder'
<1>1. job'[u] = j /\ \A v \in Users : v # u => job'[v] = job[v]
  BY MovesOn DEF LInv
<1>2. DrawingOf(u)'
  BY <1>1 DEF DrawingOf, Op
<1>3. \A v \in Users : v # u => DrawingOf(v)'
  <2> SUFFICES ASSUME NEW v \in Users, v # u PROVE DrawingOf(v)'
    OBVIOUS
  <2>1. DrawingOf(v) /\ job'[v] = job[v]
    BY <1>1 DEF LInv, DrawingInOrder
  <2> QED BY <2>1 DEF DrawingOf, Op
<1> QED BY <1>2, <1>3 DEF DrawingInOrder

-----------------------------------------------------------------------------
(* Breakouts                                                                *)

\* A device keeps its interfaces and may get a child.
Grows(x, y) == y = x \/ \E e \in Ports : IsChild(e) /\ y = Append(x, e)
Grown == \A d \in DOMAIN world.devices : d \in DOMAIN world'.devices /\ Grows(world.devices[d].ports, world'.devices[d].ports)

\* An interface that is added is a child, so parents are never added and
\* children never lost.
LEMMA GrownPorts ==
  ASSUME NEW x \in Seq(Ports), NEW y, Grows(x, y)
  PROVE  /\ y \in Seq(Ports)
         /\ \A spec : HasParent(y, spec) => HasParent(x, spec)
         /\ \A name : HasChild(x, name) => HasChild(y, name)
<1>1. CASE y = x
  BY <1>1
<1>2. CASE \E e \in Ports : IsChild(e) /\ y = Append(x, e)
  <2>1. PICK e \in Ports : IsChild(e) /\ y = Append(x, e)
    BY <1>2
  <2>2. /\ y \in Seq(Ports) /\ Len(y) = Len(x) + 1 /\ \A i \in 1..Len(x) : y[i] = x[i]
        /\ y[Len(x) + 1] = e
    BY <2>1, Appended
  <2>3. Len(x) \in Nat /\ DOMAIN x = 1..Len(x) /\ DOMAIN y = 1..Len(y)
    BY <2>2, Sequence
  <2>4. \A i \in DOMAIN y : i \in DOMAIN x \/ i = Len(x) + 1
    BY <2>2, <2>3
  <2>5. \A i \in DOMAIN x : i \in DOMAIN y /\ y[i] = x[i]
    BY <2>2, <2>3
  <2>6. \A spec : HasParent(y, spec) => HasParent(x, spec)
    BY <2>1, <2>2, <2>4, <2>5 DEF HasParent
  <2>7. \A name : HasChild(x, name) => HasChild(y, name)
    BY <2>5 DEF HasChild
  <2> QED BY <2>2, <2>6, <2>7
<1> QED BY <1>1, <1>2 DEF Grows

\* The interfaces of a device are a sequence.
LEMMA DevicePorts ==
  ASSUME NEW w \in WorldRows, NEW d \in DOMAIN w.devices
  PROVE  w.devices[d] \in DeviceRows /\ w.devices[d].ports \in Seq(Ports) /\ d \in Nat /\ d \in 1..Len(w.devices)
<1> DEFINE s == w.devices
<1>1. s \in Seq(DeviceRows)
  BY DEF WorldRows
<1> HIDE DEF s
<1>2. Len(s) \in Nat /\ DOMAIN s = 1..Len(s) /\ \A i \in 1..Len(s) : s[i] \in DeviceRows
  BY <1>1, Sequence
<1>3. d \in 1..Len(s) /\ s[d] \in DeviceRows
  BY <1>2 DEF s
<1>4. s[d].ports \in Seq(Ports)
  BY <1>3 DEF DeviceRows
<1> QED BY <1>2, <1>3, <1>4 DEF s

\* A device that has all its children keeps them.
LEMMA CompleteStays ==
  ASSUME world \in WorldRows, Grown, NEW d \in DOMAIN world.devices, NEW specs, Complete(d, specs)
  PROVE  Complete(d, specs)'
<1> DEFINE x == world.devices[d].ports  y == world'.devices[d].ports
<1>1. x \in Seq(Ports) /\ Grows(x, y)
  BY DevicePorts DEF Grown
<1>2. /\ \A spec : HasParent(y, spec) => HasParent(x, spec)
      /\ \A name : HasChild(x, name) => HasChild(y, name)
  <2> HIDE DEF x, y
  <2> QED BY <1>1, GrownPorts
<1> QED BY <1>2 DEF Complete

\* What is left to do for a device never becomes more.
LEMMA PendingStays ==
  ASSUME world \in WorldRows, Grown, NEW d \in DOMAIN world.devices, NEW specs, NEW children, Pending(d, specs, children)
  PROVE  Pending(d, specs, children)'
<1> DEFINE x == world.devices[d].ports  y == world'.devices[d].ports
<1>1. x \in Seq(Ports) /\ Grows(x, y)
  BY DevicePorts DEF Grown
<1>2. /\ \A spec : HasParent(y, spec) => HasParent(x, spec)
      /\ \A name : HasChild(x, name) => HasChild(y, name)
  <2> HIDE DEF x, y
  <2> QED BY <1>1, GrownPorts
<1> QED BY <1>2 DEF Pending

\* The breakouts of other users are not disturbed by a step.
LEMMA BreakoutsAfter ==
  ASSUME LInv, NEW u \in Users, NEW j \in Jobs, Moves(u, j), Grown, BreakoutOf(u)'
  PROVE  BreakoutInOrder'
<1>1. job'[u] = j /\ \A v \in Users : v # u => job'[v] = job[v]
  BY MovesOn DEF LInv
<1>2. ASSUME NEW v \in Users, v # u PROVE BreakoutOf(v)'
  <2>1. BreakoutOf(v) /\ job'[v] = job[v] /\ world \in WorldRows /\ job[v] \in Jobs
    BY <1>1, <1>2 DEF LInv, BreakoutInOrder, LayoutTypeOK
  <2>2. CASE Op(v) \in {"breakout", "children"}
    <3>1. DOMAIN world.devices \subseteq DOMAIN world'.devices
      BY DEF Grown
    <3>2. \A d \in ToSet(job[v].devices) : Complete(d, job[v].specs) => Complete(d, job[v].specs)'
      BY <2>1, <2>2, CompleteStays DEF BreakoutOf
    <3>3. Op(v) = "children" => Pending(Head(job[v].left), job[v].specs, job[v].children)'
      <4> SUFFICES ASSUME Op(v) = "children" PROVE Pending(Head(job[v].left), job[v].specs, job[v].children)'
        OBVIOUS
      <4>1. job[v] \in BreakoutJobs
        BY <2>1, <2>2, JobShape DEF Op
      <4> DEFINE left == job[v].left
      <4>2. left \in Seq(Nat) /\ left # <<>> /\ ToSet(left) \subseteq DOMAIN world.devices
        BY <2>1, <4>1 DEF BreakoutJobs, BreakoutOf
      <4>3. Head(left) \in ToSet(left)
        <5> HIDE DEF left
        <5>1. Len(left) \in Nat /\ Len(left) # 0 /\ DOMAIN left = 1..Len(left)
          BY <4>2, EmptySeq, Sequence
        <5>2. 1 \in DOMAIN left /\ Head(left) = left[1]
          BY <4>2, <5>1
        <5> QED BY <5>2 DEF ToSet
      <4>4. Pending(Head(left), job[v].specs, job[v].children)
        BY <2>1 DEF BreakoutOf
      <4> QED BY <2>1, <4>2, <4>3, <4>4, PendingStays
    <3>4. ToSet(job[v].devices) \subseteq DOMAIN world.devices
      BY <2>1, <2>2 DEF BreakoutOf
    <3> QED BY <2>1, <2>2, <3>1, <3>2, <3>3, <3>4 DEF BreakoutOf, Op
  <2>3. CASE Op(v) \notin {"breakout", "children"}
    BY <2>1, <2>3 DEF BreakoutOf, Op
  <2> QED BY <2>2, <2>3
<1> QED BY <1>2 DEF BreakoutInOrder

-----------------------------------------------------------------------------
(* What the invariant says of a state                                       *)

\* The types, one by one
LEMMA StateFacts ==
  ASSUME LInv
  PROVE  /\ world \in WorldRows /\ Scopes \subseteq Nat /\ canvas \in [Scopes -> Canvases]
         /\ \A s \in Scopes : canvas[s].objects \in Seq(Objects) /\ canvas[s].objects \in Documents
         /\ \A u \in Users : job[u] \in Jobs
<1>1. LayoutTypeOK
  BY DEF LInv
<1>2. world \in WorldRows /\ Scopes \subseteq Nat /\ canvas \in [Scopes -> Canvases] /\ \A u \in Users : job[u] \in Jobs
  BY <1>1 DEF LayoutTypeOK
<1>3. ASSUME NEW s \in Scopes PROVE canvas[s].objects \in Seq(Objects) /\ canvas[s].objects \in Documents
  <2>1. canvas[s] \in Canvases
    BY <1>2
  <2>2. canvas[s].objects \in Seq(Objects)
    BY <2>1 DEF Canvases
  <2> QED BY <2>2 DEF Documents
<1> QED BY <1>2, <1>3

\* The racks are a sequence.
LEMMA RackFacts ==
  ASSUME NEW w \in WorldRows
  PROVE  w.racks \in Seq(RackRows) /\ Len(w.racks) \in Nat /\ DOMAIN w.racks = 1..Len(w.racks)
<1> DEFINE s == w.racks
<1>1. s \in Seq(RackRows)
  BY DEF WorldRows
<1> HIDE DEF s
<1>2. Len(s) \in Nat /\ DOMAIN s = 1..Len(s)
  BY <1>1, Sequence
<1> QED BY <1>1, <1>2 DEF s

\* A step that leaves the database alone
LEMMA WorldStays ==
  ASSUME world \in WorldRows, world' = world
  PROVE  world' \in WorldRows /\ Len(world.racks) <= Len(world'.racks) /\ Grown
<1>1. Len(world.racks) \in Nat
  BY RackFacts
<1> QED BY <1>1 DEF Grown, Grows

\* The parts of the invariant that every step has in common
LEMMA Keeps ==
  ASSUME LInv, NEW u \in Users, NEW j \in Jobs, Moves(u, j),
         world' \in WorldRows, canvas' \in [Scopes -> Canvases], Grown,
         RacksAreKnown', DrawnOnce', DrawingInOrder', BreakoutOf(u)'
  PROVE  LInv'
<1>1. LayoutTypeOK'
  BY TypeAfter DEF LInv
<1>2. ScopesAreThere'
  BY DEF LInv, ScopesAreThere, Moves
<1>3. BreakoutInOrder'
  BY BreakoutsAfter
<1> QED BY <1>1, <1>2, <1>3 DEF LInv

\* Steps to a job that neither draws nor breaks out.
LEMMA PlainStepKeeps ==
  ASSUME LInv, NEW u \in Users, NEW j \in Jobs, Moves(u, j), j.op \notin {"draw", "save", "breakout", "children"},
         world' \in WorldRows, Len(world.racks) <= Len(world'.racks), Grown, canvas' \in [Scopes -> Canvases],
         NEW New,
         \A s \in Scopes : canvas'[s].objects \in Documents \cup New,
         j.op = "edit" => j.objects \in Documents \cup New,
         \A o \in New : NamesRacks(o, Len(world'.racks)) /\ \A v \in Users : \A rack \in RacksOf(v) : Once(o, rack)
  PROVE  LInv'
<1>1. LayoutTypeOK
  BY DEF LInv
<1>2. Documents' \subseteq Documents \cup New
  BY <1>1, DocumentsAfter
<1>3. Draws(j) \subseteq RacksOf(u)
  <2>1. Draws(j) = {}
    BY DEF Draws
  <2> QED BY <2>1
<1>4. RacksAreKnown' /\ DrawnOnce'
  BY <1>2, <1>3, DrawingsAfter
<1>5. DrawingInOrder'
  BY DrawingOfAfter
<1>6. BreakoutOf(u)'
  <2>1. job'[u] = j
    BY <1>1, MovesOn
  <2> QED BY <2>1 DEF BreakoutOf, Op
<1> QED BY <1>4, <1>5, <1>6, Keeps

\* Steps that write no new document.
LEMMA QuietStepKeeps ==
  ASSUME LInv, NEW u \in Users, NEW j \in Jobs, Moves(u, j), j.op \notin {"draw", "save", "breakout", "children"},
         world' \in WorldRows, Len(world.racks) <= Len(world'.racks), Grown, canvas' \in [Scopes -> Canvases],
         \A s \in Scopes : canvas'[s].objects \in Documents,
         j.op = "edit" => j.objects \in Documents
  PROVE  LInv'
<1> DEFINE New == {}
<1>1. \A s \in Scopes : canvas'[s].objects \in Documents \cup New
  OBVIOUS
<1>2. j.op = "edit" => j.objects \in Documents \cup New
  OBVIOUS
<1>3. \A o \in New : NamesRacks(o, Len(world'.racks)) /\ \A v \in Users : \A rack \in RacksOf(v) : Once(o, rack)
  OBVIOUS
<1> HIDE DEF New
<1> QED BY <1>1, <1>2, <1>3, PlainStepKeeps

\* Steps of a breakout.
LEMMA BreakoutStepKeeps ==
  ASSUME LInv, NEW u \in Users, NEW j \in Jobs, Moves(u, j), j.op \in {"breakout", "children"}, BreakoutOf(u)',
         world' \in WorldRows, world'.racks = world.racks, Grown, canvas' = canvas
  PROVE  LInv'
<1>1. LayoutTypeOK
  BY DEF LInv
<1> DEFINE New == {}
<1>2. \A s \in Scopes : canvas'[s].objects \in Documents \cup New
  BY StateFacts
<1>9. \A o \in New : NamesRacks(o, Len(world'.racks)) /\ \A v \in Users : \A rack \in RacksOf(v) : Once(o, rack)
  OBVIOUS
<1> HIDE DEF New
<1>3. Documents' \subseteq Documents \cup New
  BY <1>1, <1>2, DocumentsAfter
<1>4. Draws(j) \subseteq RacksOf(u)
  <2>1. Draws(j) = {}
    BY DEF Draws
  <2> QED BY <2>1
<1>5. Len(world.racks) <= Len(world'.racks)
  <2>1. Len(world.racks) \in Nat
    BY StateFacts, RackFacts
  <2> QED BY <2>1
<1>6. RacksAreKnown' /\ DrawnOnce'
  BY <1>3, <1>4, <1>5, <1>9, DrawingsAfter
<1>7. DrawingInOrder'
  BY DrawingOfAfter
<1>8. canvas' \in [Scopes -> Canvases]
  BY StateFacts
<1> QED BY <1>6, <1>7, <1>8, Keeps

\* A user may have no operation under way.
LEMMA IdleIsJob == Idle \in Jobs /\ Idle.op = "idle"
BY JobsAre DEF Idle

\* An operation that comes to its end without a word.
LEMMA EndKeeps ==
  ASSUME LInv, NEW u \in Users, Continue(u, Idle), UNCHANGED <<world, canvas>>
  PROVE  LInv'
<1>1. Moves(u, Idle)
  BY DEF Moves, Scopes
<1>2. world' \in WorldRows /\ Len(world.racks) <= Len(world'.racks) /\ Grown
  BY StateFacts, WorldStays
<1>3. canvas' \in [Scopes -> Canvases] /\ \A s \in Scopes : canvas'[s].objects \in Documents
  BY StateFacts
<1> QED BY <1>1, <1>2, <1>3, IdleIsJob, QuietStepKeeps

\* Nothing happens.
LEMMA StutterKeeps == ASSUME LInv, UNCHANGED layout PROVE LInv'
<1>1. world' = world /\ canvas' = canvas /\ job' = job /\ begun' = begun
  BY DEF layout
<1>2. LayoutTypeOK'
  BY <1>1 DEF LInv, LayoutTypeOK, Scopes, Jobs
<1>3. Documents' = Documents /\ \A v \in Users : RacksOf(v)' = RacksOf(v)
  BY <1>1 DEF Documents, Copies, RacksOf, Op, Scopes
<1>4. ScopesAreThere' /\ RacksAreKnown' /\ DrawnOnce'
  BY <1>1, <1>3 DEF LInv, ScopesAreThere, RacksAreKnown, DrawnOnce, Scopes
<1>5. DrawingInOrder'
  BY <1>1 DEF LInv, DrawingInOrder, DrawingOf, Op
<1>6. BreakoutInOrder'
  BY <1>1 DEF LInv, BreakoutInOrder, BreakoutOf, Op, Complete, Pending
<1> QED BY <1>2, <1>4, <1>5, <1>6 DEF LInv

-----------------------------------------------------------------------------
(* The canvas                                                               *)

\* A stamp saves the canvas on which it drew.
LEMMA SaveDrawingKeeps ==
  ASSUME LInv, NEW u \in Users, SaveDrawing(u)
  PROVE  LInv'
<1>1. Op(u) = "save" /\ job[u] \in SaveJobs
  BY StateFacts, JobShape DEF SaveDrawing, Op
<1> DEFINE s == job[u].scope
<1>2. s \in Scopes /\ job[u].new \in Seq(Objects) /\ job[u].new \in Documents
  <2>1. job[u].new \in Copies(u)
    BY <1>1 DEF Copies
  <2> QED BY <1>1, <2>1 DEF SaveJobs, Documents
<1>3. canvas' = [canvas EXCEPT ![s].objects = job[u].new] /\ Continue(u, Idle) /\ world' = world
  BY DEF SaveDrawing
<1>4. canvas \in [Scopes -> Canvases] /\ canvas[s] \in Canvases
  BY <1>2, StateFacts
<1>5. [canvas[s] EXCEPT !.objects = job[u].new] \in Canvases /\ [canvas[s] EXCEPT !.objects = job[u].new].objects = job[u].new
  BY <1>2, <1>4 DEF Canvases
<1>6. canvas' \in [Scopes -> Canvases]
  BY <1>2, <1>3, <1>4, <1>5
<1>7. \A r \in Scopes : canvas'[r].objects \in Documents
  <2>1. \A r \in Scopes : r # s => canvas'[r] = canvas[r]
    BY <1>3, <1>4
  <2>2. canvas'[s].objects = job[u].new
    BY <1>2, <1>3, <1>4, <1>5
  <2> QED BY <1>2, <2>1, <2>2, StateFacts
<1>8. Moves(u, Idle)
  <2>1. DOMAIN canvas' = Scopes
    BY <1>6
  <2> QED BY <1>3, <2>1 DEF Moves, Scopes
<1>9. world' \in WorldRows /\ Len(world.racks) <= Len(world'.racks) /\ Grown
  BY <1>3, StateFacts, WorldStays
<1> QED BY <1>6, <1>7, <1>8, <1>9, IdleIsJob, QuietStepKeeps

\* The editor takes a copy of a canvas.
LEMMA OpenEditorKeeps ==
  ASSUME LInv, NEW u \in Users, OpenEditor(u)
  PROVE  LInv'
<1>1. PICK s \in DOMAIN canvas : Begin(u, [op |-> "edit", scope |-> s, objects |-> canvas[s].objects]) /\ UNCHANGED <<world, canvas>>
  BY DEF OpenEditor
<1> DEFINE j == [op |-> "edit", scope |-> s, objects |-> canvas[s].objects]
<1>2. s \in Scopes /\ canvas[s].objects \in Seq(Objects) /\ canvas[s].objects \in Documents
  BY StateFacts DEF Scopes
<1>3. j \in Jobs /\ j.op = "edit" /\ j.objects \in Documents
  <2>1. j \in EditJobs
    BY <1>2 DEF EditJobs
  <2> QED BY <1>2, <2>1, JobsAre
<1>4. Moves(u, j)
  BY <1>1 DEF Moves, Scopes
<1> HIDE DEF j
<1>5. world' \in WorldRows /\ Len(world.racks) <= Len(world'.racks) /\ Grown
  BY <1>1, StateFacts, WorldStays
<1>6. canvas' \in [Scopes -> Canvases] /\ \A r \in Scopes : canvas'[r].objects \in Documents
  BY <1>1, StateFacts
<1> QED BY <1>3, <1>4, <1>5, <1>6, QuietStepKeeps

\* A reconciliation reads a canvas.
LEMMA ReconcileKeeps ==
  ASSUME LInv, NEW u \in Users, Reconcile(u)
  PROVE  LInv'
<1>1. PICK s \in DOMAIN canvas, create \in BOOLEAN :
        Begin(u, [op |-> "reconcile", scope |-> s, create |-> create, objects |-> canvas[s].objects]) /\ UNCHANGED <<world, canvas>>
  BY DEF Reconcile
<1> DEFINE j == [op |-> "reconcile", scope |-> s, create |-> create, objects |-> canvas[s].objects]
<1>2. s \in Scopes /\ canvas[s].objects \in Seq(Objects)
  BY StateFacts DEF Scopes
<1>3. j \in Jobs /\ j.op = "reconcile"
  <2>1. j \in ReconcileJobs
    BY <1>2 DEF ReconcileJobs
  <2> QED BY <2>1, JobsAre
<1>4. Moves(u, j)
  BY <1>1 DEF Moves, Scopes
<1> HIDE DEF j
<1>5. world' \in WorldRows /\ Len(world.racks) <= Len(world'.racks) /\ Grown
  BY <1>1, StateFacts, WorldStays
<1>6. canvas' \in [Scopes -> Canvases] /\ \A r \in Scopes : canvas'[r].objects \in Documents
  BY <1>1, StateFacts
<1> QED BY <1>3, <1>4, <1>5, <1>6, QuietStepKeeps

\* The row of one placement changes.
LEMMA PlacementMoves ==
  ASSUME NEW w \in WorldRows, NEW i \in DOMAIN w.racks, NEW row \in RackRows
  PROVE  LET x == [w EXCEPT !.racks[i] = row]
         IN  x \in WorldRows /\ Len(x.racks) = Len(w.racks) /\ x.devices = w.devices
<1> DEFINE x == [w EXCEPT !.racks[i] = row]
           s == w.racks
           r == [s EXCEPT ![i] = row]
<1>1. s \in Seq(RackRows) /\ Len(s) \in Nat /\ DOMAIN s = 1..Len(s)
  BY RackFacts
<1>2. x = [w EXCEPT !.racks = r]
  OBVIOUS
<1> HIDE DEF s
<1>3. r \in [1..Len(s) -> RackRows]
  BY <1>1 DEF s
<1> HIDE DEF r
<1>4. r \in Seq(RackRows) /\ Len(r) = Len(s)
  BY <1>1, <1>3, IsSequence
<1> HIDE DEF x
<1>5. x \in WorldRows /\ x.racks = r /\ x.devices = w.devices
  BY <1>2, <1>4 DEF WorldRows
<1> QED BY <1>4, <1>5 DEF x, s

\* Rounding results in numbers.
LEMMA NearestAreNumbers ==
  ASSUME NEW v \in Int, NEW unit \in Units, NEW x \in PlacementCoordinates(v, unit)
  PROVE  x \in Int
<1>1. v * Denominator(unit) \in Int /\ Numerator(unit) \in {1, 10, 125, 381}
  BY DEF Units, Numerator, Denominator
<1> QED BY <1>1, NearestExists DEF PlacementCoordinates

\* A placement is saved.
LEMMA ReconcileObjectKeeps ==
  ASSUME LInv, NEW u \in Users, ReconcileObject(u)
  PROVE  LInv'
<1> DEFINE o == Head(job[u].objects)
           k == [job[u] EXCEPT !.objects = Tail(@)]
           Placed(r, x) == IF r.placed THEN [r EXCEPT !.at = x]
                           ELSE [r EXCEPT !.at = x, !.placed = TRUE, !.unit = "meters", !.frame = job[u].scope]
<1>1. job[u] \in ReconcileJobs /\ job[u].objects # <<>>
  BY StateFacts, JobShape DEF ReconcileObject
<1>2. job[u].scope \in Scopes /\ job[u].scope \in Nat /\ job[u].objects \in Seq(Objects)
  BY <1>1, StateFacts DEF ReconcileJobs
<1>3. o \in Objects /\ Tail(job[u].objects) \in Seq(Objects)
  BY <1>1, <1>2, HeadTailProperties
<1>4. k \in Jobs /\ k.op = "reconcile"
  <2>1. k \in ReconcileJobs /\ k.op = "reconcile"
    BY <1>1, <1>3 DEF ReconcileJobs
  <2> QED BY <2>1, JobsAre
<1>5. Continue(u, k) /\ canvas' = canvas
  BY DEF ReconcileObject
<1>6. Moves(u, k)
  BY <1>5 DEF Moves, Scopes
<1> HIDE DEF k
<1>7. canvas' \in [Scopes -> Canvases] /\ \A r \in Scopes : canvas'[r].objects \in Documents
  BY <1>5, StateFacts
<1>8. world' \in WorldRows /\ Len(world.racks) <= Len(world'.racks) /\ Grown
  <2>1. CASE world' = world
    BY <2>1, StateFacts, WorldStays
  <2>2. CASE world' # world
    <3>1. /\ o.rack \in DOMAIN world.racks
          /\ \E x \in PlacementCoordinates(o.at, IF world.racks[o.rack].placed THEN world.racks[o.rack].unit ELSE "meters") :
                world' = [world EXCEPT !.racks[o.rack] = Placed(world.racks[o.rack], x)]
      BY <2>2 DEF ReconcileObject, InScope
    <3> DEFINE r == world.racks[o.rack]
               unit == IF r.placed THEN r.unit ELSE "meters"
    <3>2. PICK x \in PlacementCoordinates(o.at, unit) : world' = [world EXCEPT !.racks[o.rack] = Placed(r, x)]
      BY <3>1
    <3>3. world \in WorldRows /\ world.racks \in Seq(RackRows) /\ r \in RackRows
      <4> DEFINE racks == world.racks
      <4>1. world \in WorldRows /\ racks \in Seq(RackRows)
        BY StateFacts, RackFacts
      <4> HIDE DEF racks
      <4>2. \A i \in DOMAIN racks : racks[i] \in RackRows
        BY <4>1, Sequence
      <4> QED BY <3>1, <4>1, <4>2 DEF racks
    <3>4. x \in Int
      <4>1. unit \in Units /\ o.at \in Int
        BY <1>3, <3>3 DEF RackRows, Objects, Units
      <4> HIDE DEF unit, o
      <4> QED BY <4>1, NearestAreNumbers
    <3>5. Placed(r, x) \in RackRows
      <4> HIDE DEF r
      <4> QED BY <1>2, <3>3, <3>4 DEF RackRows, Units
    <3> HIDE DEF Placed, r
    <3>6. world' \in WorldRows /\ Len(world'.racks) = Len(world.racks) /\ world'.devices = world.devices
      BY <3>1, <3>2, <3>3, <3>5, PlacementMoves
    <3>7. Len(world.racks) <= Len(world'.racks)
      BY <3>3, <3>6, RackFacts
    <3> QED BY <3>6, <3>7 DEF Grown, Grows
  <2> QED BY <2>1, <2>2
<1> QED BY <1>4, <1>6, <1>7, <1>8, QuietStepKeeps

\* An editor draws at most one object, of a rack that has none.
LEMMA EditedObjects ==
  ASSUME NEW o \in Seq(Objects), NEW e \in Edits, NEW rack \in Nat
  PROVE  /\ Edited(o, e, rack) \in Seq(Objects)
         /\ \A n \in Nat : rack \in 0..n /\ NamesRacks(o, n) => NamesRacks(Edited(o, e, rack), n)
         /\ \A r : Once(o, r) => Once(Edited(o, e, rack), r)
<1> DEFINE i == RackObjectIndex(o, rack)
           y == Edited(o, e, rack)
           drawn == [rack |-> rack, id |-> "text", at |-> e.at, manager |-> "editor", pins |-> {}]
           moved == [o EXCEPT ![i].at = e.at, ![i].id = "text"]
           pinned == [o EXCEPT ![i].pins = @ \cup {e.flag}, ![i].id = "text"]
           n == Len(o)
<1>1. n \in Nat /\ DOMAIN o = 1..n /\ \A k \in 1..n : o[k] \in Objects
  BY Sequence
<1>2. /\ i = 0 => \A k \in 1..n : o[k].rack # rack
      /\ i # 0 => i \in 1..n /\ o[i].rack = rack
  BY FirstObject
<1>3. (e.kind = "move" /\ e.at \in Int) \/ (e.kind = "pin" /\ e.flag \in Flags)
  BY RequestsAssumption
<1>4. y = IF i = 0 THEN IF e.kind = "move" THEN Append(o, drawn) ELSE o
          ELSE IF e.kind = "move" THEN moved ELSE pinned
  BY DEF Edited, RackObjectIndex
<1> HIDE DEF i, y
<1>5. CASE y = o
  BY <1>5 DEF y
<1>6. CASE i = 0 /\ e.kind = "move"
  <2>1. drawn \in Objects /\ drawn.rack = rack /\ y = Append(o, drawn)
    <3>1. e.at \in Int
      BY <1>3, <1>6
    <3> QED BY <1>4, <1>6, <3>1 DEF Objects
  <2> HIDE DEF drawn
  <2>2. y \in Seq(Objects) /\ Len(y) = n + 1 /\ y[n + 1] = drawn /\ \A k \in 1..n : y[k] = o[k]
    BY <2>1, Appended
  <2>3. DOMAIN y = 1..(n + 1) /\ \A k \in 1..(n + 1) : k = n + 1 \/ k \in 1..n
    BY <1>1, <2>2, Sequence
  <2>4. \A m \in Nat : rack \in 0..m /\ NamesRacks(o, m) => NamesRacks(y, m)
    BY <1>1, <2>1, <2>2, <2>3 DEF NamesRacks
  <2>5. \A r : Once(o, r) => Once(y, r)
    <3> SUFFICES ASSUME NEW r, Once(o, r) PROVE Once(y, r)
      OBVIOUS
    <3>1. \A k \in 1..n : o[k].rack # rack
      BY <1>2, <1>6
    <3> SUFFICES ASSUME NEW a \in 1..(n + 1), NEW b \in 1..(n + 1), y[a].rack = r, y[b].rack = r PROVE a = b
      BY <2>3 DEF Once
    <3>2. a \in 1..n \/ a = n + 1
      BY <2>3
    <3>3. b \in 1..n \/ b = n + 1
      BY <2>3
    <3> QED BY <1>1, <2>1, <2>2, <3>1, <3>2, <3>3 DEF Once
  <2> QED BY <2>2, <2>4, <2>5 DEF y
<1>7. CASE i # 0
  <2>1. i \in 1..n /\ o[i] \in Objects
    BY <1>1, <1>2, <1>7
  <2>2. ASSUME NEW row \in Objects, row.rack = o[i].rack, y = [o EXCEPT ![i] = row]
        PROVE  /\ y \in Seq(Objects)
               /\ \A m \in Nat : rack \in 0..m /\ NamesRacks(o, m) => NamesRacks(y, m)
               /\ \A r : Once(o, r) => Once(y, r)
    <3>1. y \in [1..n -> Objects] /\ \A k \in 1..n : y[k].rack = o[k].rack
      BY <1>1, <2>1, <2>2
    <3>2. y \in Seq(Objects) /\ DOMAIN y = 1..n
      BY <1>1, <3>1, IsSequence
    <3> QED BY <1>1, <3>1, <3>2 DEF NamesRacks, Once
  <2>3. CASE e.kind = "move"
    <3> DEFINE row == [o[i] EXCEPT !.at = e.at, !.id = "text"]
    <3>1. row \in Objects /\ row.rack = o[i].rack
      BY <1>3, <2>1, <2>3 DEF Objects
    <3>2. y = moved
      BY <1>4, <1>7, <2>3
    <3>3. moved = [o EXCEPT ![i] = row]
      BY <1>1, <2>1 DEF Objects
    <3> HIDE DEF row, moved
    <3>4. y = [o EXCEPT ![i] = row]
      BY <3>2, <3>3
    <3> QED BY <2>2, <3>1, <3>4 DEF y
  <2>4. CASE e.kind # "move"
    <3> DEFINE row == [o[i] EXCEPT !.pins = @ \cup {e.flag}, !.id = "text"]
    <3>1. row \in Objects /\ row.rack = o[i].rack
      <4>1. e.flag \in Flags
        BY <1>3, <2>4
      <4> QED BY <2>1, <4>1 DEF Objects
    <3>2. y = pinned
      BY <1>4, <1>7, <2>4
    <3>3. pinned = [o EXCEPT ![i] = row]
      BY <1>1, <2>1 DEF Objects
    <3> HIDE DEF row, pinned
    <3>4. y = [o EXCEPT ![i] = row]
      BY <3>2, <3>3
    <3> QED BY <2>2, <3>1, <3>4 DEF y
  <2> QED BY <2>3, <2>4
<1>8. i = 0 /\ e.kind # "move" => y = o
  BY <1>4
<1> QED BY <1>5, <1>6, <1>7, <1>8

\* The editor saves its copy.
LEMMA SaveEditKeeps ==
  ASSUME LInv, NEW u \in Users, SaveEdit(u)
  PROVE  LInv'
<1>1. PICK e \in Edits, r \in DOMAIN world.racks :
        /\ job[u].op = "edit"
        /\ canvas' = [canvas EXCEPT ![job[u].scope].objects = Edited(job[u].objects, e, r)]
        /\ Continue(u, Idle) /\ world' = world
  BY DEF SaveEdit
<1> DEFINE s == job[u].scope
           o == job[u].objects
           y == Edited(o, e, r)
           n == Len(world.racks)
<1>2. job[u] \in EditJobs
  BY <1>1, StateFacts, JobShape
<1>3. s \in Scopes /\ o \in Seq(Objects) /\ o \in Documents
  <2>1. o \in Copies(u)
    BY <1>1 DEF Copies, Op
  <2> QED BY <1>2, <2>1 DEF EditJobs, Documents
<1>4. n \in Nat /\ r \in Nat /\ r \in 0..n
  BY StateFacts, RackFacts
<1>5. /\ y \in Seq(Objects)
      /\ NamesRacks(o, n) => NamesRacks(y, n)
      /\ \A rack : Once(o, rack) => Once(y, rack)
  <2> HIDE DEF o, n
  <2> QED BY <1>3, <1>4, EditedObjects
<1>6. NamesRacks(o, n) /\ \A v \in Users : \A rack \in RacksOf(v) : Once(o, rack)
  BY <1>3 DEF LInv, RacksAreKnown, DrawnOnce
<1>7. canvas \in [Scopes -> Canvases] /\ canvas[s] \in Canvases
  BY <1>3, StateFacts
<1> HIDE DEF y
<1>8. [canvas[s] EXCEPT !.objects = y] \in Canvases /\ [canvas[s] EXCEPT !.objects = y].objects = y
  BY <1>5, <1>7 DEF Canvases
<1>9. canvas' = [canvas EXCEPT ![s].objects = y]
  BY <1>1 DEF y
<1>10. canvas' \in [Scopes -> Canvases]
  BY <1>3, <1>7, <1>8, <1>9
<1>11. \A q \in Scopes : canvas'[q].objects \in Documents \cup {y}
  <2>1. \A q \in Scopes : q # s => canvas'[q] = canvas[q]
    BY <1>7, <1>9
  <2>2. canvas'[s].objects = y
    BY <1>3, <1>7, <1>8, <1>9
  <2> QED BY <2>1, <2>2, StateFacts
<1>12. Moves(u, Idle)
  <2>1. DOMAIN canvas' = Scopes
    BY <1>10
  <2> QED BY <1>1, <2>1 DEF Moves, Scopes
<1>13. world' \in WorldRows /\ Len(world.racks) <= Len(world'.racks) /\ Grown
  BY <1>1, StateFacts, WorldStays
<1>14. \A x \in {y} : NamesRacks(x, Len(world'.racks)) /\ \A v \in Users : \A rack \in RacksOf(v) : Once(x, rack)
  BY <1>1, <1>5, <1>6
<1> DEFINE New == {y}
<1>15. \A q \in Scopes : canvas'[q].objects \in Documents \cup New
  BY <1>11
<1>16. \A x \in New : NamesRacks(x, Len(world'.racks)) /\ \A v \in Users : \A rack \in RacksOf(v) : Once(x, rack)
  BY <1>14
<1> HIDE DEF New
<1> QED BY <1>10, <1>12, <1>13, <1>15, <1>16, IdleIsJob, PlainStepKeeps

-----------------------------------------------------------------------------
(* Breakouts                                                                *)

\* A sequence is its head and its tail.
LEMMA HeadAndTail ==
  ASSUME NEW S, NEW s \in Seq(S), s # <<>>
  PROVE  /\ Head(s) \in S /\ Tail(s) \in Seq(S) /\ Head(s) \in ToSet(s)
         /\ Len(s) \in Nat /\ DOMAIN s = 1..Len(s) /\ Head(s) = s[1] /\ Len(Tail(s)) = Len(s) - 1 /\ Len(s) >= 1
         /\ \A i \in DOMAIN s : s[i] = Head(s) \/ (i - 1 \in DOMAIN Tail(s) /\ Tail(s)[i - 1] = s[i])
         /\ \A i \in DOMAIN Tail(s) : i + 1 \in DOMAIN s /\ Tail(s)[i] = s[i + 1]
         /\ ToSet(Tail(s)) \subseteq ToSet(s) /\ ToSet(s) \subseteq {Head(s)} \cup ToSet(Tail(s))
<1> DEFINE t == Tail(s)
<1>1. Len(s) \in Nat /\ DOMAIN s = 1..Len(s) /\ Len(s) # 0
  BY EmptySeq, Sequence
<1>2. Head(s) \in S /\ t \in Seq(S) /\ Len(t) = Len(s) - 1 /\ \A i \in 1..Len(t) : t[i] = s[i + 1]
  BY HeadTailProperties
<1>3. Head(s) = s[1] /\ 1 \in DOMAIN s
  BY <1>1
<1> HIDE DEF t
<1>4. DOMAIN t = 1..Len(t)
  BY <1>2, Sequence
<1>5. \A i \in DOMAIN t : i + 1 \in DOMAIN s /\ t[i] = s[i + 1]
  BY <1>1, <1>2, <1>4
<1>6. \A i \in DOMAIN s : i = 1 \/ (i - 1 \in DOMAIN t /\ t[i - 1] = s[i])
  <2> SUFFICES ASSUME NEW i \in DOMAIN s, i # 1 PROVE i - 1 \in DOMAIN t /\ t[i - 1] = s[i]
    OBVIOUS
  <2>1. i \in Nat /\ i - 1 \in 1..Len(t) /\ (i - 1) + 1 = i
    BY <1>1, <1>2
  <2>2. t[i - 1] = s[(i - 1) + 1]
    BY <1>2, <2>1
  <2> QED BY <1>4, <2>1, <2>2
<1>7. Head(s) \in ToSet(s)
  BY <1>3 DEF ToSet
<1>8. ToSet(t) \subseteq ToSet(s)
  BY <1>5 DEF ToSet
<1>9. ToSet(s) \subseteq {Head(s)} \cup ToSet(t)
  BY <1>3, <1>6 DEF ToSet
<1>10. Len(s) >= 1
  BY <1>1
<1>11. \A i \in DOMAIN s : s[i] = Head(s) \/ (i - 1 \in DOMAIN t /\ t[i - 1] = s[i])
  BY <1>3, <1>6
<1> QED BY <1>1, <1>2, <1>3, <1>5, <1>7, <1>8, <1>9, <1>10, <1>11 DEF t

\* A breakout begins.
LEMMA BreakOutKeeps ==
  ASSUME LInv, NEW u \in Users, BreakOut(u)
  PROVE  LInv'
<1>1. PICK r \in BreakoutRuns :
        /\ ToSet(r.devices) \subseteq DOMAIN world.devices
        /\ Begin(u, [op |-> "breakout", devices |-> r.devices, left |-> r.devices, specs |-> r.specs, children |-> <<>>])
        /\ UNCHANGED <<world, canvas>>
  BY DEF BreakOut
<1> DEFINE j == [op |-> "breakout", devices |-> r.devices, left |-> r.devices, specs |-> r.specs, children |-> <<>>]
<1>2. j \in Jobs /\ j.op = "breakout"
  <2>1. r.devices \in Seq(Nat) /\ <<>> \in Seq(Ports)
    BY RequestsAssumption, EmptySeq
  <2>2. j \in BreakoutJobs
    BY <2>1 DEF BreakoutJobs
  <2> QED BY <2>2, JobsAre
<1>3. j.left = j.devices /\ ToSet(j.devices) \subseteq DOMAIN world.devices
  BY <1>1
<1>4. Moves(u, j)
  BY <1>1 DEF Moves, Scopes
<1> HIDE DEF j
<1>5. world' \in WorldRows /\ Grown
  BY <1>1, StateFacts, WorldStays
<1>6. BreakoutOf(u)'
  <2>1. job'[u] = j
    BY <1>2, <1>4, MovesOn DEF LInv
  <2> QED BY <1>1, <1>2, <1>3, <2>1 DEF BreakoutOf, Op
<1> QED BY <1>1, <1>2, <1>4, <1>5, <1>6, BreakoutStepKeeps

\* What the invariant says of a breakout
LEMMA BreakoutFacts ==
  ASSUME LInv, NEW u \in Users, job[u].op \in {"breakout", "children"}
  PROVE  /\ job[u] \in BreakoutJobs /\ IsBreakout(job[u].specs)
         /\ ToSet(job[u].left) \subseteq ToSet(job[u].devices) /\ ToSet(job[u].devices) \subseteq DOMAIN world.devices
         /\ \A d \in ToSet(job[u].devices) : d \in ToSet(job[u].left) \/ Complete(d, job[u].specs)
<1>1. job[u] \in BreakoutJobs
  BY StateFacts, JobShape
<1>2. IsBreakout(job[u].specs)
  BY <1>1, RequestsAssumption DEF BreakoutJobs
<1>3. BreakoutOf(u) /\ Op(u) \in {"breakout", "children"}
  BY DEF LInv, BreakoutInOrder, Op
<1> QED BY <1>1, <1>2, <1>3 DEF BreakoutOf

\* The children that a device lacks are worked out.
LEMMA ReadDeviceKeeps ==
  ASSUME LInv, NEW u \in Users, ReadDevice(u)
  PROVE  LInv'
<1> DEFINE d == Head(job[u].left)
           ports == world.devices[d].ports
           specs == job[u].specs
           made == MissingChildren(specs, ports)
           left == job[u].left
           j == [job[u] EXCEPT !.op = IF made = <<>> THEN "breakout" ELSE "children", !.children = made,
                               !.left = IF made = <<>> THEN Tail(@) ELSE @]
<1>1. /\ job[u] \in BreakoutJobs /\ IsBreakout(specs)
      /\ ToSet(left) \subseteq ToSet(job[u].devices) /\ ToSet(job[u].devices) \subseteq DOMAIN world.devices
      /\ \A e \in ToSet(job[u].devices) : e \in ToSet(left) \/ Complete(e, specs)
  BY BreakoutFacts DEF ReadDevice
<1>2. left \in Seq(Nat) /\ left # <<>>
  BY <1>1 DEF BreakoutJobs, ReadDevice
<1>3. /\ d \in ToSet(left) /\ Tail(left) \in Seq(Nat)
      /\ ToSet(Tail(left)) \subseteq ToSet(left) /\ ToSet(left) \subseteq {d} \cup ToSet(Tail(left))
  <2> HIDE DEF left
  <2> QED BY <1>2, HeadAndTail DEF left
<1>4. d \in DOMAIN world.devices /\ world \in WorldRows /\ ports \in Seq(Ports)
  <2>1. d \in DOMAIN world.devices /\ world \in WorldRows
    BY <1>1, <1>3, StateFacts
  <2> HIDE DEF d
  <2> QED BY <2>1, DevicePorts
<1>5. /\ made \in Seq(ChildPorts)
      /\ \A k \in DOMAIN specs : specs[k].parent \in NamesOf(ports) =>
            \A c \in 0..(specs[k].count - 1) :
                HasChild(ports, ChildName(specs[k], c)) \/ \E i \in DOMAIN made : made[i].name = ChildName(specs[k], c)
  <2> HIDE DEF ports, specs
  <2> QED BY <1>1, MissingAreMade
<1>6. \A i \in DOMAIN made : made[i] \in ChildPorts
  <2> HIDE DEF made
  <2> QED BY <1>5, Sequence
<1>7. Pending(d, specs, made)
  <2>1. \A spec : HasParent(ports, spec) => spec.parent \in NamesOf(ports)
    BY DEF HasParent, NamesOf
  <2>2. \A i \in DOMAIN made : IsChild(made[i])
    BY <1>6 DEF ChildPorts
  <2> HIDE DEF made, specs
  <2> QED BY <1>5, <2>1, <2>2 DEF Pending
<1>8. made = <<>> => Complete(d, specs)
  <2> HIDE DEF made
  <2>1. made = <<>> => DOMAIN made = {}
    OBVIOUS
  <2> QED BY <1>7, <2>1 DEF Pending, Complete
<1>9. made \in Seq(Ports)
  <2> HIDE DEF made
  <2>1. made \in [1..Len(made) -> Ports] /\ Len(made) \in Nat
    <3>1. Len(made) \in Nat /\ DOMAIN made = 1..Len(made)
      BY <1>5, Sequence
    <3>2. made = [i \in 1..Len(made) |-> made[i]]
      BY <1>5
    <3>3. \A i \in 1..Len(made) : made[i] \in Ports
      BY <1>6, <3>1 DEF ChildPorts
    <3> QED BY <3>1, <3>2, <3>3
  <2> QED BY <2>1, IsSequence
<1> HIDE DEF made
<1>10. /\ j \in BreakoutJobs /\ j.devices = job[u].devices /\ j.specs = specs /\ j.children = made
       /\ made = <<>> => j.op = "breakout" /\ j.left = Tail(left)
       /\ made # <<>> => j.op = "children" /\ j.left = left
  BY <1>1, <1>3, <1>9 DEF BreakoutJobs
<1>11. Continue(u, j) /\ world' = world /\ canvas' = canvas
  BY DEF ReadDevice, made
<1> HIDE DEF j
<1>12. j \in Jobs /\ j.op \in {"breakout", "children"} /\ Moves(u, j)
  BY <1>10, <1>11, JobsAre DEF Moves, Scopes
<1>13. BreakoutOf(u)'
  <2>1. job'[u] = j
    BY <1>12, MovesOn DEF LInv
  <2>2. /\ ToSet(j.left) \subseteq ToSet(j.devices) /\ ToSet(j.devices) \subseteq DOMAIN world.devices
        /\ \A e \in ToSet(j.devices) : e \in ToSet(j.left) \/ Complete(e, j.specs)
    <3>1. CASE made = <<>>
      BY <1>1, <1>3, <1>8, <1>10, <3>1
    <3>2. CASE made # <<>>
      BY <1>1, <1>10, <3>2
    <3> QED BY <3>1, <3>2
  <2>3. j.op = "children" => j.left # <<>> /\ j.children # <<>> /\ Pending(Head(j.left), j.specs, j.children)
    BY <1>2, <1>7, <1>10
  <2>4. \A e, s : Complete(e, s)' <=> Complete(e, s)
    BY <1>11 DEF Complete
  <2>5. \A e, s, c : Pending(e, s, c)' <=> Pending(e, s, c)
    BY <1>11 DEF Pending
  <2> QED BY <1>11, <2>1, <2>2, <2>3, <2>4, <2>5 DEF BreakoutOf, Op
<1>14. world' \in WorldRows /\ Grown
  BY <1>11, StateFacts, WorldStays
<1> QED BY <1>11, <1>12, <1>13, <1>14, BreakoutStepKeeps

\* A device gets an interface.
LEMMA PortAppended ==
  ASSUME NEW w \in WorldRows, NEW d \in DOMAIN w.devices, NEW e \in Ports
  PROVE  LET x == [w EXCEPT !.devices[d].ports = Append(@, e)]
         IN  /\ x \in WorldRows /\ x.racks = w.racks /\ DOMAIN x.devices = DOMAIN w.devices
             /\ x.devices[d].ports = Append(w.devices[d].ports, e)
             /\ \A c \in DOMAIN w.devices : c # d => x.devices[c] = w.devices[c]
<1> DEFINE x == [w EXCEPT !.devices[d].ports = Append(@, e)]
           s == w.devices
           row == [s[d] EXCEPT !.ports = Append(@, e)]
           r == [s EXCEPT ![d] = row]
<1>1. s \in Seq(DeviceRows) /\ s[d] \in DeviceRows /\ s[d].ports \in Seq(Ports) /\ d \in 1..Len(s)
  BY DevicePorts DEF WorldRows
<1>2. Append(s[d].ports, e) \in Seq(Ports)
  BY <1>1, AppendProperties
<1>3. row \in DeviceRows /\ row.ports = Append(s[d].ports, e)
  BY <1>1, <1>2 DEF DeviceRows
<1>4. x = [w EXCEPT !.devices = r]
  OBVIOUS
<1> HIDE DEF s, row
<1>5. Len(s) \in Nat /\ DOMAIN s = 1..Len(s) /\ s \in [1..Len(s) -> DeviceRows]
  BY <1>1, Sequence
<1>6. r \in [1..Len(s) -> DeviceRows] /\ r[d] = row /\ \A c \in DOMAIN s : c # d => r[c] = s[c]
  BY <1>1, <1>3, <1>5
<1> HIDE DEF r
<1>7. r \in Seq(DeviceRows) /\ DOMAIN r = DOMAIN s
  BY <1>5, <1>6, IsSequence
<1> HIDE DEF x
<1>8. x \in WorldRows /\ x.devices = r /\ x.racks = w.racks
  BY <1>4, <1>7 DEF WorldRows
<1> QED BY <1>3, <1>6, <1>7, <1>8 DEF x, s

\* One child is created, or its name is taken and the run ends.
LEMMA CreateChildKeeps ==
  ASSUME LInv, NEW u \in Users, CreateChild(u)
  PROVE  LInv'
<1>0. PICK left, children, specs, d : left = job[u].left /\ children = job[u].children /\ specs = job[u].specs /\ d = Head(left)
  OBVIOUS
<1> DEFINE child == Head(children)
           last == Len(children) = 1
           j == [job[u] EXCEPT !.op = IF last THEN "breakout" ELSE "children", !.children = Tail(@),
                               !.left = IF last THEN Tail(@) ELSE @]
           x == world.devices[d].ports
           y == world'.devices[d].ports
<1>1. /\ job[u] \in BreakoutJobs /\ IsBreakout(specs)
      /\ ToSet(left) \subseteq ToSet(job[u].devices) /\ ToSet(job[u].devices) \subseteq DOMAIN world.devices
      /\ \A e \in ToSet(job[u].devices) : e \in ToSet(left) \/ Complete(e, specs)
  BY <1>0, BreakoutFacts DEF CreateChild
<1>2. left \in Seq(Nat) /\ left # <<>> /\ children \in Seq(Ports) /\ children # <<>> /\ Pending(d, specs, children)
  <2>1. BreakoutOf(u) /\ Op(u) = "children"
    BY DEF LInv, BreakoutInOrder, CreateChild, Op
  <2> QED BY <1>0, <1>1, <2>1 DEF BreakoutJobs, BreakoutOf
<1>3. /\ d \in ToSet(left) /\ Tail(left) \in Seq(Nat)
      /\ ToSet(Tail(left)) \subseteq ToSet(left) /\ ToSet(left) \subseteq {d} \cup ToSet(Tail(left))
  BY <1>0, <1>2, HeadAndTail
<1>4. /\ child \in Ports /\ Tail(children) \in Seq(Ports)
      /\ Len(children) \in Nat /\ DOMAIN children = 1..Len(children) /\ child = children[1] /\ 1 \in DOMAIN children
      /\ Len(Tail(children)) = Len(children) - 1
      /\ \A i \in DOMAIN children : children[i] = child \/ (i - 1 \in DOMAIN Tail(children) /\ Tail(children)[i - 1] = children[i])
      /\ \A i \in DOMAIN Tail(children) : i + 1 \in DOMAIN children /\ Tail(children)[i] = children[i + 1]
  <2> PICK s : s = children
    OBVIOUS
  <2>1. s \in Seq(Ports) /\ s # <<>>
    BY <1>2
  <2>2. /\ Head(s) \in Ports /\ Tail(s) \in Seq(Ports)
        /\ Len(s) \in Nat /\ DOMAIN s = 1..Len(s) /\ Head(s) = s[1] /\ Len(s) >= 1
        /\ Len(Tail(s)) = Len(s) - 1
        /\ \A i \in DOMAIN s : s[i] = Head(s) \/ (i - 1 \in DOMAIN Tail(s) /\ Tail(s)[i - 1] = s[i])
        /\ \A i \in DOMAIN Tail(s) : i + 1 \in DOMAIN s /\ Tail(s)[i] = s[i + 1]
    BY <2>1, HeadAndTail
  <2>3. 1 \in DOMAIN s
    BY <2>2
  <2> QED BY <2>2, <2>3
<1>5. d \in DOMAIN world.devices /\ world \in WorldRows /\ x \in Seq(Ports)
  <2>1. d \in DOMAIN world.devices /\ world \in WorldRows
    BY <1>1, <1>3, StateFacts
  <2> QED BY <2>1, DevicePorts
<1>6. IsChild(child) /\ \A i \in DOMAIN children : IsChild(children[i])
  BY <1>2, <1>4 DEF Pending
<1>7. CASE child.name \in NamesOf(x)
  BY <1>0, <1>7, EndKeeps DEF CreateChild
<1>8. CASE child.name \notin NamesOf(x)
  <2>1. world' = [world EXCEPT !.devices[d].ports = Append(@, child)] /\ Continue(u, j) /\ canvas' = canvas
    BY <1>0, <1>8 DEF CreateChild
  <2>2. /\ world' \in WorldRows /\ world'.racks = world.racks /\ DOMAIN world'.devices = DOMAIN world.devices
        /\ world'.devices[d].ports = Append(world.devices[d].ports, child)
        /\ \A c \in DOMAIN world.devices : c # d => world'.devices[c] = world.devices[c]
    <3>1. child \in Ports /\ d \in DOMAIN world.devices /\ world \in WorldRows
      BY <1>4, <1>5
    <3>2. world' = [world EXCEPT !.devices[d].ports = Append(@, child)]
      BY <2>1
    <3> HIDE DEF child, x, y, j, last
    <3>3. LET v == [world EXCEPT !.devices[d].ports = Append(@, child)]
          IN  /\ v \in WorldRows /\ v.racks = world.racks /\ DOMAIN v.devices = DOMAIN world.devices
              /\ v.devices[d].ports = Append(world.devices[d].ports, child)
              /\ \A c \in DOMAIN world.devices : c # d => v.devices[c] = world.devices[c]
      BY <3>1, PortAppended
    <3> QED BY <3>2, <3>3
  <2>3. Grown
    BY <1>4, <1>6, <2>2 DEF Grown, Grows
  <2>14. y = Append(x, child) /\ Grows(x, y)
    BY <1>5, <2>2, <2>3 DEF Grown
  <2> HIDE DEF x, y, child
  <2>4. /\ Len(x) \in Nat /\ DOMAIN x = 1..Len(x) /\ DOMAIN y = 1..(Len(x) + 1)
        /\ y[Len(x) + 1] = child /\ \A i \in DOMAIN x : y[i] = x[i] /\ i \in DOMAIN y
    <3>1. y \in Seq(Ports) /\ Len(y) = Len(x) + 1 /\ y[Len(x) + 1] = child /\ \A i \in 1..Len(x) : y[i] = x[i]
      BY <1>4, <1>5, <2>14, Appended
    <3>2. Len(x) \in Nat /\ DOMAIN x = 1..Len(x) /\ DOMAIN y = 1..Len(y)
      BY <1>5, <3>1, Sequence
    <3> QED BY <3>1, <3>2
  <2>5. HasChild(y, child.name) /\ \A name : HasChild(x, name) => HasChild(y, name)
    BY <1>6, <2>4 DEF HasChild
  <2>6. \A spec : HasParent(y, spec) => HasParent(x, spec)
    BY <1>5, <2>14, GrownPorts
  <2>7. Pending(d, specs, Tail(children))'
    <3>1. \A i \in DOMAIN Tail(children) : IsChild(Tail(children)[i])
      BY <1>4, <1>6
    <3>2. ASSUME NEW k \in DOMAIN specs, HasParent(y, specs[k]), NEW c \in 0..(specs[k].count - 1)
          PROVE  HasChild(y, ChildName(specs[k], c)) \/ \E i \in DOMAIN Tail(children) : Tail(children)[i].name = ChildName(specs[k], c)
      <4>1. HasChild(x, ChildName(specs[k], c)) \/ \E i \in DOMAIN children : children[i].name = ChildName(specs[k], c)
        BY <1>2, <2>6, <3>2 DEF Pending, x
      <4> QED BY <1>4, <2>5, <4>1
    <3> QED BY <3>1, <3>2 DEF Pending, y
  <2>8. /\ j \in BreakoutJobs /\ j.devices = job[u].devices /\ j.specs = specs /\ j.children = Tail(children)
        /\ last => j.op = "breakout" /\ j.left = Tail(left)
        /\ ~last => j.op = "children" /\ j.left = left /\ Tail(children) # <<>>
    <3>1. ~last => Tail(children) # <<>>
      BY <1>4
    <3> QED BY <1>0, <1>1, <1>3, <1>4, <3>1 DEF BreakoutJobs
  <2> HIDE DEF j
  <2>9. j \in Jobs /\ j.op \in {"breakout", "children"} /\ Moves(u, j)
    BY <2>1, <2>8, JobsAre DEF Moves, Scopes
  <2>10. job'[u] = j
    BY <2>9, MovesOn DEF LInv
  <2>11. last => Complete(d, specs)'
    <3>1. last => DOMAIN Tail(children) = {}
      <4> PICK t : t = Tail(children)
        OBVIOUS
      <4>1. t \in Seq(Ports)
        BY <1>4
      <4>2. DOMAIN t = 1..Len(t)
        BY <4>1, Sequence
      <4> QED BY <1>4, <4>2
    <3> QED BY <2>7, <3>1 DEF Pending, Complete
  <2>12. \A e \in DOMAIN world.devices : Complete(e, specs) => Complete(e, specs)'
    BY <1>1, <1>5, <2>2, <2>3, CompleteStays
  <2>13. BreakoutOf(u)'
    <3>1. /\ ToSet(j.left) \subseteq ToSet(j.devices) /\ ToSet(j.devices) \subseteq DOMAIN world'.devices
      BY <1>1, <1>3, <2>2, <2>8
    <3>2. \A e \in ToSet(j.devices) : e \in ToSet(j.left) \/ Complete(e, specs)'
      <4>1. CASE last
        BY <1>1, <1>3, <2>8, <2>11, <2>12, <4>1
      <4>2. CASE ~last
        BY <1>1, <2>8, <2>12, <4>2
      <4> QED BY <4>1, <4>2
    <3>3. j.op = "children" => j.left # <<>> /\ j.children # <<>> /\ Pending(d, specs, Tail(children))'
      BY <1>2, <2>7, <2>8
    <3> QED BY <1>0, <2>8, <2>10, <3>1, <3>2, <3>3 DEF BreakoutOf, Op
  <2> QED BY <2>1, <2>2, <2>3, <2>9, <2>13, BreakoutStepKeeps
<1> QED BY <1>7, <1>8

-----------------------------------------------------------------------------
(* The racks of a stamp                                                     *)

\* A canvas on which racks were drawn is as good as it was before.
LEMMA DrawnAlike ==
  ASSUME NEW o \in Seq(Objects), NEW drawn \in Seq(Drawings), NEW force \in BOOLEAN, NEW y,
         AllDrawn(o, drawn, force, Len(drawn), y), NEW n, NamesRacks(o, n),
         \A k \in DOMAIN drawn : drawn[k].rack \in 0..n
  PROVE  /\ y \in Seq(Objects) /\ NamesRacks(y, n)
         /\ \A rack : Once(o, rack) => Once(y, rack)
<1>1. DOMAIN drawn = 1..Len(drawn) /\ DOMAIN o = 1..Len(o)
  BY Sequence
<1>2. y \in Seq(Objects)
  BY DEF AllDrawn
<1>3. DOMAIN y = 1..Len(y)
  BY <1>2, Sequence
<1>4. \A i \in 1..Len(y) : (\E j \in 1..Len(drawn) : drawn[j].rack = y[i].rack) \/ (i \in 1..Len(o) /\ y[i] = o[i])
  BY DEF AllDrawn
<1>5. \A j \in 1..Len(drawn) : \A i, m \in 1..Len(y) : y[i].rack = drawn[j].rack /\ y[m].rack = drawn[j].rack => i = m
  BY DEF AllDrawn
<1>6. NamesRacks(y, n)
  BY <1>1, <1>3, <1>4 DEF NamesRacks
<1>7. ASSUME NEW rack, Once(o, rack) PROVE Once(y, rack)
  <2> SUFFICES ASSUME NEW i \in DOMAIN y, NEW k \in DOMAIN y, y[i].rack = rack, y[k].rack = rack PROVE i = k
    BY DEF Once
  <2>1. CASE \E j \in 1..Len(drawn) : drawn[j].rack = rack
    BY <1>3, <1>5, <2>1
  <2>2. CASE \A j \in 1..Len(drawn) : drawn[j].rack # rack
    <3>1. i \in 1..Len(o) /\ k \in 1..Len(o) /\ o[i].rack = rack /\ o[k].rack = rack
      BY <1>3, <1>4, <2>2
    <3> QED BY <1>1, <1>7, <3>1 DEF Once
  <2> QED BY <2>1, <2>2
<1> QED BY <1>2, <1>6, <1>7

\* The places where the racks of a job are drawn
LEMMA DrawnPlaces ==
  ASSUME NEW racks \in Seq([rack : Nat, from : Int]), NEW drawn,
         drawn = [k \in DOMAIN racks |->
                     [rack |-> racks[k].rack, at |-> CHOOSE c \in CanvasCoordinates(racks[k].from, "meters") : TRUE]]
  PROVE  /\ drawn \in Seq(Drawings) /\ DOMAIN drawn = DOMAIN racks
         /\ \A k \in DOMAIN racks : drawn[k].rack = racks[k].rack
<1>1. Len(racks) \in Nat /\ DOMAIN racks = 1..Len(racks) /\ \A k \in 1..Len(racks) : racks[k] \in [rack : Nat, from : Int]
  BY Sequence
<1>2. ASSUME NEW v \in Int PROVE (CHOOSE c \in CanvasCoordinates(v, "meters") : TRUE) \in Int
  <2>1. "meters" \in Units
    BY DEF Units
  <2>2. CanvasCoordinates(v, "meters") # {} /\ CanvasCoordinates(v, "meters") \subseteq Int
    BY <2>1, EveryPlacementIsDrawn
  <2> QED BY <2>2
<1>3. \A k \in 1..Len(racks) : drawn[k] \in Drawings /\ drawn[k].rack = racks[k].rack
  BY <1>1, <1>2 DEF Drawings
<1>4. drawn \in [1..Len(racks) -> Drawings]
  BY <1>1, <1>3
<1>5. drawn \in Seq(Drawings)
  BY <1>1, <1>4, IsSequence
<1> QED BY <1>1, <1>3, <1>4, <1>5

\* The racks of a stamp are drawn on a copy of the canvas.
LEMMA DrawStampedKeeps ==
  ASSUME LInv, NEW u \in Users, DrawStamped(u)
  PROVE  LInv'
<1>0. PICK s, racks, force, read : s = job[u].scope /\ racks = job[u].racks /\ force = job[u].force /\ read = canvas[s].objects
  OBVIOUS
<1>1. PICK drawn : drawn = [k \in DOMAIN racks |->
                               [rack |-> racks[k].rack, at |-> CHOOSE c \in CanvasCoordinates(racks[k].from, "meters") : TRUE]]
  OBVIOUS
<1>2. PICK new : new = DrawRacks(read, drawn, force)
  OBVIOUS
<1> DEFINE j == IF new = read THEN Idle
                ELSE [op |-> "save", scope |-> s, force |-> force, drawn |-> drawn, read |-> read, new |-> new]
<1>3. canvas' = [canvas EXCEPT ![s].exists = TRUE] /\ Continue(u, j) /\ world' = world /\ Op(u) = "draw"
  BY <1>0, <1>1, <1>2 DEF DrawStamped, Op
<1>4. s \in Scopes /\ racks \in Seq([rack : Nat, from : Int]) /\ force \in BOOLEAN
  <2>1. job[u] \in DrawJobs
    BY <1>3, StateFacts, JobShape DEF Op
  <2> QED BY <1>0, <2>1 DEF DrawJobs
<1>5. drawn \in Seq(Drawings) /\ DOMAIN drawn = DOMAIN racks /\ \A k \in DOMAIN racks : drawn[k].rack = racks[k].rack
  BY <1>1, <1>4, DrawnPlaces
<1>6. canvas \in [Scopes -> Canvases] /\ read \in Seq(Objects) /\ read \in Documents /\ world \in WorldRows
  BY <1>0, <1>4, StateFacts
<1>7. /\ \A i, k \in DOMAIN drawn : drawn[i].rack = drawn[k].rack => i = k
      /\ \A k \in DOMAIN drawn : drawn[k].rack \in RacksOf(u)
      /\ {d.rack : d \in ToSet(drawn)} \subseteq RacksOf(u)
  <2>1. \A i, k \in DOMAIN racks : racks[i].rack = racks[k].rack => i = k
    BY <1>0, <1>3 DEF LInv, DrawingInOrder, DrawingOf
  <2>2. RacksOf(u) = {d.rack : d \in ToSet(racks)}
    BY <1>0, <1>3 DEF RacksOf
  <2>3. \A k \in DOMAIN racks : racks[k].rack \in RacksOf(u)
    BY <2>2 DEF ToSet
  <2>4. \A k \in DOMAIN drawn : drawn[k].rack \in RacksOf(u)
    BY <1>5, <2>3
  <2>5. {d.rack : d \in ToSet(drawn)} \subseteq RacksOf(u)
    BY <2>4 DEF ToSet
  <2> QED BY <1>5, <2>1, <2>4, <2>5
<1>8. /\ \A k \in DOMAIN drawn : drawn[k].rack \in DOMAIN world.racks
      /\ \A o \in Documents : \A v \in Users : \A rack \in RacksOf(v) : Once(o, rack)
  BY <1>7 DEF LInv, DrawnOnce
<1>9. AllDrawn(read, drawn, force, Len(drawn), new)
  <2>1. \A k \in DOMAIN drawn : Once(read, drawn[k].rack)
    BY <1>6, <1>7, <1>8
  <2> QED BY <1>2, <1>4, <1>5, <1>6, <1>7, <2>1, DrawRacksDraws
<1>10. /\ new \in Seq(Objects) /\ NamesRacks(new, Len(world.racks))
       /\ \A v \in Users : \A rack \in RacksOf(v) : Once(new, rack)
  <2>1. DOMAIN world.racks \subseteq 0..Len(world.racks)
    BY <1>6, RackFacts
  <2>2. NamesRacks(read, Len(world.racks)) /\ \A k \in DOMAIN drawn : drawn[k].rack \in 0..Len(world.racks)
    BY <1>6, <1>8, <2>1 DEF LInv, RacksAreKnown
  <2>3. new \in Seq(Objects) /\ NamesRacks(new, Len(world.racks)) /\ \A rack : Once(read, rack) => Once(new, rack)
    <3> PICK n : n = Len(world.racks)
      OBVIOUS
    <3> QED BY <1>4, <1>5, <1>6, <1>9, <2>2, DrawnAlike
  <2> QED BY <1>6, <1>8, <2>3
<1>11. canvas' \in [Scopes -> Canvases] /\ \A r \in Scopes : canvas'[r].objects = canvas[r].objects
  <2>1. canvas[s] \in Canvases
    BY <1>4, <1>6
  <2>2. [canvas[s] EXCEPT !.exists = TRUE] \in Canvases /\ [canvas[s] EXCEPT !.exists = TRUE].objects = canvas[s].objects
    BY <2>1 DEF Canvases
  <2> QED BY <1>3, <1>4, <1>6, <2>2
<1>12. /\ j \in Jobs /\ j.op \in {"idle", "save"}
       /\ j.op = "save" => j.read = read /\ j.new = new /\ j.drawn = drawn /\ j.force = force
       /\ Draws(j) \subseteq RacksOf(u)
  <2>1. CASE new = read
    BY <2>1, IdleIsJob DEF Draws
  <2>2. CASE new # read
    <3>1. j = [op |-> "save", scope |-> s, force |-> force, drawn |-> drawn, read |-> read, new |-> new]
      BY <2>2
    <3>2. j \in SaveJobs
      BY <1>4, <1>5, <1>6, <1>10, <3>1 DEF SaveJobs
    <3> QED BY <1>7, <3>1, <3>2, JobsAre DEF Draws
  <2> QED BY <2>1, <2>2
<1> HIDE DEF j
<1>13. Moves(u, j)
  BY <1>3, <1>11 DEF Moves, Scopes
<1> DEFINE New == {new}
<1>14. /\ \A r \in Scopes : canvas'[r].objects \in Documents \cup New
       /\ j.op = "edit" => j.objects \in Documents \cup New
       /\ j.op = "save" => j.read \in Documents \cup New /\ j.new \in Documents \cup New
       /\ \A o \in New : NamesRacks(o, Len(world'.racks)) /\ \A v \in Users : \A rack \in RacksOf(v) : Once(o, rack)
  BY <1>3, <1>6, <1>10, <1>11, <1>12, StateFacts
<1> HIDE DEF New
<1>15. Documents' \subseteq Documents \cup New
  BY <1>12, <1>13, <1>14, DocumentsAfter DEF LInv
<1>16. world' \in WorldRows /\ Len(world.racks) <= Len(world'.racks) /\ Grown
  BY <1>3, StateFacts, WorldStays
<1>17. RacksAreKnown' /\ DrawnOnce'
  BY <1>12, <1>13, <1>14, <1>15, <1>16, DrawingsAfter
<1>18. DrawingInOrder'
  BY <1>2, <1>7, <1>12, <1>13, DrawingOfAfter
<1>19. BreakoutOf(u)'
  <2>1. job'[u] = j
    BY <1>12, <1>13, MovesOn DEF LInv
  <2> QED BY <1>12, <2>1 DEF BreakoutOf, Op
<1> QED BY <1>11, <1>12, <1>13, <1>16, <1>17, <1>18, <1>19, Keeps

\* The tables after a stamp that was committed
LEMMA WorldGrows ==
  ASSUME NEW w \in WorldRows, NEW tx \in Txs, Longer(w.racks, tx.racks), Longer(w.devices, tx.devices)
  PROVE  /\ World(tx) \in WorldRows
         /\ Len(w.racks) \in Nat /\ Len(tx.racks) \in Nat /\ Len(w.racks) <= Len(tx.racks)
         /\ DOMAIN w.racks = 1..Len(w.racks) /\ DOMAIN tx.racks = 1..Len(tx.racks)
         /\ \A i \in 1..Len(tx.racks) : tx.racks[i].at \in Int
         /\ \A d \in DOMAIN w.devices : d \in DOMAIN tx.devices /\ tx.devices[d] = w.devices[d]
<1>1. /\ tx.places \in Seq(PlaceRows) /\ tx.racks \in Seq(RackRows) /\ tx.devices \in Seq(DeviceRows)
      /\ tx.cables \in SUBSET [a : Ends, b : Ends]
  BY DEF Txs, TxRows
<1>2. World(tx) \in WorldRows
  BY <1>1 DEF World, WorldRows
<1>3. w.racks \in Seq(RackRows) /\ w.devices \in Seq(DeviceRows)
  BY DEF WorldRows
<1>4. PICK a, b, c, d : a = w.racks /\ b = tx.racks /\ c = w.devices /\ d = tx.devices
  OBVIOUS
<1>5. /\ a \in Seq(RackRows) /\ b \in Seq(RackRows) /\ c \in Seq(DeviceRows) /\ d \in Seq(DeviceRows)
      /\ Longer(a, b) /\ Longer(c, d)
  BY <1>1, <1>3, <1>4
<1>6. /\ Len(a) \in Nat /\ DOMAIN a = 1..Len(a) /\ Len(b) \in Nat /\ DOMAIN b = 1..Len(b) /\ \A i \in 1..Len(b) : b[i] \in RackRows
      /\ Len(c) \in Nat /\ DOMAIN c = 1..Len(c) /\ Len(d) \in Nat /\ DOMAIN d = 1..Len(d)
  BY <1>5, Sequence
<1>7. \A i \in 1..Len(b) : b[i].at \in Int
  BY <1>6 DEF RackRows
<1>8. Len(a) <= Len(b) /\ \A i \in DOMAIN c : i \in DOMAIN d /\ d[i] = c[i]
  BY <1>5, <1>6 DEF Longer
<1> QED BY <1>2, <1>4, <1>6, <1>7, <1>8

\* The racks of the stamp, in the order in which they are drawn
StampedRacks(w, tx) == [k \in 1..(Len(tx.racks) - Len(w.racks)) |-> Len(w.racks) + 1 + k - 1]
ToDraw(new, tx) == [k \in DOMAIN new |-> [rack |-> new[k], from |-> tx.racks[new[k]].at]]

\* The racks to draw are those that the stamp added, each once.
LEMMA RacksToDraw ==
  ASSUME NEW w \in WorldRows, NEW tx \in Txs, Longer(w.racks, tx.racks), Longer(w.devices, tx.devices), NEW draw,
         draw = ToDraw(StampedRacks(w, tx), tx)
  PROVE  /\ draw \in Seq([rack : Nat, from : Int])
         /\ \A i, k \in DOMAIN draw : draw[i].rack = draw[k].rack => i = k
         /\ \A k \in DOMAIN draw : draw[k].rack \in DOMAIN tx.racks /\ draw[k].rack > Len(w.racks)
<1>1. PICK m, n : m = Len(w.racks) /\ n = Len(tx.racks)
  OBVIOUS
<1>2. m \in Nat /\ n \in Nat /\ m <= n /\ DOMAIN tx.racks = 1..n /\ \A i \in 1..n : tx.racks[i].at \in Int
  BY <1>1, WorldGrows
<1>3. PICK new : new = StampedRacks(w, tx)
  OBVIOUS
<1>4. DOMAIN new = 1..(n - m) /\ \A k \in 1..(n - m) : new[k] = m + 1 + k - 1
  BY <1>1, <1>3 DEF StampedRacks
<1>5. \A k \in 1..(n - m) : new[k] = m + k /\ new[k] \in 1..n /\ new[k] > m
  BY <1>2, <1>4
<1>6. DOMAIN draw = 1..(n - m) /\ \A k \in 1..(n - m) : draw[k] = [rack |-> new[k], from |-> tx.racks[new[k]].at]
  BY <1>3, <1>4 DEF ToDraw
<1>7. \A k \in 1..(n - m) : draw[k] \in [rack : Nat, from : Int] /\ draw[k].rack = m + k
  <2> SUFFICES ASSUME NEW k \in 1..(n - m) PROVE draw[k] \in [rack : Nat, from : Int] /\ draw[k].rack = m + k
    OBVIOUS
  <2>1. PICK c : c = new[k]
    OBVIOUS
  <2>2. c = m + k /\ c \in 1..n /\ c \in Nat
    BY <1>2, <1>5, <2>1
  <2>3. tx.racks[c].at \in Int
    BY <1>2, <2>2
  <2>4. draw[k] = [rack |-> c, from |-> tx.racks[c].at]
    BY <1>6, <2>1
  <2> QED BY <2>2, <2>3, <2>4
<1>8. draw \in Seq([rack : Nat, from : Int])
  <2>1. draw = [k \in DOMAIN new |-> draw[k]]
    BY <1>3, <1>4, <1>6 DEF ToDraw
  <2>2. draw \in [1..(n - m) -> [rack : Nat, from : Int]] /\ n - m \in Nat
    BY <1>2, <1>4, <1>7, <2>1
  <2> QED BY <2>2, IsSequence
<1>9. \A i, k \in DOMAIN draw : draw[i].rack = draw[k].rack => i = k
  BY <1>2, <1>6, <1>7
<1>10. \A k \in DOMAIN draw : draw[k].rack \in DOMAIN tx.racks /\ draw[k].rack > m
  BY <1>2, <1>5, <1>6, <1>7
<1> QED BY <1>1, <1>8, <1>9, <1>10

\* A stamp commits, or fails and leaves nothing.
LEMMA StampKeeps ==
  ASSUME LInv, NEW u \in Users, Stamp(u)
  PROVE  LInv'
<1>1. PICK r \in StampRequests :
        /\ r.scope \in 0..Len(world.places)
        /\ LET tx == StampSpatialTemplate(world, r.template, r.scope, r.variables)
               first == Len(world.racks) + 1
               new == [k \in 1..(Len(tx.racks) - Len(world.racks)) |-> first + k - 1]
           IN  /\ world' = IF tx.failed THEN world ELSE World(tx)
               /\ Begin(u, IF tx.failed \/ ~r.sync \/ new = <<>> THEN Idle
                           ELSE [op |-> "draw", scope |-> r.scope, force |-> r.force,
                                 racks |-> [k \in DOMAIN new |-> [rack |-> new[k], from |-> tx.racks[new[k]].at]]])
        /\ canvas' = canvas
  BY DEF Stamp
<1>2. PICK tx : tx = StampSpatialTemplate(world, r.template, r.scope, r.variables)
  OBVIOUS
<1>3. PICK w : w = world
  OBVIOUS
<1>4. w \in WorldRows /\ tx \in Txs /\ Longer(w.racks, tx.racks) /\ Longer(w.devices, tx.devices)
  <2>1. w \in WorldRows /\ r.scope \in 0..Len(w.places)
    BY <1>1, <1>3, StateFacts
  <2>2. PICK t, scope, variables : t = r.template /\ scope = r.scope /\ variables = r.variables
    OBVIOUS
  <2>3. IsTemplate(t) /\ \A x \in DOMAIN variables : variables[x] \in Int \cup {NotANumber}
    BY <2>2, RequestsAssumption
  <2>4. tx = StampSpatialTemplate(w, t, scope, variables)
    BY <1>2, <1>3, <2>2
  <2> QED BY <2>1, <2>2, <2>3, <2>4, StampAdds
<1>5. PICK new : new = StampedRacks(w, tx)
  OBVIOUS
<1>6. PICK draw : draw = ToDraw(new, tx)
  OBVIOUS
<1> DEFINE j == IF tx.failed \/ ~r.sync \/ new = <<>> THEN Idle
                ELSE [op |-> "draw", scope |-> r.scope, force |-> r.force, racks |-> draw]
<1>7. Begin(u, j) /\ world' = (IF tx.failed THEN world ELSE World(tx)) /\ canvas' = canvas
  BY <1>1, <1>2, <1>3, <1>5, <1>6 DEF StampedRacks, ToDraw
<1>8. /\ draw \in Seq([rack : Nat, from : Int])
      /\ \A i, k \in DOMAIN draw : draw[i].rack = draw[k].rack => i = k
      /\ \A k \in DOMAIN draw : draw[k].rack \in DOMAIN tx.racks /\ draw[k].rack > Len(w.racks)
  BY <1>4, <1>5, <1>6, RacksToDraw
<1>9. /\ j \in Jobs /\ j.op \in {"idle", "draw"}
      /\ j.op = "draw" => j.racks = draw /\ ~tx.failed
  <2>1. CASE tx.failed \/ ~r.sync \/ new = <<>>
    BY <2>1, IdleIsJob
  <2>2. CASE ~(tx.failed \/ ~r.sync \/ new = <<>>)
    <3>1. j = [op |-> "draw", scope |-> r.scope, force |-> r.force, racks |-> draw]
      BY <2>2
    <3>2. r.scope \in Scopes /\ r.force \in BOOLEAN
      BY RequestsAssumption DEF LInv, ScopesAreThere
    <3>3. j \in DrawJobs
      BY <1>8, <3>1, <3>2 DEF DrawJobs
    <3> QED BY <2>2, <3>1, <3>3, JobsAre
  <2> QED BY <2>1, <2>2
<1> HIDE DEF j
<1>10. Moves(u, j)
  BY <1>7 DEF Moves, Scopes
<1>11. canvas' \in [Scopes -> Canvases]
  BY <1>7, StateFacts
<1>12. /\ Len(world.racks) \in Nat /\ Len(world'.racks) \in Nat /\ Len(world.racks) <= Len(world'.racks)
       /\ DOMAIN world.racks = 1..Len(world.racks) /\ DOMAIN world'.racks = 1..Len(world'.racks)
       /\ world' \in WorldRows /\ Grown
       /\ ~tx.failed => world'.racks = tx.racks
  <2>1. CASE tx.failed
    <3>1. world' = world /\ world \in WorldRows
      BY <1>7, <2>1, StateFacts
    <3> QED BY <2>1, <3>1, WorldStays, RackFacts
  <2>2. CASE ~tx.failed
    <3>1. world' = World(tx)
      BY <1>7, <2>2
    <3>2. world'.racks = tx.racks /\ world'.devices = tx.devices
      BY <3>1 DEF World
    <3>3. Grown
      BY <1>3, <1>4, <3>2, WorldGrows DEF Grown, Grows
    <3> QED BY <1>3, <1>4, <3>1, <3>2, <3>3, WorldGrows
  <2> QED BY <2>1, <2>2
<1>13. Documents' \subseteq Documents
  <2> DEFINE New == {}
  <2>1. /\ \A s \in Scopes : canvas'[s].objects \in Documents \cup New
        /\ j.op = "edit" => j.objects \in Documents \cup New
        /\ j.op = "save" => j.read \in Documents \cup New /\ j.new \in Documents \cup New
    BY <1>7, <1>9, StateFacts
  <2>2. New = {}
    OBVIOUS
  <2> HIDE DEF New
  <2>3. Documents' \subseteq Documents \cup New
    BY <1>9, <1>10, <2>1, DocumentsAfter DEF LInv
  <2> QED BY <2>2, <2>3
<1>14. \A o \in Documents : NamesRacks(o, Len(world.racks))
  BY DEF LInv, RacksAreKnown
<1>15. RacksAreKnown'
  <2>1. \A o \in Documents' : NamesRacks(o, Len(world'.racks))
    BY <1>12, <1>13, <1>14 DEF NamesRacks
  <2> QED BY <2>1 DEF RacksAreKnown
<1>16. job'[u] = j /\ \A v \in Users : v # u => job'[v] = job[v]
  BY <1>9, <1>10, MovesOn DEF LInv
<1>17. DrawnOnce'
  <2>1. ASSUME NEW v \in Users, NEW rack \in RacksOf(v)'
        PROVE  rack \in DOMAIN world'.racks /\ \A o \in Documents' : Once(o, rack)
    <3>1. CASE v = u
      <4>1. j.op = "draw" /\ rack \in {d.rack : d \in ToSet(draw)}
        BY <1>9, <1>16, <2>1, <3>1 DEF RacksOf, Op
      <4>2. PICK k \in DOMAIN draw : rack = draw[k].rack
        BY <4>1 DEF ToSet
      <4>3. rack \in DOMAIN world'.racks /\ rack > Len(world.racks)
        BY <1>3, <1>8, <1>9, <1>12, <4>1, <4>2
      <4>4. ASSUME NEW o \in Documents PROVE Once(o, rack)
        <5>1. \A i \in DOMAIN o : o[i].rack # rack
          BY <1>12, <1>14, <4>3 DEF NamesRacks
        <5> QED BY <5>1 DEF Once
      <4> QED BY <1>13, <4>3, <4>4
    <3>2. CASE v # u
      <4>1. rack \in RacksOf(v)
        BY <1>16, <2>1, <3>2 DEF RacksOf, Op
      <4>2. rack \in DOMAIN world.racks /\ \A o \in Documents : Once(o, rack)
        BY <4>1 DEF LInv, DrawnOnce
      <4>3. DOMAIN world.racks \subseteq DOMAIN world'.racks
        BY <1>12
      <4> QED BY <1>13, <4>2, <4>3
    <3> QED BY <3>1, <3>2
  <2> QED BY <2>1 DEF DrawnOnce
<1>18. DrawingInOrder'
  BY <1>8, <1>9, <1>10, DrawingOfAfter
<1>19. BreakoutOf(u)'
  BY <1>9, <1>16 DEF BreakoutOf, Op
<1> QED BY <1>9, <1>10, <1>11, <1>12, <1>15, <1>17, <1>18, <1>19, Keeps

-----------------------------------------------------------------------------
(* The invariant holds throughout                                           *)

\* Every site is in order before the first operation.
LEMMA InitHolds == LayoutInit => LInv
<1> SUFFICES ASSUME LayoutInit PROVE LInv
  OBVIOUS
<1>1. PICK w \in Worlds : world = w.world /\ canvas = w.canvas
  BY DEF LayoutInit
<1>2. job = [u \in Users |-> Idle] /\ begun = 0
  BY DEF LayoutInit
<1>3. /\ world \in WorldRows /\ canvas \in [Scopes -> Canvases] /\ Scopes \subseteq Nat
      /\ \A r \in StampRequests : r.scope \in Scopes
      /\ \A s \in Scopes : NamesRacks(canvas[s].objects, Len(world.racks))
  BY <1>1, WorldsAssumption DEF Scopes
<1>4. \A u \in Users : Op(u) = "idle"
  BY <1>2, IdleIsJob DEF Op
<1>5. LayoutTypeOK
  <2>1. begun \in 0..MaxOperations
    BY <1>2, BoundsAssumption
  <2>2. job \in [Users -> Jobs]
    BY <1>2, IdleIsJob
  <2> QED BY <1>3, <2>1, <2>2 DEF LayoutTypeOK
<1>6. \A u \in Users : Copies(u) = {} /\ RacksOf(u) = {}
  BY <1>4 DEF Copies, RacksOf
<1>7. RacksAreKnown
  <2>1. \A o \in Documents : \E s \in Scopes : o = canvas[s].objects
    BY <1>6 DEF Documents
  <2> QED BY <1>3, <2>1 DEF RacksAreKnown
<1>8. ScopesAreThere /\ DrawnOnce
  BY <1>3, <1>6 DEF ScopesAreThere, DrawnOnce
<1>9. DrawingInOrder /\ BreakoutInOrder
  BY <1>4 DEF DrawingInOrder, DrawingOf, BreakoutInOrder, BreakoutOf
<1> QED BY <1>5, <1>7, <1>8, <1>9 DEF LInv

\* Every step keeps the invariant.
LEMMA NextKeeps == LInv /\ [LayoutNext]_layout => LInv'
<1> SUFFICES ASSUME LInv, [LayoutNext]_layout PROVE LInv'
  OBVIOUS
<1>1. CASE UNCHANGED layout
  BY <1>1, StutterKeeps
<1>2. ASSUME NEW u \in Users, Stamp(u) PROVE LInv'
  BY <1>2, StampKeeps
<1>3. ASSUME NEW u \in Users, DrawStamped(u) PROVE LInv'
  BY <1>3, DrawStampedKeeps
<1>4. ASSUME NEW u \in Users, SaveDrawing(u) PROVE LInv'
  BY <1>4, SaveDrawingKeeps
<1>5. ASSUME NEW u \in Users, Reconcile(u) PROVE LInv'
  BY <1>5, ReconcileKeeps
<1>6. ASSUME NEW u \in Users, ReconcileObject(u) PROVE LInv'
  BY <1>6, ReconcileObjectKeeps
<1>7. ASSUME NEW u \in Users, BreakOut(u) PROVE LInv'
  BY <1>7, BreakOutKeeps
<1>8. ASSUME NEW u \in Users, ReadDevice(u) PROVE LInv'
  BY <1>8, ReadDeviceKeeps
<1>9. ASSUME NEW u \in Users, CreateChild(u) PROVE LInv'
  BY <1>9, CreateChildKeeps
<1>10. ASSUME NEW u \in Users, OpenEditor(u) PROVE LInv'
  BY <1>10, OpenEditorKeeps
<1>11. ASSUME NEW u \in Users, SaveEdit(u) PROVE LInv'
  BY <1>11, SaveEditKeeps
<1>12. ASSUME NEW u \in Users, ReconcileDone(u) \/ BreakoutDone(u) \/ Abandon(u) PROVE LInv'
  <2>1. Continue(u, Idle) /\ UNCHANGED <<world, canvas>>
    BY <1>12 DEF ReconcileDone, BreakoutDone, Abandon
  <2> QED BY <2>1, EndKeeps
<1> QED BY <1>1, <1>2, <1>3, <1>4, <1>5, <1>6, <1>7, <1>8, <1>9, <1>10, <1>11, <1>12 DEF LayoutNext

(* The inductive invariant of the layout: canvases, and copies of canvases   *)
(* that may still be saved, name no rack that the database does not have;    *)
(* a rack that a stamp has yet to draw has at most one object in any of      *)
(* them; what a stamp will save is what it drew on what it read; and a       *)
(* breakout has completed every device that it has left behind.  It needs    *)
(* every action, because each of them reads, copies or changes one of these. *)
THEOREM LayoutInvariant == LayoutSpec => []LInv
BY InitHolds, NextKeeps, PTL DEF LayoutSpec

(* Locations, racks, devices, cables, canvases and the operations under way  *)
(* keep their types through every stamp, edit, reconciliation and breakout.  *)
THEOREM LayoutTypeCorrect == LayoutSpec => []LayoutTypeOK
<1>1. LInv => LayoutTypeOK
  BY DEF LInv
<1> QED BY <1>1, LayoutInvariant, PTL

-----------------------------------------------------------------------------
(* Steps                                                                    *)

(* A breakout that comes to its end has given every device all children of   *)
(* its specs, whatever other runs did to the same devices meanwhile and      *)
(* however often a run was cut short before                                  *)
(* (create_child_interfaces_from_breakout_spec, bulk_apply_breakout).        *)
THEOREM BreakoutsEndComplete == LayoutSpec => BreakoutIsComplete
<1> DEFINE A == \A u \in Users : BreakoutDone(u) =>
                  \A d \in ToSet(job[u].devices), k \in DOMAIN job[u].specs :
                      LET spec == job[u].specs[k]
                          ports == world.devices[d].ports
                      IN  HasParent(ports, spec) => \A c \in 0..(spec.count - 1) : HasChild(ports, ChildName(spec, c))
<1>1. LInv /\ [LayoutNext]_layout => [A]_layout
  <2> SUFFICES ASSUME LInv, NEW u \in Users, BreakoutDone(u), NEW d \in ToSet(job[u].devices)
               PROVE  Complete(d, job[u].specs)
    BY DEF Complete
  <2>1. job[u].op = "breakout" /\ job[u].left = <<>>
    BY DEF BreakoutDone
  <2>2. d \in ToSet(job[u].left) \/ Complete(d, job[u].specs)
    BY <2>1, BreakoutFacts
  <2>3. ToSet(<<>>) = {}
    BY DEF ToSet
  <2> QED BY <2>1, <2>2, <2>3
<1>2. LayoutSpec => [][A]_layout
  <2> HIDE DEF A
  <2> QED BY <1>1, LayoutInvariant, PTL DEF LayoutSpec
<1> QED BY <1>2 DEF BreakoutIsComplete

(* A reconciliation leaves a placement as it is when its object lies where   *)
(* the placement is drawn, in every unit: rounding never creeps              *)
(* (reconcile_floorplan_to_placements).                                      *)
THEOREM UnmovedPlacementsStay == LayoutSpec => UnmovedStaysPut
<1> DEFINE Unmoved(o) == /\ o.rack \in DOMAIN world.racks
                         /\ world.racks[o.rack].placed
                         /\ o.at \in CanvasCoordinates(world.racks[o.rack].at, world.racks[o.rack].unit)
           A == \A u \in Users : ReconcileObject(u) =>
                  LET o == Head(job[u].objects) IN Unmoved(o) => UNCHANGED world
<1>1. LInv /\ [LayoutNext]_layout => [A]_layout
  <2> SUFFICES ASSUME LInv, NEW u \in Users, ReconcileObject(u), Unmoved(Head(job[u].objects)) PROVE UNCHANGED world
    OBVIOUS
  <2>1. PICK o, w : o = Head(job[u].objects) /\ w = world
    OBVIOUS
  <2>2. CASE UNCHANGED world
    BY <2>2
  <2>3. CASE ~UNCHANGED world
    <3>1. PICK x \in PlacementCoordinates(o.at, w.racks[o.rack].unit) :
            w.racks[o.rack].placed /\ world' = [w EXCEPT !.racks[o.rack] = [w.racks[o.rack] EXCEPT !.at = x]]
      BY <2>1, <2>3 DEF ReconcileObject
    <3>2. w \in WorldRows /\ o.rack \in DOMAIN w.racks
      BY <2>1, StateFacts
    <3>3. PICK s, i, row : s = w.racks /\ i = o.rack /\ row = w.racks[o.rack]
      OBVIOUS
    <3>4. s \in Seq(RackRows) /\ i \in DOMAIN s /\ row \in RackRows
      <4>1. s \in Seq(RackRows) /\ i \in DOMAIN s
        BY <3>2, <3>3 DEF WorldRows
      <4> QED BY <3>3, <4>1, Sequence
    <3>5. row.at \in Int /\ row.unit \in Units
      BY <3>4 DEF RackRows
    <3>6. PlacementCoordinates(o.at, row.unit) = {row.at}
      <4>1. o.at \in CanvasCoordinates(row.at, row.unit)
        BY <2>1, <3>3
      <4> QED BY <3>5, <4>1, RoundTrip
    <3>7. x = row.at
      BY <3>1, <3>3, <3>6
    <3>8. [row EXCEPT !.at = x] = row
      BY <3>4, <3>7 DEF RackRows
    <3>9. [s EXCEPT ![i] = row] = s
      <4>1. s \in [1..Len(s) -> RackRows] /\ s[i] = row
        BY <3>3, <3>4, Sequence
      <4> QED BY <4>1
    <3>10. world' = [w EXCEPT !.racks = s]
      BY <3>1, <3>3, <3>8, <3>9
    <3>11. [w EXCEPT !.racks = s] = w
      BY <3>2, <3>3 DEF WorldRows
    <3> QED BY <2>1, <3>10, <3>11
  <2> QED BY <2>2, <2>3
<1>2. LayoutSpec => [][A]_layout
  <2> HIDE DEF A
  <2> QED BY <1>1, LayoutInvariant, PTL DEF LayoutSpec
<1> QED BY <1>2 DEF UnmovedStaysPut

(* If nobody has written the canvas between a stamp's read and its save, the *)
(* save leaves the objects of other racks alone, draws each of the stamp's   *)
(* racks in one object, where the placement is, and moves what an operator   *)
(* pinned only when forced, whatever was done before the read; a write that  *)
(* comes in between is lost, and nothing is claimed of it                    *)
(* (sync_rack_placements_to_floorplan).                                      *)
THEOREM StampsKeepTheCanvas == LayoutSpec => SyncKeepsCanvas
<1> DEFINE Kept(u) ==
             LET before == job[u].read
                 after == canvas'[job[u].scope].objects
                 racks == {d.rack : d \in ToSet(job[u].drawn)}
             IN  /\ \A i \in DOMAIN before : before[i].rack \notin racks => after[i] = before[i]
                 /\ \A d \in ToSet(job[u].drawn) :
                     /\ Cardinality(ObjectsOf(after, d.rack)) = 1
                     /\ \A i \in ObjectsOf(after, d.rack) :
                         \/ after[i].at = d.at
                         \/ i \in DOMAIN before /\ after[i] = before[i] /\ ManualOverride(before[i]) /\ ~job[u].force
           A == \A u \in Users : SaveDrawing(u) /\ canvas[job[u].scope].objects = job[u].read => Kept(u)
<1>1. LInv /\ [LayoutNext]_layout => [A]_layout
  <2> SUFFICES ASSUME LInv, NEW u \in Users, SaveDrawing(u) PROVE Kept(u)
    OBVIOUS
  <2>1. PICK before, after, drawn, force, s :
          before = job[u].read /\ after = job[u].new /\ drawn = job[u].drawn /\ force = job[u].force /\ s = job[u].scope
    OBVIOUS
  <2>2. Op(u) = "save" /\ job[u] \in SaveJobs
    BY StateFacts, JobShape DEF SaveDrawing, Op
  <2>3. /\ s \in Scopes /\ before \in Seq(Objects) /\ drawn \in Seq(Drawings) /\ force \in BOOLEAN
        /\ before \in Documents
    <3>1. job[u].read \in Copies(u)
      BY <2>2 DEF Copies
    <3> QED BY <2>1, <2>2, <3>1 DEF SaveJobs, Documents
  <2>4. canvas'[s].objects = after
    <3>1. canvas' = [canvas EXCEPT ![s].objects = after]
      BY <2>1 DEF SaveDrawing
    <3>2. canvas \in [Scopes -> Canvases] /\ canvas[s] \in Canvases
      BY <2>3, StateFacts
    <3>3. [canvas[s] EXCEPT !.objects = after].objects = after
      BY <3>2 DEF Canvases
    <3> QED BY <2>3, <3>1, <3>2, <3>3
  <2>5. /\ \A i, k \in DOMAIN drawn : drawn[i].rack = drawn[k].rack => i = k
        /\ after = DrawRacks(before, drawn, force)
    BY <2>1, <2>2 DEF LInv, DrawingInOrder, DrawingOf
  <2>6. \A k \in DOMAIN drawn : Once(before, drawn[k].rack)
    <3>1. \A k \in DOMAIN drawn : drawn[k].rack \in RacksOf(u)
      BY <2>1, <2>2 DEF RacksOf, ToSet
    <3> QED BY <2>3, <3>1 DEF LInv, DrawnOnce
  <2>7. AllDrawn(before, drawn, force, Len(drawn), after)
    BY <2>3, <2>5, <2>6, DrawRacksDraws
  <2>8. DOMAIN before = 1..Len(before) /\ DOMAIN drawn = 1..Len(drawn) /\ DOMAIN after = 1..Len(after)
    <3>1. after \in Seq(Objects)
      BY <2>7 DEF AllDrawn
    <3> QED BY <2>3, <3>1, Sequence
  <2>9. ASSUME NEW i \in DOMAIN before, before[i].rack \notin {d.rack : d \in ToSet(drawn)} PROVE after[i] = before[i]
    <3>1. \A j \in 1..Len(drawn) : drawn[j].rack # before[i].rack
      BY <2>8, <2>9 DEF ToSet
    <3> QED BY <2>7, <2>8, <3>1 DEF AllDrawn
  <2>10. ASSUME NEW d \in ToSet(drawn)
         PROVE  /\ Cardinality(ObjectsOf(after, d.rack)) = 1
                /\ \A i \in ObjectsOf(after, d.rack) :
                     \/ after[i].at = d.at
                     \/ i \in DOMAIN before /\ after[i] = before[i] /\ ManualOverride(before[i]) /\ ~force
    <3>1. PICK j \in 1..Len(drawn) : d = drawn[j]
      BY <2>8 DEF ToSet
    <3>2. /\ \E i \in 1..Len(after) : after[i].rack = d.rack
          /\ \A i \in 1..Len(after) : after[i].rack = d.rack =>
                after[i].at = d.at \/ (i \in 1..Len(before) /\ after[i] = before[i] /\ ManualOverride(before[i]) /\ ~force)
          /\ \A i, m \in 1..Len(after) : after[i].rack = d.rack /\ after[m].rack = d.rack => i = m
      BY <2>7, <3>1 DEF AllDrawn
    <3>3. PICK i \in 1..Len(after) : after[i].rack = d.rack
      BY <3>2
    <3>4. ObjectsOf(after, d.rack) = {i}
      BY <2>8, <3>2, <3>3 DEF ObjectsOf
    <3>5. Cardinality(ObjectsOf(after, d.rack)) = 1
      BY <3>4, FS_Singleton
    <3> QED BY <2>8, <3>2, <3>5 DEF ObjectsOf
  <2> QED BY <2>1, <2>4, <2>9, <2>10
<1>2. LayoutSpec => [][A]_layout
  <2> HIDE DEF A
  <2> QED BY <1>1, LayoutInvariant, PTL DEF LayoutSpec
<1> QED BY <1>2 DEF SyncKeepsCanvas
=============================================================================
