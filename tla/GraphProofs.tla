------------------------------ MODULE GraphProofs ------------------------------
(***************************************************************************)
(* For any graph, query and claims made meanwhile: a search measures the   *)
(* distances within its bound, a query's answer is that of the case as it  *)
(* read it, every chain it reports is one of the case, and the components  *)
(* and the overlaps of evidence are those of what was read.                *)
(***************************************************************************)
EXTENDS GraphViews, FiniteSetTheorems, WellFoundedInduction, TLAPS

-----------------------------------------------------------------------------
(***************************************************************************)
(* Induction over the numbers, from the fact that < is well-founded.       *)
(***************************************************************************)

\* A set of numbers has a least one, ...
LEMMA LeastNat ==
  ASSUME NEW T, T \subseteq Nat, T # {}
  PROVE  \E m \in T : \A k \in T : m <= k
<1> DEFINE R == {ss \in Nat \X Nat : ss[1] < ss[2]}
<1>1. IsWellFoundedOn(R, Nat)
  BY NatLessThanWellFounded DEF OpToRel
<1>2. \E x \in T : \A y \in T : <<y, x>> \notin R
  <2> HIDE DEF R
  <2> QED BY <1>1, WFMin
<1>3. \A x, y \in Nat : y < x => <<y, x>> \in R
  OBVIOUS
<1>4. \A x, y \in Nat : ~(y < x) => x <= y
  OBVIOUS
<1> HIDE DEF R
<1> QED BY <1>2, <1>3, <1>4

\* ... hence a set that has 0 and, of each of its numbers, the next has them all.
LEMMA SetInduction ==
  ASSUME NEW S, 0 \in S, \A n \in Nat : n \in S => n + 1 \in S
  PROVE  \A n \in Nat : n \in S
<1> DEFINE T == Nat \ S
<1> SUFFICES ASSUME T # {} PROVE FALSE
  OBVIOUS
<1>1. PICK m \in T : \A k \in T : m <= k
  <2> HIDE DEF T
  <2>1. T \subseteq Nat BY DEF T
  <2> QED BY <2>1, LeastNat
<1>2. m # 0
  OBVIOUS
<1>3. m - 1 \in Nat /\ m - 1 \notin T
  BY <1>1, <1>2
<1> QED BY <1>3

\* f[k] is G applied k times to a.
IsIteration(f, G, a, n) == f = [k \in 0 .. n |-> IF k = 0 THEN a ELSE G[f[k - 1]]]

\* What is defined by recursion over 0 .. n exists.
LEMMA Iterates ==
    ASSUME NEW D, NEW G \in [D -> D], NEW a \in D, NEW n \in Nat
    PROVE  \E f \in [0 .. n -> D] : IsIteration(f, G, a, n)
<1> DEFINE S == {m \in Nat : \E f \in [0 .. m -> D] : IsIteration(f, G, a, m)}
<1>1. 0 \in S
  <2> DEFINE f == [k \in 0 .. 0 |-> a]
  <2>1. f \in [0 .. 0 -> D] /\ IsIteration(f, G, a, 0)
    BY DEF IsIteration
  <2> HIDE DEF f
  <2> QED BY <2>1
<1>2. ASSUME NEW m \in Nat, m \in S PROVE m + 1 \in S
  <2>1. PICK f \in [0 .. m -> D] : IsIteration(f, G, a, m)
    BY <1>2
  <2> DEFINE g == [k \in 0 .. m + 1 |-> IF k = m + 1 THEN G[f[m]] ELSE f[k]]
  <2>2. g \in [0 .. m + 1 -> D]
    OBVIOUS
  <2>3. \A k \in 0 .. m : g[k] = f[k]
    OBVIOUS
  <2>4. ASSUME NEW k \in 0 .. m + 1 PROVE g[k] = IF k = 0 THEN a ELSE G[g[k - 1]]
    <3>1. CASE k = m + 1
      BY <3>1
    <3>2. CASE k \in 0 .. m
      <4>1. f[k] = IF k = 0 THEN a ELSE G[f[k - 1]]
        BY <2>1, <3>2 DEF IsIteration
      <4>2. k # 0 => k - 1 \in 0 .. m
        BY <3>2
      <4> HIDE DEF g
      <4> QED BY <2>3, <3>2, <4>1, <4>2
    <3> QED BY <3>1, <3>2
  <2>5. IsIteration(g, G, a, m + 1)
    BY <2>2, <2>4 DEF IsIteration
  <2>6. m + 1 \in Nat
    OBVIOUS
  <2> HIDE DEF g
  <2> QED BY <2>2, <2>5, <2>6
<1> HIDE DEF S
<1>3. n \in S
  BY <1>1, <1>2, SetInduction
<1> QED BY <1>3 DEF S

-----------------------------------------------------------------------------
(***************************************************************************)
(* Walks, without the recursion that enumerates them.                      *)
(***************************************************************************)

LEMMA StepsTyped ==
    ASSUME NEW E \in SUBSET Relationships, NEW way
    PROVE  StepsOf(E, way) \subseteq Steps
BY RelationshipsAssumption DEF StepsOf, Steps, Forward, Backward

\* One round of the recursion of WalksFrom, and the function it defines.
Extended(a, E, way, W) ==
    UNION {{Append(w, s) : s \in StepsFrom(IF w = <<>> THEN a ELSE w[Len(w)].to, E, way)} :
              w \in W}
IsTable(f, a, E, way, n) ==
    f = [k \in 0 .. n |-> IF k = 0 THEN {<<>>} ELSE Extended(a, E, way, f[k - 1])]
Table(a, E, way, n) == CHOOSE f : IsTable(f, a, E, way, n)

LEMMA TableIs ==
    ASSUME NEW a, NEW E \in SUBSET Relationships, NEW way, NEW n \in Nat
    PROVE  /\ WalksFrom(a, E, way, n) = Table(a, E, way, n)[n]
           /\ IsTable(Table(a, E, way, n), a, E, way, n)
           /\ \A k \in 0 .. n : Table(a, E, way, n)[k] \subseteq Seq(Steps)
<1> DEFINE D == SUBSET Seq(Steps)
           G == [W \in D |-> Extended(a, E, way, W)]
<1>1. WalksFrom(a, E, way, n) = Table(a, E, way, n)[n]
  BY DEF WalksFrom, Table, IsTable, Extended
<1>2. G \in [D -> D]
  <2> SUFFICES ASSUME NEW W \in D PROVE Extended(a, E, way, W) \in D
    OBVIOUS
  <2>1. \A e : StepsFrom(e, E, way) \subseteq Steps
    BY StepsTyped DEF StepsFrom
  <2> QED BY <2>1 DEF Extended
<1>3. {<<>>} \in D
  OBVIOUS
<1>4. PICK f \in [0 .. n -> D] : IsIteration(f, G, {<<>>}, n)
  <2> HIDE DEF D, G
  <2> QED BY <1>2, <1>3, Iterates
<1>5. \A k \in 0 .. n : k # 0 => G[f[k - 1]] = Extended(a, E, way, f[k - 1])
  OBVIOUS
<1>6. IsTable(f, a, E, way, n)
  BY <1>4, <1>5 DEF IsTable, IsIteration
<1> DEFINE t == Table(a, E, way, n)
<1>7. IsTable(t, a, E, way, n)
  BY <1>6 DEF Table
<1> HIDE DEF t
<1> DEFINE S == {k \in Nat : k <= n => t[k] \in D}
<1>8. 0 \in S
  BY <1>7 DEF IsTable
<1>9. ASSUME NEW k \in Nat, k \in S PROVE k + 1 \in S
  <2> SUFFICES ASSUME k + 1 <= n PROVE t[k + 1] \in D
    OBVIOUS
  <2>1. t[k] \in D /\ k \in 0 .. n /\ k + 1 \in 0 .. n /\ k + 1 # 0 /\ (k + 1) - 1 = k
    <3> HIDE DEF D
    <3> QED BY <1>9
  <2>2. t[k + 1] = Extended(a, E, way, t[k])
    BY <1>7, <2>1 DEF IsTable
  <2>3. Extended(a, E, way, t[k]) = G[t[k]]
    BY <2>1
  <2> HIDE DEF D, G, t
  <2> QED BY <1>2, <2>1, <2>2, <2>3
<1> HIDE DEF S
<1>10. \A k \in Nat : k \in S
  BY <1>8, <1>9, SetInduction
<1> QED BY <1>1, <1>7, <1>10 DEF S, t

LEMMA WalksNext ==
    ASSUME NEW a, NEW E \in SUBSET Relationships, NEW way, NEW n \in Nat
    PROVE  /\ WalksFrom(a, E, way, 0) = {<<>>}
           /\ WalksFrom(a, E, way, n + 1) = Extended(a, E, way, WalksFrom(a, E, way, n))
<1> DEFINE t == Table(a, E, way, n)
           u == Table(a, E, way, n + 1)
<1>0. /\ n + 1 \in Nat /\ n \in 0 .. n + 1 /\ n + 1 \in 0 .. n + 1
      /\ n + 1 # 0 /\ (n + 1) - 1 = n
  OBVIOUS
<1>1. IsTable(t, a, E, way, n) /\ WalksFrom(a, E, way, n) = t[n]
  BY TableIs
<1>2. IsTable(u, a, E, way, n + 1) /\ WalksFrom(a, E, way, n + 1) = u[n + 1]
  BY <1>0, TableIs
<1> HIDE DEF t, u
<1>3. WalksFrom(a, E, way, 0) = {<<>>}
  <2>1. IsTable(Table(a, E, way, 0), a, E, way, 0)
        /\ WalksFrom(a, E, way, 0) = Table(a, E, way, 0)[0]
    BY TableIs
  <2> QED BY <2>1 DEF IsTable
<1> DEFINE S == {k \in Nat : k <= n => t[k] = u[k]}
<1>4. 0 \in S
  <2>1. t[0] = {<<>>} BY <1>1 DEF IsTable
  <2>2. u[0] = {<<>>} BY <1>0, <1>2 DEF IsTable
  <2> QED BY <2>1, <2>2
<1>5. ASSUME NEW k \in Nat, k \in S PROVE k + 1 \in S
  <2> SUFFICES ASSUME k + 1 <= n PROVE t[k + 1] = u[k + 1]
    OBVIOUS
  <2>0. k + 1 \in 0 .. n /\ k + 1 \in 0 .. n + 1 /\ k + 1 # 0 /\ (k + 1) - 1 = k
    OBVIOUS
  <2>1. t[k + 1] = Extended(a, E, way, t[k])
    BY <1>1, <2>0 DEF IsTable
  <2>2. u[k + 1] = Extended(a, E, way, u[k])
    BY <1>2, <2>0 DEF IsTable
  <2> QED BY <1>5, <2>1, <2>2
<1> HIDE DEF S
<1>6. n \in S
  BY <1>4, <1>5, SetInduction
<1>7. u[n + 1] = Extended(a, E, way, u[n])
  BY <1>0, <1>2 DEF IsTable
<1> QED BY <1>1, <1>2, <1>3, <1>6, <1>7 DEF S

\* What a walk is, without the recursion.
IsPath(w, a, E, way) ==
    \A i \in 1 .. Len(w) : /\ w[i] \in StepsOf(E, way)
                           /\ w[i].from = IF i = 1 THEN a ELSE w[i - 1].to
EndOf(a, w) == IF w = <<>> THEN a ELSE w[Len(w)].to

LEMMA WalksAre ==
    ASSUME NEW a, NEW E \in SUBSET Relationships, NEW way, NEW n \in Nat
    PROVE  WalksFrom(a, E, way, n) = {w \in Seq(Steps) : Len(w) = n /\ IsPath(w, a, E, way)}
<1> DEFINE Is(k) == {w \in Seq(Steps) : Len(w) = k /\ IsPath(w, a, E, way)}
           S == {k \in Nat : WalksFrom(a, E, way, k) = Is(k)}
<1>0. StepsOf(E, way) \subseteq Steps
  BY StepsTyped
<1>1. 0 \in S
  <2>1. \A w \in Seq(Steps) : Len(w) = 0 <=> w = <<>>
    OBVIOUS
  <2>2. <<>> \in Seq(Steps) /\ IsPath(<<>>, a, E, way)
    BY DEF IsPath
  <2>3. Is(0) = {<<>>}
    BY <2>1, <2>2
  <2> QED BY <2>3, WalksNext
<1>2. ASSUME NEW k \in Nat, k \in S PROVE k + 1 \in S
  <2>1. WalksFrom(a, E, way, k + 1) = Extended(a, E, way, Is(k))
    <3> HIDE DEF Is
    <3> QED BY <1>2, WalksNext
  <2>2. ASSUME NEW v \in Extended(a, E, way, Is(k)) PROVE v \in Is(k + 1)
    <3>0. PICK w \in Is(k) : v \in {Append(w, s) : s \in StepsFrom(EndOf(a, w), E, way)}
      <4> HIDE DEF Is
      <4> QED BY <2>2 DEF Extended, EndOf
    <3>1. PICK s \in StepsFrom(EndOf(a, w), E, way) : v = Append(w, s)
      BY <3>0
    <3>2. s \in StepsOf(E, way) /\ s.from = EndOf(a, w) /\ s \in Steps
      BY <1>0 DEF StepsFrom
    <3>3. /\ v \in Seq(Steps) /\ Len(v) = k + 1 /\ v[k + 1] = s
          /\ \A i \in 1 .. k : v[i] = w[i]
      BY <3>1, <3>2
    <3>4. ASSUME NEW i \in 1 .. k + 1
          PROVE  /\ v[i] \in StepsOf(E, way)
                 /\ v[i].from = IF i = 1 THEN a ELSE v[i - 1].to
      <4>1. CASE i = k + 1
        <5>1. k = 0 => w = <<>>
          BY <3>1
        <5>2. k # 0 => w # <<>> /\ k \in 1 .. k /\ Len(w) = k
          BY <3>1
        <5> QED BY <3>2, <3>3, <4>1, <5>1, <5>2 DEF EndOf
      <4>2. CASE i \in 1 .. k
        <5>1. /\ w[i] \in StepsOf(E, way)
              /\ w[i].from = IF i = 1 THEN a ELSE w[i - 1].to
          BY <3>1, <4>2 DEF IsPath
        <5>2. i # 1 => i - 1 \in 1 .. k
          BY <4>2
        <5> QED BY <3>3, <4>2, <5>1, <5>2
      <4> QED BY <4>1, <4>2
    <3> QED BY <3>3, <3>4 DEF IsPath
  <2>3. ASSUME NEW v \in Is(k + 1) PROVE v \in Extended(a, E, way, Is(k))
    <3> DEFINE w == SubSeq(v, 1, k)
    <3>1. /\ w \in Seq(Steps) /\ Len(w) = k /\ v = Append(w, v[k + 1])
          /\ \A i \in 1 .. k : w[i] = v[i]
      <4>1. v \in Seq(Steps) /\ Len(v) = k + 1
        OBVIOUS
      <4> QED BY <4>1
    <3>2. \A i \in 1 .. k + 1 : /\ v[i] \in StepsOf(E, way)
                                /\ v[i].from = IF i = 1 THEN a ELSE v[i - 1].to
      BY DEF IsPath
    <3> HIDE DEF w
    <3>3. IsPath(w, a, E, way)
      <4> SUFFICES ASSUME NEW i \in 1 .. k
                   PROVE  /\ w[i] \in StepsOf(E, way)
                          /\ w[i].from = IF i = 1 THEN a ELSE w[i - 1].to
        BY <3>1 DEF IsPath
      <4>1. i # 1 => i - 1 \in 1 .. k
        OBVIOUS
      <4> QED BY <3>1, <3>2, <4>1
    <3>4. w \in Is(k)
      BY <3>1, <3>3
    <3>5. v[k + 1] \in StepsFrom(EndOf(a, w), E, way)
      <4>1. k = 0 => w = <<>>
        BY <3>1
      <4>2. k # 0 => w # <<>> /\ k \in 1 .. k
        BY <3>1
      <4>3. k + 1 \in 1 .. k + 1
        OBVIOUS
      <4> QED BY <3>1, <3>2, <4>1, <4>2, <4>3 DEF StepsFrom, EndOf
    <3> HIDE DEF Is
    <3> QED BY <3>1, <3>4, <3>5 DEF Extended, EndOf
  <2> HIDE DEF Is
  <2> QED BY <2>1, <2>2, <2>3
<1> HIDE DEF S
<1>3. n \in S
  BY <1>1, <1>2, SetInduction
<1> QED BY <1>3 DEF S

LEMMA WalksTo ==
    ASSUME NEW a, NEW b, NEW E \in SUBSET Relationships, NEW way, NEW n \in Nat
    PROVE  Walks(a, b, E, way, n) =
             {w \in Seq(Steps) : Len(w) = n /\ IsPath(w, a, E, way) /\ EndOf(a, w) = b}
<1>1. CASE n = 0
  <2>1. \A w \in Seq(Steps) : Len(w) = 0 <=> w = <<>>
    OBVIOUS
  <2>2. <<>> \in Seq(Steps) /\ IsPath(<<>>, a, E, way) /\ EndOf(a, <<>>) = a
    BY DEF IsPath, EndOf
  <2> QED BY <1>1, <2>1, <2>2 DEF Walks, EndOf
<1>2. CASE n # 0
  <2>1. \A w \in Seq(Steps) : Len(w) = n => w # <<>>
    BY <1>2
  <2> QED BY <1>2, <2>1, WalksAre DEF Walks, EndOf
<1> QED BY <1>1, <1>2

\* A walk goes on with a step from where it ends.
LEMMA PathAppend ==
    ASSUME NEW a, NEW E \in SUBSET Relationships, NEW way,
           NEW w \in Seq(Steps), IsPath(w, a, E, way),
           NEW s \in StepsFrom(EndOf(a, w), E, way)
    PROVE  /\ Append(w, s) \in Seq(Steps) /\ Len(Append(w, s)) = Len(w) + 1
           /\ IsPath(Append(w, s), a, E, way)
           /\ EndOf(a, Append(w, s)) = s.to
<1> DEFINE v == Append(w, s)
           k == Len(w)
<1>1. s \in Steps /\ s \in StepsOf(E, way) /\ s.from = EndOf(a, w)
  BY StepsTyped DEF StepsFrom
<1>2. /\ v \in Seq(Steps) /\ Len(v) = k + 1 /\ v[k + 1] = s /\ k \in Nat
      /\ \A i \in 1 .. k : v[i] = w[i]
  BY <1>1
<1> HIDE DEF v
<1>3. ASSUME NEW i \in 1 .. k + 1
      PROVE  v[i] \in StepsOf(E, way) /\ v[i].from = IF i = 1 THEN a ELSE v[i - 1].to
  <2>1. CASE i = k + 1
    <3>1. k = 0 => w = <<>>
      OBVIOUS
    <3>2. k # 0 => w # <<>> /\ k \in 1 .. k
      OBVIOUS
    <3> QED BY <1>1, <1>2, <2>1, <3>1, <3>2 DEF EndOf
  <2>2. CASE i \in 1 .. k
    <3>1. w[i] \in StepsOf(E, way) /\ w[i].from = IF i = 1 THEN a ELSE w[i - 1].to
      BY <2>2 DEF IsPath
    <3>2. i # 1 => i - 1 \in 1 .. k
      BY <1>2, <2>2
    <3> QED BY <1>2, <2>2, <3>1, <3>2
  <2> QED BY <1>2, <2>1, <2>2
<1>4. v # <<>>
  BY <1>2
<1>5. EndOf(a, v) = s.to
  BY <1>2, <1>4 DEF EndOf
<1> QED BY <1>2, <1>3, <1>5 DEF IsPath, v

\* The part of a walk that leads to its k-th entity, and the rest.
LEMMA PathSplit ==
    ASSUME NEW a, NEW E, NEW way, NEW w \in Seq(Steps), IsPath(w, a, E, way),
           NEW k \in 0 .. Len(w)
    PROVE  LET v == SubSeq(w, 1, k)
               u == SubSeq(w, k + 1, Len(w))
           IN  /\ v \in Seq(Steps) /\ Len(v) = k /\ IsPath(v, a, E, way)
               /\ EndOf(a, v) = IF k = 0 THEN a ELSE w[k].to
               /\ u \in Seq(Steps) /\ Len(u) = Len(w) - k
               /\ IsPath(u, EndOf(a, v), E, way)
               /\ EndOf(EndOf(a, v), u) = EndOf(a, w)
<1> DEFINE v == SubSeq(w, 1, k)
           u == SubSeq(w, k + 1, Len(w))
           n == Len(w)
<1>1. /\ v \in Seq(Steps) /\ Len(v) = k /\ \A i \in 1 .. k : v[i] = w[i]
      /\ n \in Nat /\ k \in Nat /\ k <= n
  OBVIOUS
<1>2. /\ u \in Seq(Steps) /\ Len(u) = n - k /\ \A i \in 1 .. n - k : u[i] = w[k + i]
  <2>1. \A i \in 1 .. n - k : u[i] = w[(k + 1) + i - 1] /\ (k + 1) + i - 1 = k + i
    OBVIOUS
  <2> QED BY <2>1
<1>3. \A i \in 1 .. n : w[i] \in StepsOf(E, way) /\ w[i].from = IF i = 1 THEN a ELSE w[i - 1].to
  BY DEF IsPath
<1> HIDE DEF v, u
<1>4. EndOf(a, v) = IF k = 0 THEN a ELSE w[k].to
  <2>1. v = <<>> <=> k = 0
    BY <1>1
  <2>2. k # 0 => k \in 1 .. k
    BY <1>1
  <2> QED BY <1>1, <2>1, <2>2 DEF EndOf
<1>5. IsPath(v, a, E, way)
  <2> SUFFICES ASSUME NEW i \in 1 .. k
               PROVE  v[i] \in StepsOf(E, way) /\ v[i].from = IF i = 1 THEN a ELSE v[i - 1].to
    BY <1>1 DEF IsPath
  <2>1. i \in 1 .. n /\ (i # 1 => i - 1 \in 1 .. k)
    BY <1>1
  <2> QED BY <1>1, <1>3, <2>1
<1>6. IsPath(u, EndOf(a, v), E, way)
  <2> SUFFICES ASSUME NEW i \in 1 .. n - k
               PROVE  /\ u[i] \in StepsOf(E, way)
                      /\ u[i].from = IF i = 1 THEN EndOf(a, v) ELSE u[i - 1].to
    BY <1>2 DEF IsPath
  <2>1. /\ k + i \in 1 .. n /\ u[i] = w[k + i]
        /\ w[k + i] \in StepsOf(E, way)
        /\ w[k + i].from = IF k + i = 1 THEN a ELSE w[k + i - 1].to
    BY <1>1, <1>2, <1>3
  <2>2. CASE i = 1
    <3>1. k + i - 1 = k /\ (k + i = 1 <=> k = 0)
      BY <2>2
    <3> QED BY <1>4, <2>1, <2>2, <3>1
  <2>3. CASE i # 1
    <3>1. i - 1 \in 1 .. n - k /\ k + i - 1 = k + (i - 1) /\ k + i # 1
      BY <1>1, <2>3
    <3>2. u[i - 1] = w[k + i - 1]
      BY <1>2, <3>1
    <3> QED BY <2>1, <2>3, <3>1, <3>2
  <2> QED BY <2>2, <2>3
<1>7. EndOf(EndOf(a, v), u) = EndOf(a, w)
  <2>1. CASE k = n
    <3>1. u = <<>>
      BY <1>1, <1>2, <2>1
    <3>2. w = <<>> <=> n = 0
      OBVIOUS
    <3> QED BY <1>4, <2>1, <3>1, <3>2 DEF EndOf
  <2>2. CASE k # n
    <3>1. n - k \in 1 .. n - k /\ k + (n - k) = n /\ u # <<>> /\ w # <<>>
      BY <1>1, <1>2, <2>2
    <3>2. u[n - k] = w[n]
      BY <1>2, <3>1
    <3> QED BY <1>2, <3>1, <3>2 DEF EndOf
  <2> QED BY <2>1, <2>2
<1> QED BY <1>1, <1>2, <1>4, <1>5, <1>6, <1>7 DEF v, u

\* Two walks, one after the other.
LEMMA PathJoin ==
    ASSUME NEW a, NEW E, NEW way,
           NEW w \in Seq(Steps), IsPath(w, a, E, way),
           NEW u \in Seq(Steps), IsPath(u, EndOf(a, w), E, way)
    PROVE  /\ w \o u \in Seq(Steps) /\ Len(w \o u) = Len(w) + Len(u)
           /\ IsPath(w \o u, a, E, way)
           /\ EndOf(a, w \o u) = EndOf(EndOf(a, w), u)
<1> DEFINE x == w \o u
           m == Len(w)
           n == Len(u)
<1>1. /\ x \in Seq(Steps) /\ Len(x) = m + n /\ m \in Nat /\ n \in Nat
      /\ \A i \in 1 .. m : x[i] = w[i]
      /\ \A i \in 1 .. n : x[m + i] = u[i]
  OBVIOUS
<1> HIDE DEF x
<1>2. EndOf(a, x) = EndOf(EndOf(a, w), u)
  <2>1. CASE n = 0
    <3>1. u = <<>> /\ (x = <<>> <=> m = 0) /\ (w = <<>> <=> m = 0) /\ Len(x) = m
      BY <1>1, <2>1
    <3>2. m # 0 => m \in 1 .. m
      OBVIOUS
    <3> QED BY <1>1, <3>1, <3>2 DEF EndOf
  <2>2. CASE n # 0
    <3>1. n \in 1 .. n /\ u # <<>> /\ x # <<>>
      BY <1>1, <2>2
    <3> QED BY <1>1, <3>1 DEF EndOf
  <2> QED BY <2>1, <2>2
<1>3. IsPath(x, a, E, way)
  <2> SUFFICES ASSUME NEW i \in 1 .. m + n
               PROVE  x[i] \in StepsOf(E, way) /\ x[i].from = IF i = 1 THEN a ELSE x[i - 1].to
    BY <1>1 DEF IsPath
  <2>1. CASE i \in 1 .. m
    <3>1. w[i] \in StepsOf(E, way) /\ w[i].from = IF i = 1 THEN a ELSE w[i - 1].to
      BY <2>1 DEF IsPath
    <3>2. i # 1 => i - 1 \in 1 .. m
      BY <1>1, <2>1
    <3> QED BY <1>1, <2>1, <3>1, <3>2
  <2>2. CASE i \notin 1 .. m
    <3> DEFINE j == i - m
    <3>1. j \in 1 .. n /\ i = m + j
      BY <1>1, <2>2
    <3> HIDE DEF j
    <3>2. u[j] \in StepsOf(E, way) /\ u[j].from = IF j = 1 THEN EndOf(a, w) ELSE u[j - 1].to
      BY <3>1 DEF IsPath
    <3>3. x[i] = u[j]
      BY <1>1, <3>1
    <3>4. CASE j = 1
      <4>1. i - 1 = m /\ (i = 1 <=> m = 0) /\ (w = <<>> <=> m = 0) /\ (m # 0 => m \in 1 .. m)
        BY <1>1, <3>1, <3>4
      <4> QED BY <1>1, <3>2, <3>3, <3>4, <4>1 DEF EndOf
    <3>5. CASE j # 1
      <4>1. j - 1 \in 1 .. n /\ i - 1 = m + (j - 1) /\ i # 1
        BY <1>1, <3>1, <3>5
      <4> QED BY <1>1, <3>2, <3>3, <3>5, <4>1
    <3> QED BY <3>4, <3>5
  <2> QED BY <2>1, <2>2
<1> QED BY <1>1, <1>2, <1>3 DEF x

\* A step walked the other way.
Turned(s) == [rel |-> s.rel, from |-> s.to, to |-> s.from,
              walked |-> IF s.walked = "forward" THEN "backward" ELSE "forward"]

LEMMA TurnedStep ==
    ASSUME NEW E \in SUBSET Relationships, NEW way \in Directions, NEW s \in StepsOf(E, way)
    PROVE  /\ Turned(s) \in StepsOf(E, Reverse(way))
           /\ Turned(s).from = s.to /\ Turned(s).to = s.from
<1>1. Turned(s).from = s.to /\ Turned(s).to = s.from
  BY DEF Turned
<1>2. \A r : Turned(Forward(r)) = Backward(r) /\ Turned(Backward(r)) = Forward(r)
  BY DEF Turned, Forward, Backward
<1>3. /\ way # "in" <=> Reverse(way) # "out"
      /\ way # "out" <=> Reverse(way) # "in"
  BY DEF Directions, Reverse
<1>4. CASE s \in {Forward(r) : r \in {x \in E : way # "in"}}
  <2>1. PICK r \in E : s = Forward(r) /\ way # "in"
    BY <1>4
  <2>2. Turned(s) = Backward(r)
    BY <1>2, <2>1
  <2> QED BY <1>1, <1>3, <2>1, <2>2 DEF StepsOf
<1>5. CASE s \in {Backward(r) : r \in {x \in E : way # "out"}}
  <2>1. PICK r \in E : s = Backward(r) /\ way # "out"
    BY <1>5
  <2>2. Turned(s) = Forward(r)
    BY <1>2, <2>1
  <2> QED BY <1>1, <1>3, <2>1, <2>2 DEF StepsOf
<1> QED BY <1>4, <1>5 DEF StepsOf

LEMMA PathTurned ==
    ASSUME NEW a, NEW E \in SUBSET Relationships, NEW way \in Directions,
           NEW w \in Seq(Steps), IsPath(w, a, E, way)
    PROVE  \E v \in Seq(Steps) : /\ Len(v) = Len(w)
                                 /\ IsPath(v, EndOf(a, w), E, Reverse(way))
                                 /\ EndOf(EndOf(a, w), v) = a
<1> DEFINE n == Len(w)
           v == [i \in 1 .. n |-> Turned(w[n + 1 - i])]
           b == EndOf(a, w)
<1>1. /\ n \in Nat
      /\ \A i \in 1 .. n : w[i] \in StepsOf(E, way) /\ w[i].from = IF i = 1 THEN a ELSE w[i - 1].to
  BY DEF IsPath
<1>2. \A i \in 1 .. n : n + 1 - i \in 1 .. n
  BY <1>1
<1>3. \A i \in 1 .. n : /\ Turned(w[i]) \in StepsOf(E, Reverse(way))
                        /\ Turned(w[i]).from = w[i].to /\ Turned(w[i]).to = w[i].from
  BY <1>1, TurnedStep
<1>4. /\ v \in Seq(Steps) /\ Len(v) = n
      /\ \A i \in 1 .. n : v[i] = Turned(w[n + 1 - i])
  <2>1. \A i \in 1 .. n : Turned(w[n + 1 - i]) \in Steps
    BY <1>2, <1>3, StepsTyped
  <2> QED BY <1>1, <2>1
<1> HIDE DEF v
<1>5. IsPath(v, b, E, Reverse(way))
  <2> SUFFICES ASSUME NEW i \in 1 .. n
               PROVE  /\ v[i] \in StepsOf(E, Reverse(way))
                      /\ v[i].from = IF i = 1 THEN b ELSE v[i - 1].to
    BY <1>4 DEF IsPath
  <2>1. v[i] \in StepsOf(E, Reverse(way)) /\ v[i].from = w[n + 1 - i].to
    BY <1>2, <1>3, <1>4
  <2>2. CASE i = 1
    <3>1. w # <<>> /\ n + 1 - i = n
      BY <2>2
    <3> QED BY <2>1, <2>2, <3>1 DEF EndOf
  <2>3. CASE i # 1
    <3> DEFINE j == n + 1 - (i - 1)
    <3>1. i - 1 \in 1 .. n /\ j \in 1 .. n /\ j # 1 /\ j - 1 = n + 1 - i
      BY <1>1, <2>3
    <3>2. v[i - 1] = Turned(w[j])
      BY <1>4, <3>1
    <3> HIDE DEF j
    <3>3. v[i - 1].to = w[j - 1].to
      BY <1>1, <1>3, <3>1, <3>2
    <3> QED BY <2>1, <2>3, <3>1, <3>3
  <2> QED BY <2>2, <2>3
<1>6. EndOf(b, v) = a
  <2>1. CASE n = 0
    <3>1. w = <<>> /\ v = <<>>
      BY <1>4, <2>1
    <3> QED BY <3>1 DEF EndOf
  <2>2. CASE n # 0
    <3>1. v # <<>> /\ n \in 1 .. n /\ n + 1 - n = 1 /\ 1 \in 1 .. n
      BY <1>1, <1>4, <2>2
    <3> QED BY <1>1, <1>3, <1>4, <3>1 DEF EndOf
  <2> QED BY <2>1, <2>2
<1> QED BY <1>4, <1>5, <1>6

LEMMA TurnedTwice == ASSUME NEW way \in Directions PROVE Reverse(way) \in Directions /\ Reverse(Reverse(way)) = way
BY DEF Directions, Reverse

-----------------------------------------------------------------------------
(***************************************************************************)
(* The search.                                                             *)
(***************************************************************************)

\* The entities in line are at the depth of the search or one hop nearer.
Layered == /\ \A i \in 1 .. Len(frontier) : /\ frontier[i] \in visited
                                            /\ Distance[frontier[i]] = depth - 1
           /\ \A i \in 1 .. Len(following) : /\ following[i] \in visited
                                             /\ Distance[following[i]] = depth
           /\ \A s \in pending : /\ s \in StepsOf(edges, direction)
                                 /\ s.from \in visited
                                 /\ Distance[s.from] = depth - 1

Waiting(e) == \/ \E i \in 1 .. Len(frontier) : frontier[i] = e
              \/ \E i \in 1 .. Len(following) : following[i] = e

\* A step out of what has been reached has been taken, or is still to be.
NoneLost == \A s \in StepsOf(edges, direction) :
               s.from \in visited =>
                  \/ s.to \in visited /\ Distance[s.to] <= Distance[s.from] + 1
                  \/ s \in pending
                  \/ Waiting(s.from)

\* The inductive invariant of the search.
SearchInv == SearchOK /\ SearchGrounded /\ Layered /\ NoneLost

LEMMA DistanceOf ==
    ASSUME SearchOK
    PROVE  /\ Distance[origin] = 0
           /\ \A e \in visited \ {origin} : Distance[e] = discovered[e].hop
           /\ \A e \in visited : Distance[e] \in 0 .. depth
BY DEF SearchOK, Distance

\* A search starts with its invariant.
LEMMA SearchStarts ==
    ASSUME NEW e \in Entities, NEW E \in SUBSET Relationships, NEW way \in Directions,
           NEW max \in Nat, SearchFrom(e, E, way, max)
    PROVE  SearchInv
<1> USE DEF SearchFrom
<1>1. SearchOK
  BY DEF SearchOK
<1>2. SearchGrounded
  BY DEF SearchGrounded
<1>3. Distance[e] = 0 /\ visited = {e}
  BY DEF Distance
<1>4. Layered
  BY <1>3 DEF Layered
<1>5. NoneLost
  <2> SUFFICES ASSUME NEW s \in StepsOf(edges, direction), s.from \in visited
               PROVE  Waiting(s.from)
    BY DEF NoneLost
  <2> QED BY DEF Waiting
<1> QED BY <1>1, <1>2, <1>4, <1>5 DEF SearchInv

LEMMA StartsAgain ==
    ASSUME NEW e \in Entities, NEW E \in SUBSET Relationships, NEW way \in Directions,
           NEW max \in Nat, StartSearch(e, E, way, max)
    PROVE  SearchInv'
<1> USE DEF StartSearch
<1>1. SearchOK' /\ SearchGrounded'
  BY DEF SearchOK, SearchGrounded
<1>2. Distance'[e] = 0
  BY DEF Distance
<1>3. Layered'
  BY <1>2 DEF Layered
<1>4. Waiting(e)'
  BY DEF Waiting
<1>5. NoneLost'
  BY <1>4 DEF NoneLost
<1> QED BY <1>1, <1>3, <1>5 DEF SearchInv

\* Expand takes up the first entity in line.
LEMMA ExpandKeeps == ASSUME SearchInv, Expand PROVE SearchInv'
<1> USE DEF SearchInv, Expand
<1> DEFINE h == Head(frontier)
<1>1. /\ frontier \in Seq(Entities) /\ frontier # <<>>
      /\ h = frontier[1]
      /\ Len(frontier') = Len(frontier) - 1
      /\ \A i \in 1 .. Len(frontier') : frontier'[i] = frontier[i + 1]
      /\ 1 \in 1 .. Len(frontier)
  BY DEF SearchOK
<1>2. StepsFrom(h, edges, direction) \subseteq Steps
  BY StepsTyped DEF SearchOK, StepsFrom
<1>3. SearchOK'
  BY <1>1, <1>2 DEF SearchOK
<1>4. Distance' = Distance
  BY DEF Distance
<1>5. SearchGrounded'
  BY <1>4 DEF SearchGrounded
<1>6. Layered'
  BY <1>1, <1>4 DEF Layered, StepsFrom
<1>7. NoneLost'
  <2> SUFFICES ASSUME NEW s \in StepsOf(edges, direction), s.from \in visited
               PROVE  \/ s.to \in visited /\ Distance[s.to] <= Distance[s.from] + 1
                      \/ s \in pending'
                      \/ Waiting(s.from)'
    BY <1>4 DEF NoneLost
  <2>1. CASE s.from = h
    BY <2>1 DEF StepsFrom
  <2>2. CASE s.from # h /\ Waiting(s.from)
    <3>1. ASSUME NEW i \in 1 .. Len(frontier), frontier[i] = s.from PROVE Waiting(s.from)'
      <4>1. i # 1 /\ i - 1 \in 1 .. Len(frontier')
        BY <1>1, <2>2, <3>1
      <4> QED BY <1>1, <3>1, <4>1 DEF Waiting
    <3> QED BY <2>2, <3>1 DEF Waiting
  <2> QED BY <2>1, <2>2 DEF NoneLost
<1> QED BY <1>3, <1>5, <1>6, <1>7

\* Skip drops a step to an entity that was reached no later than this depth.
LEMMA SkipKeeps == ASSUME SearchInv, NEW s \in pending, Skip(s) PROVE SearchInv'
<1> USE DEF SearchInv, Skip
<1>1. SearchOK'
  BY DEF SearchOK
<1>2. Distance' = Distance
  BY DEF Distance
<1>3. SearchGrounded'
  BY <1>2 DEF SearchGrounded
<1>4. Layered'
  BY <1>2 DEF Layered
<1>5. Distance[s.to] \in 0 .. depth /\ Distance[s.from] = depth - 1 /\ depth \in Nat
  BY DistanceOf DEF Layered, SearchOK
<1>6. NoneLost'
  <2> SUFFICES ASSUME NEW t \in StepsOf(edges, direction), t.from \in visited
               PROVE  \/ t.to \in visited /\ Distance[t.to] <= Distance[t.from] + 1
                      \/ t \in pending'
                      \/ Waiting(t.from)
    BY <1>2 DEF NoneLost, Waiting
  <2>1. CASE t = s
    BY <1>5, <2>1
  <2> QED BY <2>1 DEF NoneLost
<1> QED BY <1>1, <1>3, <1>4, <1>6

\* Discover reaches an entity one hop further than where its step starts.
LEMMA DiscoverKeeps == ASSUME SearchInv, NEW s \in pending, Discover(s) PROVE SearchInv'
<1> USE DEF SearchInv
<1>1. /\ s \in Steps /\ s.to \in Entities /\ s.from \in visited /\ s.to \notin visited
      /\ s \in StepsOf(edges, direction)
      /\ Distance[s.from] = depth - 1
      /\ depth \in 1 .. bound /\ bound \in Nat
  <2>1. s \in Steps /\ s.from \in visited /\ Distance[s.from] = depth - 1
        /\ s \in StepsOf(edges, direction)
    BY DEF SearchOK, Layered
  <2>2. Distance[s.from] \in 0 .. depth /\ depth \in 0 .. bound /\ bound \in Nat
    BY <2>1, DistanceOf DEF SearchOK
  <2> QED BY <2>1, <2>2 DEF Discover, Steps
<1>2. SearchOK'
  <2>1. following' \in Seq(Entities)
    BY <1>1 DEF SearchOK, Discover
  <2>2. /\ visited' \subseteq Entities /\ origin \in visited'
        /\ DOMAIN discovered' = visited' \ {origin}
    BY <1>1 DEF SearchOK, Discover
  <2>3. \A e \in visited' \ {origin} : /\ discovered'[e].hop \in 1 .. depth
                                       /\ discovered'[e].step \in Steps
    BY <1>1 DEF SearchOK, Discover
  <2> QED BY <2>1, <2>2, <2>3 DEF SearchOK, Discover
<1>3. /\ \A e \in visited : Distance'[e] = Distance[e]
      /\ Distance'[s.to] = depth
      /\ visited' = visited \cup {s.to}
      /\ origin \in visited /\ origin' = origin
  BY <1>1 DEF Distance, Discover, SearchOK
<1>4. SearchGrounded'
  <2> SUFFICES ASSUME NEW e \in visited' \ {origin}
               PROVE  /\ discovered'[e].step \in StepsOf(edges, direction)
                      /\ discovered'[e].step.to = e
                      /\ discovered'[e].step.from \in visited'
                      /\ Distance'[discovered'[e].step.from] = Distance'[e] - 1
    BY <1>3 DEF SearchGrounded, Discover
  <2>1. CASE e = s.to
    <3>1. discovered'[e].step = s
      BY <2>1 DEF Discover, SearchOK
    <3> QED BY <1>1, <1>3, <2>1, <3>1
  <2>2. CASE e # s.to
    <3>1. e \in visited \ {origin} /\ discovered'[e] = discovered[e]
      BY <1>3, <2>2 DEF Discover, SearchOK
    <3> QED BY <1>3, <3>1 DEF SearchGrounded
  <2> QED BY <2>1, <2>2
<1>5. Layered'
  <2>1. /\ Len(following') = Len(following) + 1
        /\ \A i \in 1 .. Len(following) : following'[i] = following[i]
        /\ following'[Len(following) + 1] = s.to
        /\ Len(following) \in Nat
    BY DEF Discover, SearchOK
  <2>2. /\ frontier' = frontier /\ depth' = depth /\ pending' \subseteq pending
        /\ edges' = edges /\ direction' = direction
    BY DEF Discover
  <2>3. \A i \in 1 .. Len(following') : /\ following'[i] \in visited'
                                        /\ Distance'[following'[i]] = depth
    BY <1>3, <2>1 DEF Layered
  <2>4. \A i \in 1 .. Len(frontier) : /\ frontier[i] \in visited'
                                      /\ Distance'[frontier[i]] = depth - 1
    BY <1>3 DEF Layered
  <2>5. \A t \in pending : /\ t \in StepsOf(edges, direction)
                           /\ t.from \in visited'
                           /\ Distance'[t.from] = depth - 1
    BY <1>3 DEF Layered
  <2> QED BY <2>2, <2>3, <2>4, <2>5 DEF Layered
<1>6. NoneLost'
  <2>1. \A e : Waiting(e) => Waiting(e)'
    BY DEF Waiting, Discover, SearchOK
  <2>2. Waiting(s.to)'
    <3>1. /\ Len(following) + 1 \in 1 .. Len(following')
          /\ following'[Len(following) + 1] = s.to
      BY DEF Discover, SearchOK
    <3> QED BY <3>1 DEF Waiting
  <2> SUFFICES ASSUME NEW t \in StepsOf(edges, direction), t.from \in visited'
               PROVE  \/ t.to \in visited' /\ Distance'[t.to] <= Distance'[t.from] + 1
                      \/ t \in pending'
                      \/ Waiting(t.from)'
    BY DEF NoneLost, Discover
  <2>3. CASE t.from = s.to
    BY <2>2, <2>3
  <2>4. CASE t = s
    BY <1>1, <1>3, <2>4
  <2>5. CASE t # s /\ t.from # s.to
    <3>1. t.from \in visited
      BY <1>3, <2>5
    <3>2. t \in pending => t \in pending'
      BY <2>5 DEF Discover
    <3> QED BY <1>3, <2>1, <3>1, <3>2 DEF NoneLost
  <2> QED BY <2>3, <2>4, <2>5
<1> QED BY <1>2, <1>4, <1>5, <1>6

\* Deepen makes the entities reached last the ones to expand.
LEMMA DeepenKeeps == ASSUME SearchInv, Deepen PROVE SearchInv'
<1> USE DEF SearchInv, Deepen
<1>1. SearchOK'
  BY DEF SearchOK
<1>2. Distance' = Distance
  BY DEF Distance
<1>3. SearchGrounded'
  BY <1>2 DEF SearchGrounded
<1>4. Layered'
  BY <1>2 DEF Layered, SearchOK
<1>5. NoneLost'
  BY <1>2 DEF NoneLost, Waiting, SearchOK
<1> QED BY <1>1, <1>3, <1>4, <1>5

\* No step of a search, nor what goes on beside it, breaks its invariant.
LEMMA SearchKeeps == ASSUME SearchInv, [SearchStep]_search PROVE SearchInv'
<1>1. CASE UNCHANGED search
  BY <1>1 DEF search, SearchInv, SearchOK, SearchGrounded, Layered, NoneLost, Waiting,
              Distance
<1> QED BY <1>1, ExpandKeeps, SkipKeeps, DiscoverKeeps, DeepenKeeps DEF SearchStep

\* When the loop ends, what waits is at the bound.
LEMMA EndedIsClosed == SearchInv => SearchClosed
<1> SUFFICES ASSUME SearchInv, SearchEnded,
                    NEW s \in StepsOf(edges, direction),
                    s.from \in visited, Distance[s.from] < bound
             PROVE  s.to \in visited /\ Distance[s.to] <= Distance[s.from] + 1
  BY DEF SearchClosed
<1>1. pending = {} /\ frontier = <<>>
  BY DEF SearchEnded
<1>2. ASSUME Waiting(s.from) PROVE FALSE
  <2>1. PICK i \in 1 .. Len(following) : following[i] = s.from
    BY <1>1, <1>2 DEF Waiting
  <2>2. following # <<>> /\ depth \in 0 .. bound /\ bound \in Nat
    BY <2>1 DEF SearchInv, SearchOK
  <2>3. Distance[s.from] = depth /\ depth >= bound
    BY <2>1, <2>2 DEF SearchInv, Layered, SearchEnded
  <2> QED BY <2>2, <2>3
<1> QED BY <1>1, <1>2 DEF SearchInv, NoneLost

\* The walks of a search that has ended lead to what has been reached, ...
LEMMA WithinReach ==
    ASSUME SearchOK, SearchClosed, SearchEnded,
           NEW w \in Seq(Steps), IsPath(w, origin, edges, direction), Len(w) <= bound
    PROVE  EndOf(origin, w) \in visited /\ Distance[EndOf(origin, w)] <= Len(w)
<1> DEFINE S == {k \in Nat : k <= bound =>
                    \A v \in Seq(Steps) :
                        Len(v) = k /\ IsPath(v, origin, edges, direction) =>
                            /\ EndOf(origin, v) \in visited
                            /\ Distance[EndOf(origin, v)] <= k}
<1>0. bound \in Nat /\ depth \in Nat /\ origin \in visited
  BY DEF SearchOK
<1>1. 0 \in S
  <2>1. \A v \in Seq(Steps) : Len(v) = 0 => v = <<>>
    OBVIOUS
  <2> QED BY <1>0, <2>1, DistanceOf DEF EndOf
<1>2. ASSUME NEW k \in Nat, k \in S PROVE k + 1 \in S
  <2> SUFFICES ASSUME k + 1 <= bound,
                      NEW v \in Seq(Steps), Len(v) = k + 1, IsPath(v, origin, edges, direction)
               PROVE  EndOf(origin, v) \in visited /\ Distance[EndOf(origin, v)] <= k + 1
    OBVIOUS
  <2> DEFINE u == SubSeq(v, 1, k)
  <2>1. /\ u \in Seq(Steps) /\ Len(u) = k /\ IsPath(u, origin, edges, direction)
        /\ EndOf(origin, u) = IF k = 0 THEN origin ELSE v[k].to
    BY PathSplit
  <2> HIDE DEF u
  <2>2. EndOf(origin, u) \in visited /\ Distance[EndOf(origin, u)] <= k /\ k < bound
    BY <1>0, <1>2, <2>1
  <2>3. /\ k + 1 \in 1 .. k + 1 /\ (k + 1) - 1 = k /\ (k + 1 = 1 <=> k = 0) /\ v # <<>>
    OBVIOUS
  <2>4. v[k + 1] \in StepsOf(edges, direction) /\ v[k + 1].from = EndOf(origin, u)
    BY <2>1, <2>3 DEF IsPath
  <2>5. EndOf(origin, v) = v[k + 1].to
    BY <2>3 DEF EndOf
  <2>6. Distance[EndOf(origin, u)] \in Nat
    BY <1>0, <2>2, DistanceOf
  <2>7. /\ v[k + 1].to \in visited
        /\ Distance[v[k + 1].to] <= Distance[EndOf(origin, u)] + 1
    BY <1>0, <2>2, <2>4, <2>6 DEF SearchClosed
  <2>8. Distance[v[k + 1].to] \in Nat
    BY <1>0, <2>7, DistanceOf
  <2> QED BY <2>2, <2>5, <2>6, <2>7, <2>8
<1> HIDE DEF S
<1>3. Len(w) \in S
  BY <1>1, <1>2, SetInduction
<1> QED BY <1>3 DEF S

\* ... and what has been reached, a walk as long as its hop count leads to.
LEMMA Reached ==
    ASSUME SearchOK, SearchGrounded, NEW e \in visited
    PROVE  \E w \in Seq(Steps) : /\ Len(w) = Distance[e]
                                 /\ IsPath(w, origin, edges, direction)
                                 /\ EndOf(origin, w) = e
<1> DEFINE S == {k \in Nat : \A x \in visited : Distance[x] = k =>
                    \E w \in Seq(Steps) : /\ Len(w) = k
                                          /\ IsPath(w, origin, edges, direction)
                                          /\ EndOf(origin, w) = x}
<1>0. /\ depth \in Nat /\ origin \in visited /\ Distance[origin] = 0
      /\ edges \in SUBSET Relationships
      /\ \A x \in visited : Distance[x] \in Nat
      /\ \A x \in visited \ {origin} : Distance[x] # 0
  BY DistanceOf DEF SearchOK
<1>1. 0 \in S
  <2>1. <<>> \in Seq(Steps) /\ Len(<<>>) = 0 /\ IsPath(<<>>, origin, edges, direction)
        /\ EndOf(origin, <<>>) = origin
    BY DEF IsPath, EndOf
  <2> QED BY <1>0, <2>1
<1>2. ASSUME NEW k \in Nat, k \in S PROVE k + 1 \in S
  <2> SUFFICES ASSUME NEW x \in visited, Distance[x] = k + 1
               PROVE  \E w \in Seq(Steps) : /\ Len(w) = k + 1
                                            /\ IsPath(w, origin, edges, direction)
                                            /\ EndOf(origin, w) = x
    OBVIOUS
  <2>1. x \in visited \ {origin}
    BY <1>0
  <2> DEFINE s == discovered[x].step
  <2>2. /\ s \in StepsOf(edges, direction) /\ s.to = x /\ s.from \in visited
        /\ Distance[s.from] = k
    BY <2>1 DEF SearchGrounded
  <2> HIDE DEF s
  <2>3. PICK w \in Seq(Steps) : /\ Len(w) = k
                                /\ IsPath(w, origin, edges, direction)
                                /\ EndOf(origin, w) = s.from
    BY <1>2, <2>2
  <2>4. s \in StepsFrom(EndOf(origin, w), edges, direction)
    BY <2>2, <2>3 DEF StepsFrom
  <2> DEFINE v == Append(w, s)
  <2>5. /\ v \in Seq(Steps) /\ Len(v) = Len(w) + 1
        /\ IsPath(v, origin, edges, direction) /\ EndOf(origin, v) = s.to
    BY <1>0, <2>3, <2>4, PathAppend
  <2> HIDE DEF v
  <2> QED BY <2>2, <2>3, <2>5
<1> HIDE DEF S
<1>3. Distance[e] \in S
  BY <1>0, <1>1, <1>2, SetInduction
<1> QED BY <1>3 DEF S

\* dist has the entities within max hops of a, each at its distance.
Measures(dist, a, E, way, max) ==
    /\ DOMAIN dist \subseteq Entities
    /\ \A e \in Entities : /\ e \in DOMAIN dist <=> Hops(a, e, E, way, max) # {}
                           /\ e \in DOMAIN dist => IsDistance(dist[e], a, e, E, way, max)

LEMMA EndedMeasures ==
    ASSUME SearchInv, SearchEnded
    PROVE  Measures(Distance, origin, edges, direction, bound)
<1>0. /\ SearchOK /\ SearchGrounded /\ SearchClosed /\ bound \in Nat /\ depth \in 0 .. bound
      /\ edges \in SUBSET Relationships
      /\ DOMAIN Distance = visited /\ visited \subseteq Entities
  BY EndedIsClosed DEF SearchInv, SearchOK, Distance
<1> SUFFICES ASSUME NEW e \in Entities
             PROVE  /\ e \in visited <=> Hops(origin, e, edges, direction, bound) # {}
                    /\ e \in visited => IsDistance(Distance[e], origin, e, edges, direction, bound)
  BY <1>0 DEF Measures
<1>1. ASSUME NEW n \in Hops(origin, e, edges, direction, bound)
      PROVE  e \in visited /\ Distance[e] <= n
  <2>1. n \in 0 .. bound /\ Walks(origin, e, edges, direction, n) # {}
    BY DEF Hops
  <2>2. PICK w \in Seq(Steps) : /\ Len(w) = n /\ IsPath(w, origin, edges, direction)
                                /\ EndOf(origin, w) = e
    BY <1>0, <2>1, WalksTo
  <2> QED BY <1>0, <2>1, <2>2, WithinReach
<1>2. ASSUME e \in visited PROVE Distance[e] \in Hops(origin, e, edges, direction, bound)
  <2>1. Distance[e] \in 0 .. bound /\ Distance[e] \in Nat
    BY <1>0, <1>2, DistanceOf
  <2>2. PICK w \in Seq(Steps) : /\ Len(w) = Distance[e] /\ IsPath(w, origin, edges, direction)
                                /\ EndOf(origin, w) = e
    BY <1>0, <1>2, Reached
  <2>3. w \in Walks(origin, e, edges, direction, Distance[e])
    BY <1>0, <2>1, <2>2, WalksTo
  <2> QED BY <2>1, <2>3 DEF Hops
<1> QED BY <1>1, <1>2 DEF IsDistance

-----------------------------------------------------------------------------
(***************************************************************************)
(* The query.                                                              *)
(***************************************************************************)

\* What each stage of a query has done, and not yet done.
Stages ==
    /\ edges \subseteq stored
    /\ bound = request.max_depth
    /\ pc # "answered" => answer = NoAnswer
    /\ pc \in {"ask", "forth", "trace", "back"} => paths = <<>> /\ left = <<>>
    /\ pc \in {"ask", "forth", "back"} => chain = <<>>
    /\ pc \in {"forth", "trace"} => /\ origin = request.source
                                    /\ direction = request.direction
    /\ pc = "forth" /\ request.ask # "neighbors" => request.source # request.target
    /\ pc \in {"trace", "back", "enumerate"} => request.source # request.target

\* find_path: the chain so far leads from an entity that was reached to the target.
Tracing ==
    pc = "trace" =>
        /\ Current \in visited
        /\ \A i \in 1 .. Len(chain) : chain[i] \in StepsOf(edges, direction)
        /\ chain # <<>> => chain[Len(chain)].to = request.target
        /\ \A i \in 1 .. Len(chain) - 1 : chain[i].to = chain[i + 1].from

\* Where dfs is after i steps of its chain.
At(i) == IF i = 0 THEN request.source ELSE chain[i].to

\* A step that dfs may take leads one hop further from the source.
IsOnward(s, e) == /\ s \in StepsOf(stored, request.direction)
                  /\ s.from = e
                  /\ e \in DOMAIN forth
                  /\ s.to \in DOMAIN forth
                  /\ forth[s.to] = forth[e] + 1

\* find_all_shortest_paths: forth and dag are as the pruning left them, ...
Pruning ==
    pc \in {"back", "enumerate"} => /\ request.source \in DOMAIN forth
                                    /\ request.target \in DOMAIN forth
                                    /\ forth[request.source] = 0

Onward == pc = "enumerate" => \A e \in DOMAIN dag : \A s \in dag[e] : IsOnward(s, e)

\* ... the chain of dfs walks along dag, and what is left was not tried yet, ...
Walking ==
    pc = "enumerate" =>
        /\ left # <<>> => Len(left) = Len(chain) + 1
        /\ left = <<>> => chain = <<>>
        /\ \A i \in 1 .. Len(chain) : /\ IsOnward(chain[i], At(i - 1))
                                      /\ forth[chain[i].to] = i
                                      /\ chain[i] \notin left[i]
        /\ \A i \in 1 .. Len(left) : left[i] \subseteq StepsAlong(dag, At(i - 1))

\* ... and what was found is a shortest chain by the first search, ...
Shortest ==
    \A k \in 1 .. Len(paths) : /\ IsWalk(paths[k], request.source, request.target)
                               /\ Len(paths[k]) = forth[request.target]

\* ... none of them twice, for none of them begins with the chain of some call of
\* dfs and a step which that call has yet to try.
Passed(k, i) == /\ i <= Len(paths[k])
                /\ \A j \in 1 .. i - 1 : paths[k][j] = chain[j]
                => paths[k][i] \notin left[i]
NotAgain ==
    /\ \A k, m \in 1 .. Len(paths) : paths[k] = paths[m] => k = m
    /\ pc = "enumerate" => \A k \in 1 .. Len(paths), i \in 1 .. Len(left) : Passed(k, i)

\* The inductive invariant of a query.
QueryInv == /\ TypeOK /\ SearchInv /\ Stages /\ Tracing
            /\ Pruning /\ Onward /\ Walking /\ Shortest /\ NotAgain /\ ChainsHold

LEMMA RequestTyped ==
    ASSUME request \in Requests
    PROVE  /\ request.source \in Entities /\ request.target \in Entities
           /\ request.max_depth \in Nat \ {0} /\ request.limit \in Nat \ {0}
           /\ request.direction \in Directions
           /\ Reverse(request.direction) \in Directions
BY RequestsAssumption DEF Directions, Reverse

LEMMA QueryStarts == Init => QueryInv
<1> SUFFICES ASSUME Init PROVE QueryInv
  OBVIOUS
<1>1. stored \in SUBSET Relationships /\ request \in Requests
  BY ClaimedAssumption DEF Init
<1>2. SearchInv
  BY <1>1, RequestTyped, SearchStarts DEF Init
<1>3. \A e \in DOMAIN forth : forth[e] \in 0 .. request.max_depth
  BY <1>2, DistanceOf DEF Init, SearchInv, SearchOK, SearchFrom, Distance
<1>4. TypeOK
  BY <1>1, <1>2, <1>3, RequestTyped, MaxClaimsIsNat
     DEF Init, TypeOK, SearchInv, IsAnswer, Chains, NoAnswer, Found
<1>5. Stages /\ Tracing /\ Pruning /\ Onward /\ Walking /\ Shortest /\ NotAgain
  BY DEF Init, Stages, Tracing, Pruning, Onward, Walking, Shortest, NotAgain, SearchFrom
<1>6. ChainsHold
  BY <1>1, RequestTyped DEF Init, ChainsHold, NoAnswer
<1> QED BY <1>2, <1>4, <1>5, <1>6 DEF QueryInv

LEMMA StepsGrow ==
    ASSUME NEW E, NEW F, E \subseteq F, NEW way
    PROVE  StepsOf(E, way) \subseteq StepsOf(F, way)
BY DEF StepsOf

\* A search goes on beside the query.
LEMMA SearchStepKeeps == ASSUME QueryInv, Search PROVE QueryInv'
<1> USE DEF QueryInv, Search, query
<1>1. SearchInv'
  BY SearchKeeps
<1>2. UNCHANGED <<edges, origin, direction, bound>>
  BY DEF SearchStep, Expand, Skip, Discover, Deepen
<1>3. TypeOK'
  BY <1>1 DEF TypeOK, SearchInv
<1>4. Stages' /\ Tracing' /\ Pruning' /\ Onward' /\ Walking' /\ Shortest' /\ NotAgain'
  <2>1. Stages'
    BY <1>2 DEF Stages
  <2>2. Tracing' /\ Pruning'
    BY DEF Tracing, Pruning
  <2>3. Onward' /\ Walking'
    BY DEF Onward, IsOnward, Walking, At
  <2>4. Shortest' /\ NotAgain'
    BY DEF Shortest, IsWalk, NotAgain, Passed
  <2> QED BY <2>1, <2>2, <2>3, <2>4
<1>5. ChainsHold'
  BY DEF ChainsHold, IsWalk
<1> QED BY <1>1, <1>3, <1>4, <1>5

\* A relationship claimed meanwhile makes no step invalid.
LEMMA ClaimKeeps == ASSUME QueryInv, Claim PROVE QueryInv'
<1> USE DEF QueryInv, Claim, query, search
<1>1. stored \subseteq stored' /\ stored' \subseteq Relationships /\ claims' \in 0 .. MaxClaims
  BY MaxClaimsIsNat DEF TypeOK
<1>2. StepsOf(stored, request.direction) \subseteq StepsOf(stored', request.direction)
  BY <1>1, StepsGrow
<1>3. SearchInv'
  BY SearchKeeps
<1>4. TypeOK'
  BY <1>1, <1>3 DEF TypeOK, SearchInv
<1>5. Stages'
  BY <1>1 DEF Stages
<1>6. Tracing' /\ Pruning'
  BY DEF Tracing, Pruning, Current
<1>7. Onward' /\ Walking'
  BY <1>2 DEF Onward, IsOnward, Walking, At
<1>8. Shortest'
  BY <1>2 DEF Shortest, IsWalk
<1>9. NotAgain'
  BY DEF NotAgain, Passed
<1>10. ChainsHold'
  BY <1>2 DEF ChainsHold, IsWalk
<1> QED BY <1>3, <1>4, <1>5, <1>6, <1>7, <1>8, <1>9, <1>10

\* The first search begins.
LEMMA AskKeeps == ASSUME QueryInv, Ask PROVE QueryInv'
<1> USE DEF QueryInv, Ask, StartSearch
<1>1. request \in Requests /\ stored \in SUBSET Relationships
  BY DEF TypeOK
<1>2. SearchInv'
  BY <1>1, RequestTyped, StartsAgain
<1>3. TypeOK'
  BY <1>2 DEF TypeOK, SearchInv
<1>4. Stages'
  BY DEF Stages
<1>5. Tracing' /\ Pruning' /\ Onward' /\ Walking'
  BY DEF Tracing, Pruning, Onward, Walking
<1>6. Shortest' /\ NotAgain' /\ ChainsHold'
  BY DEF Shortest, NotAgain, Stages, ChainsHold, IsWalk
<1> QED BY <1>2, <1>3, <1>4, <1>5, <1>6

\* A query is answered at once, or with what a search has left.
LEMMA ShortAnswersKeep ==
    ASSUME QueryInv, AskTrivial \/ AnswerNeighbors \/ AnswerNone
    PROVE  QueryInv'
<1> USE DEF QueryInv, AskTrivial, AnswerNeighbors, AnswerNone, Answer, Found, NoAnswer
<1>1. SearchInv'
  BY SearchKeeps
<1>2. UNCHANGED <<search, stored, claims, asked, request, forth, dag, left, chain, paths>>
      /\ pc' = "answered" /\ paths = <<>>
  BY DEF Stages
<1>3. IsAnswer(answer')
  <2>1. CASE AskTrivial
    <3>1. answer' = [found |-> TRUE, hops |-> 0, chains |-> <<<<>>>>, truncated |-> FALSE]
      BY <2>1
    <3>2. <<>> \in Chains
      BY DEF Chains
    <3> QED BY <3>1, <3>2 DEF IsAnswer
  <2>2. CASE AnswerNeighbors
    BY <2>2 DEF IsAnswer
  <2>3. CASE AnswerNone
    BY <2>3 DEF IsAnswer
  <2> QED BY <2>1, <2>2, <2>3
<1>4. TypeOK'
  BY <1>1, <1>2, <1>3 DEF TypeOK, SearchInv
<1>5. Stages'
  BY <1>2 DEF Stages, search
<1>6. Tracing' /\ Pruning' /\ Onward' /\ Walking' /\ Shortest' /\ NotAgain'
  BY <1>2 DEF Tracing, Pruning, Onward, Walking, Shortest, NotAgain
<1>7. ChainsHold'
  <2>1. request.limit \in Nat \ {0}
    BY RequestTyped DEF TypeOK
  <2>2. CASE AskTrivial
    <3>1. /\ answer'.chains = <<<<>>>> /\ Len(answer'.chains) = 1
          /\ answer'.chains[1] = <<>> /\ answer'.hops = 0
          /\ request'.source = request'.target
      BY <1>2, <2>2
    <3> QED BY <1>2, <2>1, <3>1 DEF ChainsHold
  <2>3. CASE AnswerNeighbors \/ AnswerNone
    <3>1. answer'.chains = <<>> /\ Len(answer'.chains) = 0
      BY <2>3
    <3> QED BY <1>2, <2>1, <3>1 DEF ChainsHold
  <2> QED BY <2>2, <2>3
<1> QED BY <1>1, <1>4, <1>5, <1>6, <1>7

\* find_path begins to go back from the target, ...
LEMMA StartTraceKeeps == ASSUME QueryInv, StartTrace PROVE QueryInv'
<1> USE DEF QueryInv, StartTrace
<1>1. SearchInv'
  BY SearchKeeps
<1>2. TypeOK'
  BY <1>1 DEF TypeOK, SearchInv
<1>3. Stages'
  BY DEF Stages, search
<1>4. Tracing'
  BY DEF Tracing, Stages, Current, search
<1>5. Pruning' /\ Onward' /\ Walking' /\ Shortest' /\ NotAgain'
  BY DEF Pruning, Onward, Walking, Shortest, NotAgain, Stages
<1>6. ChainsHold'
  BY DEF ChainsHold, IsWalk
<1> QED BY <1>1, <1>2, <1>3, <1>4, <1>5, <1>6

\* ... goes back by one step, ...
LEMMA TraceKeeps == ASSUME QueryInv, Trace PROVE QueryInv'
<1> USE DEF QueryInv, Trace
<1> DEFINE s == discovered[Current].step
<1>1. SearchInv'
  BY SearchKeeps
<1>2. Current \in visited \ {origin}
  BY DEF Tracing, Stages
<1>3. /\ s \in Steps /\ s \in StepsOf(edges, direction)
      /\ s.to = Current /\ s.from \in visited
  BY <1>2 DEF SearchInv, SearchOK, SearchGrounded
<1> HIDE DEF s
<1>4. /\ chain \in Seq(Steps) /\ chain' \in Seq(Steps)
      /\ Len(chain) \in Nat /\ Len(chain') = Len(chain) + 1
      /\ chain'[1] = s
      /\ \A i \in 1 .. Len(chain) : chain'[i + 1] = chain[i]
  BY <1>3 DEF TypeOK, Chains, s
<1>5. TypeOK'
  BY <1>1, <1>4 DEF TypeOK, SearchInv, Chains
<1>6. Stages'
  BY DEF Stages, search
<1>7. Tracing'
  <2>1. Current' = s.from
    BY <1>4 DEF Current
  <2>2. \A i \in 1 .. Len(chain') : chain'[i] \in StepsOf(edges, direction)
    <3> TAKE i \in 1 .. Len(chain')
    <3>1. CASE i = 1
      BY <1>3, <1>4, <3>1
    <3>2. CASE i # 1
      <4>1. i - 1 \in 1 .. Len(chain) /\ chain'[(i - 1) + 1] = chain[i - 1]
        BY <1>4, <3>2
      <4> QED BY <4>1 DEF Tracing
    <3> QED BY <3>1, <3>2
  <2>3. chain'[Len(chain')].to = request.target
    <3>1. CASE chain = <<>>
      BY <1>3, <1>4, <3>1 DEF Current
    <3>2. CASE chain # <<>>
      BY <1>4, <3>2 DEF Tracing
    <3> QED BY <3>1, <3>2
  <2>4. \A i \in 1 .. Len(chain') - 1 : chain'[i].to = chain'[i + 1].from
    <3> TAKE i \in 1 .. Len(chain') - 1
    <3>1. chain'[i + 1] = chain[i] /\ i \in 1 .. Len(chain)
      BY <1>4
    <3>2. CASE i = 1
      BY <1>3, <1>4, <3>1, <3>2 DEF Current
    <3>3. CASE i # 1
      <4>1. i - 1 \in 1 .. Len(chain) - 1 /\ chain'[(i - 1) + 1] = chain[i - 1]
            /\ (i - 1) + 1 = i
        BY <1>4, <3>3
      <4>2. chain[i - 1].to = chain[(i - 1) + 1].from
        BY <4>1 DEF Tracing
      <4> QED BY <3>1, <4>1, <4>2
    <3> QED BY <3>2, <3>3
  <2> QED BY <1>3, <2>1, <2>2, <2>3, <2>4 DEF Tracing, search
<1>8. Pruning' /\ Onward' /\ Walking' /\ Shortest' /\ NotAgain'
  BY DEF Pruning, Onward, Walking, Shortest, NotAgain, Stages
<1>9. ChainsHold'
  BY DEF ChainsHold, IsWalk
<1> QED BY <1>1, <1>5, <1>6, <1>7, <1>8, <1>9

\* ... and arrives at the source.
LEMMA AnswerPathKeeps == ASSUME QueryInv, AnswerPath PROVE QueryInv'
<1> USE DEF QueryInv, AnswerPath, Answer, Found
<1>1. SearchInv'
  BY SearchKeeps
<1>2. /\ chain # <<>> /\ chain[1].from = request.source
      /\ chain \in Seq(Steps)
  BY DEF Current, Stages, TypeOK, Chains
<1>3. answer' = [found |-> TRUE, hops |-> Len(chain), chains |-> <<chain>>,
                 truncated |-> FALSE]
  OBVIOUS
<1>4. Len(answer'.chains) = 1 /\ answer'.chains[1] = chain /\ answer'.hops = Len(chain)
  BY <1>3
<1>5. IsAnswer(answer')
  BY <1>2, <1>3, <1>4 DEF IsAnswer, Chains
<1>6. TypeOK'
  BY <1>1, <1>5 DEF TypeOK, SearchInv
<1>7. Stages'
  BY DEF Stages, search
<1>8. Tracing' /\ Pruning' /\ Onward' /\ Walking' /\ Shortest' /\ NotAgain'
  BY DEF Tracing, Pruning, Onward, Walking, Shortest, NotAgain, Stages
<1>9. IsWalk(chain, request.source, request.target)
  <2>1. \A i \in 1 .. Len(chain) : chain[i] \in StepsOf(stored, request.direction)
    BY StepsGrow DEF Tracing, Stages
  <2> QED BY <1>2, <2>1 DEF IsWalk, Tracing
<1>10. ChainsHold'
  BY <1>4, <1>9, RequestTyped DEF ChainsHold, TypeOK, IsWalk
<1> QED BY <1>1, <1>6, <1>7, <1>8, <1>10

\* find_all_shortest_paths: the second search begins.
LEMMA ReturnKeeps == ASSUME QueryInv, Return PROVE QueryInv'
<1> USE DEF QueryInv, Return
<1>1. /\ request \in Requests /\ stored \in SUBSET Relationships
      /\ stored' = stored /\ request' = request
  BY DEF TypeOK
<1>2. SearchInv'
  BY <1>1, RequestTyped, StartsAgain
<1>3. /\ DOMAIN forth' = visited
      /\ \A e \in visited : forth'[e] = Distance[e] /\ forth'[e] \in 0 .. request.max_depth
      /\ forth'[request.source] = 0 /\ request.source \in visited
  BY DistanceOf DEF Distance, SearchInv, SearchOK, Stages
<1>4. TypeOK'
  BY <1>2, <1>3 DEF TypeOK, SearchInv
<1>5. Stages'
  BY DEF Stages, StartSearch
<1>6. Tracing' /\ Onward' /\ Walking' /\ Shortest' /\ NotAgain'
  BY DEF Tracing, Onward, Walking, Shortest, NotAgain, Stages
<1>7. Pruning'
  BY <1>3 DEF Pruning
<1>8. ChainsHold'
  BY DEF ChainsHold, IsWalk
<1> QED BY <1>2, <1>4, <1>5, <1>6, <1>7, <1>8

\* The third read: dag leads one hop further from the source at each step.
LEMMA PruneKeeps == ASSUME QueryInv, Prune PROVE QueryInv'
<1> USE DEF QueryInv, Prune
<1>1. SearchInv'
  BY SearchKeeps
<1>2. \A e \in DOMAIN dag' : /\ dag'[e] \subseteq Steps
                             /\ \A s \in dag'[e] : IsOnward(s, e)
  BY StepsTyped DEF Pruned, StepsFrom, OnShortest, IsOnward, TypeOK
<1>3. StepsAlong(dag', request.source) \subseteq Steps
  BY <1>2 DEF StepsAlong
<1>4. /\ Len(left') = 1 /\ left'[1] = StepsAlong(dag', request.source)
      /\ chain = <<>> /\ paths = <<>> /\ chain' = chain /\ paths' = paths
      /\ request' = request
  BY DEF Stages
<1>5. TypeOK'
  <2>1. left' \in Seq(SUBSET Steps)
    BY <1>3
  <2> QED BY <1>1, <1>2, <1>4, <2>1 DEF TypeOK, SearchInv
<1>6. Stages'
  BY DEF Stages, search
<1>7. Tracing' /\ Pruning' /\ Shortest'
  BY <1>4 DEF Tracing, Pruning, Shortest
<1>8. Onward'
  BY <1>2 DEF Onward, IsOnward
<1>9. Walking'
  BY <1>4 DEF Walking, At
<1>10. NotAgain'
  BY <1>4 DEF NotAgain
<1>11. ChainsHold'
  BY DEF ChainsHold, IsWalk
<1> QED BY <1>1, <1>5, <1>6, <1>7, <1>8, <1>9, <1>10, <1>11

\* A step that dfs tries leads one hop further from the source.
LEMMA TriedIsOnward ==
    ASSUME QueryInv, NEW s \in Untried, Tries(s)
    PROVE  /\ left # <<>> /\ Len(left) = Len(chain) + 1 /\ Len(chain) \in Nat
           /\ left \in Seq(SUBSET Steps) /\ s \in left[Len(left)]
           /\ chain \in Seq(Steps) /\ s \in Steps
           /\ IsOnward(s, At(Len(chain)))
           /\ forth[s.to] = Len(chain) + 1
           /\ s \in StepsAlong(dag, At(Len(chain)))
<1> USE DEF QueryInv, Tries
<1>1. /\ left # <<>> /\ Len(left) = Len(chain) + 1 /\ Len(chain) \in Nat
      /\ s \in left[Len(left)] /\ chain \in Seq(Steps)
  BY DEF Untried, Walking, TypeOK, Chains
<1>2. left \in Seq(SUBSET Steps)
  BY DEF TypeOK
<1>3. Len(left) \in 1 .. Len(left)
  BY <1>1
<1>4. s \in StepsAlong(dag, At(Len(chain)))
  BY <1>1, <1>3 DEF Walking
<1>5. IsOnward(s, At(Len(chain)))
  BY <1>4 DEF StepsAlong, Onward
<1>6. forth[At(Len(chain))] = Len(chain)
  BY <1>1 DEF At, Pruning, Walking
<1> QED BY <1>1, <1>2, <1>3, <1>4, <1>5, <1>6 DEF IsOnward, TypeOK

\* dfs reaches the target: the chain is complete, and none was found like it.
LEMMA ArriveKeeps ==
    ASSUME QueryInv, NEW s \in Untried, Tries(s), Arrive(s)
    PROVE  QueryInv'
<1> USE DEF QueryInv
<1> DEFINE n == Len(left)
           new == Append(chain, s)
<1>1. /\ pc = "enumerate" /\ pc' = pc /\ s.to = request.target
      /\ paths' = Append(paths, new)
      /\ left' = [left EXCEPT ![n] = @ \ {s}]
      /\ UNCHANGED <<search, stored, claims, asked, request, forth, dag, chain, answer>>
      /\ Len(paths) <= request.limit
  BY DEF Arrive, Tries
<1>2. /\ n = Len(chain) + 1 /\ Len(chain) \in Nat /\ n \in 1 .. n
      /\ left \in Seq(SUBSET Steps) /\ chain \in Chains /\ s \in Steps
      /\ IsOnward(s, At(Len(chain))) /\ forth[s.to] = n
      /\ s \in left[n]
      /\ paths \in Seq(Chains)
  BY TriedIsOnward DEF TypeOK, Chains
<1>3. /\ left' \in Seq(SUBSET Steps) /\ Len(left') = n
      /\ \A i \in 1 .. n : left'[i] \subseteq left[i]
      /\ s \notin left'[n]
      /\ \A i \in 1 .. n : i # n => left'[i] = left[i]
  BY <1>1, <1>2
<1>4. /\ new \in Chains /\ Len(new) = n /\ new[n] = s
      /\ \A i \in 1 .. Len(chain) : new[i] = chain[i]
  BY <1>2 DEF Chains
<1> HIDE DEF new
<1>5. /\ paths' \in Seq(Chains) /\ Len(paths') = Len(paths) + 1 /\ Len(paths) \in Nat
      /\ \A k \in 1 .. Len(paths) : paths'[k] = paths[k]
      /\ paths'[Len(paths) + 1] = new
  BY <1>1, <1>2, <1>4
<1>6. SearchInv'
  BY <1>1, SearchKeeps
<1>7. TypeOK'
  <2>1. Len(paths') <= request.limit + 1
    BY <1>1, <1>5, RequestTyped DEF TypeOK
  <2>2. Len(left') = Len(chain) + 1
    BY <1>2, <1>3
  <2> QED BY <1>1, <1>3, <1>5, <1>6, <2>1, <2>2 DEF TypeOK, SearchInv
<1>8. Stages'
  BY <1>1 DEF Stages, search
<1>9. Tracing' /\ Pruning'
  BY <1>1 DEF Tracing, Pruning
<1>10. Onward'
  BY <1>1 DEF Onward, IsOnward
<1>11. Walking'
  <2>1. left' # <<>> /\ Len(left') = Len(chain) + 1
    BY <1>2, <1>3
  <2>2. \A i \in 1 .. Len(chain) : /\ IsOnward(chain[i], At(i - 1))
                                   /\ forth[chain[i].to] = i
                                   /\ chain[i] \notin left'[i]
    <3> TAKE i \in 1 .. Len(chain)
    <3>1. i \in 1 .. n /\ left'[i] \subseteq left[i]
      BY <1>2, <1>3
    <3> QED BY <1>1, <3>1 DEF Walking
  <2>3. \A i \in 1 .. Len(left') : left'[i] \subseteq StepsAlong(dag, At(i - 1))
    BY <1>1, <1>3 DEF Walking
  <2> QED BY <1>1, <2>1, <2>2, <2>3 DEF Walking, At, IsOnward
<1>12. Shortest'
  <2>1. Len(new) = forth[request.target]
    BY <1>1, <1>2, <1>4
  <2>2. \A i \in 1 .. Len(new) : IsOnward(new[i], At(i - 1))
    <3> TAKE i \in 1 .. Len(new)
    <3>1. CASE i \in 1 .. Len(chain)
      BY <1>1, <1>4, <3>1 DEF Walking
    <3>2. CASE i = Len(chain) + 1
      BY <1>2, <1>4, <3>2
    <3> QED BY <1>2, <1>4, <3>1, <3>2
  <2>3. IsWalk(new, request.source, request.target)
    <3>1. new # <<>> /\ new[Len(new)].to = request.target
      BY <1>1, <1>2, <1>4
    <3>2. new[1].from = request.source
      BY <1>2, <1>4, <2>2 DEF IsOnward, At
    <3>3. \A i \in 1 .. Len(new) - 1 : new[i].to = new[i + 1].from
      <4> TAKE i \in 1 .. Len(new) - 1
      <4>1. i + 1 \in 1 .. Len(new) /\ i \in 1 .. Len(chain) /\ (i + 1) - 1 = i
        BY <1>2, <1>4
      <4> QED BY <1>4, <2>2, <4>1 DEF IsOnward, At
    <3> QED BY <2>2, <3>1, <3>2, <3>3 DEF IsWalk, IsOnward
  <2> QED BY <1>1, <1>5, <2>1, <2>3 DEF Shortest, IsWalk
<1>13. NotAgain'
  <2>1. \A k \in 1 .. Len(paths) : paths[k] # new
    <3> SUFFICES ASSUME NEW k \in 1 .. Len(paths), paths[k] = new PROVE FALSE
      OBVIOUS
    <3>1. Passed(k, n)
      BY <1>1, <1>2 DEF NotAgain
    <3> QED BY <1>2, <1>4, <3>1 DEF Passed
  <2>2. \A k, m \in 1 .. Len(paths') : paths'[k] = paths'[m] => k = m
    BY <1>5, <2>1 DEF NotAgain
  <2>3. ASSUME NEW k \in 1 .. Len(paths'), NEW i \in 1 .. Len(left') PROVE Passed(k, i)'
    <3>1. CASE k \in 1 .. Len(paths)
      <4>1. Passed(k, i)
        BY <1>1, <1>3, <3>1 DEF NotAgain
      <4> QED BY <1>1, <1>3, <1>5, <3>1, <4>1 DEF Passed
    <3>2. CASE k = Len(paths) + 1 /\ i = n
      BY <1>3, <1>4, <1>5, <3>2 DEF Passed
    <3>3. CASE k = Len(paths) + 1 /\ i # n
      <4>1. i \in 1 .. Len(chain) /\ left'[i] = left[i]
        BY <1>2, <1>3, <3>3
      <4>2. chain[i] \notin left[i]
        BY <1>1, <4>1 DEF Walking
      <4> QED BY <1>4, <1>5, <3>3, <4>1, <4>2 DEF Passed
    <3> QED BY <1>5, <3>1, <3>2, <3>3
  <2> QED BY <2>2, <2>3 DEF NotAgain
<1>14. ChainsHold'
  BY <1>1 DEF ChainsHold, IsWalk
<1> QED BY <1>6, <1>7, <1>8, <1>9, <1>10, <1>11, <1>12, <1>13, <1>14

\* dfs goes one entity further.
LEMMA DescendKeeps ==
    ASSUME QueryInv, NEW s \in Untried, Tries(s), Descend(s)
    PROVE  QueryInv'
<1> USE DEF QueryInv
<1> PICK n : n = Len(left)
  OBVIOUS
<1> DEFINE next == StepsAlong(dag, s.to)
<1>1. /\ pc = "enumerate" /\ pc' = pc
      /\ chain' = Append(chain, s)
      /\ left' = Append([left EXCEPT ![n] = @ \ {s}], next)
      /\ UNCHANGED <<search, stored, claims, asked, request, forth, dag, paths, answer>>
  BY DEF Descend, Tries, next
<1>2. /\ n = Len(left) /\ n = Len(chain) + 1 /\ Len(chain) \in Nat /\ n \in 1 .. n
      /\ left \in Seq(SUBSET Steps) /\ chain \in Chains /\ s \in Steps
      /\ IsOnward(s, At(Len(chain))) /\ forth[s.to] = n
      /\ s \in left[n]
      /\ paths \in Seq(Chains)
  BY TriedIsOnward DEF TypeOK, Chains
<1>3. next \subseteq Steps
  BY DEF StepsAlong, TypeOK
<1> HIDE DEF next
<1>4. /\ left' \in Seq(SUBSET Steps) /\ Len(left') = n + 1
      /\ left'[n + 1] = next
      /\ left'[n] = left[n] \ {s}
      /\ \A i \in 1 .. n : i # n => left'[i] = left[i]
  <2> DEFINE cut == [left EXCEPT ![n] = @ \ {s}]
  <2>1. /\ cut \in Seq(SUBSET Steps) /\ Len(cut) = n
        /\ cut[n] = left[n] \ {s}
        /\ \A i \in 1 .. n : i # n => cut[i] = left[i]
    <3>1. left \in Seq(SUBSET Steps) /\ n = Len(left) /\ n \in 1 .. n /\ n \in Nat
      BY <1>2
    <3>2. n \in DOMAIN left /\ DOMAIN left = 1 .. n
      BY <3>1
    <3>3. left[n] \ {s} \in SUBSET Steps
      BY <3>1, <3>2
    <3>4. DOMAIN cut = 1 .. n /\ \A i \in 1 .. n : cut[i] \in SUBSET Steps
      BY <3>1, <3>2, <3>3
    <3> QED BY <3>1, <3>2, <3>4
  <2> HIDE DEF cut
  <2>2. left' = Append(cut, next)
    BY <1>1 DEF cut
  <2> QED BY <1>2, <1>3, <2>1, <2>2
<1>5. /\ chain' \in Chains /\ Len(chain') = n /\ chain'[n] = s
      /\ \A i \in 1 .. Len(chain) : chain'[i] = chain[i]
  BY <1>1, <1>2 DEF Chains
<1>6. SearchInv'
  BY <1>1, SearchKeeps
<1>7. TypeOK'
  BY <1>1, <1>4, <1>5, <1>6 DEF TypeOK, SearchInv
<1>8. Stages'
  BY <1>1 DEF Stages, search
<1>9. Tracing' /\ Pruning'
  BY <1>1 DEF Tracing, Pruning
<1>10. Onward'
  BY <1>1 DEF Onward, IsOnward
<1>11. Walking'
  <2>1. left' # <<>> /\ Len(left') = Len(chain') + 1
    BY <1>2, <1>4, <1>5
  <2>2. \A i \in 0 .. Len(chain) : At(i)' = At(i)
    BY <1>1, <1>5 DEF At
  <2>3. At(n)' = s.to
    BY <1>2, <1>5 DEF At
  <2>4. \A i \in 1 .. Len(chain') : /\ IsOnward(chain'[i], At(i - 1)')
                                    /\ forth[chain'[i].to] = i
                                    /\ chain'[i] \notin left'[i]
    <3> TAKE i \in 1 .. Len(chain')
    <3>1. CASE i = n
      BY <1>2, <1>4, <1>5, <2>2, <3>1
    <3>2. CASE i # n
      <4>1. i \in 1 .. Len(chain) /\ i - 1 \in 0 .. Len(chain)
        BY <1>2, <1>5, <3>2
      <4> QED BY <1>1, <1>2, <1>4, <1>5, <2>2, <3>2, <4>1 DEF Walking
    <3> QED BY <3>1, <3>2
  <2>5. \A i \in 1 .. Len(left') : left'[i] \subseteq StepsAlong(dag, At(i - 1)')
    <3> TAKE i \in 1 .. Len(left')
    <3>1. CASE i = n + 1
      <4>1. i - 1 = n
        BY <1>2, <3>1
      <4> QED BY <1>4, <2>3, <3>1, <4>1 DEF next
    <3>2. CASE i # n + 1
      <4>1. i \in 1 .. n
        BY <1>4, <3>2
      <4>2. i - 1 \in 0 .. Len(chain)
        BY <1>2, <4>1
      <4>3. left'[i] \subseteq left[i]
        BY <1>4, <4>1
      <4> QED BY <1>1, <2>2, <4>1, <4>2, <4>3 DEF Walking
    <3> QED BY <3>1, <3>2
  <2>6. \A i \in 1 .. Len(chain') : IsOnward(chain'[i], At(i - 1)')
                                      = IsOnward(chain[i], At(i - 1))'
    BY <1>1 DEF IsOnward
  <2> QED BY <1>1, <2>1, <2>4, <2>5, <2>6 DEF Walking
<1>12. Shortest'
  BY <1>1 DEF Shortest, IsWalk
<1>13. NotAgain'
  <2>1. ASSUME NEW k \in 1 .. Len(paths), NEW i \in 1 .. Len(left') PROVE Passed(k, i)'
    <3>1. CASE i = n + 1
      <4>1. Passed(k, n)
        BY <1>1, <1>2 DEF NotAgain
      <4>2. SUFFICES ASSUME n + 1 <= Len(paths[k]), \A j \in 1 .. n : paths[k][j] = chain'[j]
                     PROVE  FALSE
        BY <1>1, <1>2, <3>1 DEF Passed
      <4>3. /\ n <= Len(paths[k]) /\ paths[k][n] = s
            /\ \A j \in 1 .. n - 1 : paths[k][j] = chain[j]
        <5>1. paths[k] \in Chains /\ Len(paths[k]) \in Nat
          BY <1>2 DEF Chains
        <5>2. \A j \in 1 .. n - 1 : j \in 1 .. n /\ j \in 1 .. Len(chain)
          BY <1>2
        <5>3. n \in 1 .. n /\ n \in Nat /\ n <= Len(paths[k])
          BY <1>2, <4>2, <5>1
        <5>4. paths[k][n] = s
          BY <1>5, <4>2, <5>3
        <5>5. \A j \in 1 .. n - 1 : paths[k][j] = chain[j]
          BY <1>5, <4>2, <5>2
        <5> QED BY <5>3, <5>4, <5>5
      <4> QED BY <1>2, <4>1, <4>3 DEF Passed
    <3>2. CASE i # n + 1
      <4>1. i \in 1 .. n /\ left'[i] \subseteq left[i]
        BY <1>2, <1>4, <3>2
      <4>2. Passed(k, i)
        BY <1>1, <4>1 DEF NotAgain
      <4>3. \A j \in 1 .. i - 1 : chain'[j] = chain[j]
        BY <1>2, <1>5, <4>1
      <4> QED BY <1>1, <4>1, <4>2, <4>3 DEF Passed
    <3> QED BY <3>1, <3>2
  <2> QED BY <1>1, <2>1 DEF NotAgain
<1>14. ChainsHold'
  BY <1>1 DEF ChainsHold, IsWalk
<1> QED BY <1>6, <1>7, <1>8, <1>9, <1>10, <1>11, <1>12, <1>13, <1>14

LEMMA FrontOf ==
    ASSUME NEW T, NEW q \in Seq(T), Len(q) \in Nat \ {0}
    PROVE  /\ SubSeq(q, 1, Len(q) - 1) \in Seq(T)
           /\ Len(SubSeq(q, 1, Len(q) - 1)) = Len(q) - 1
           /\ \A i \in 1 .. Len(q) - 1 : SubSeq(q, 1, Len(q) - 1)[i] = q[i]
<1> DEFINE f == SubSeq(q, 1, Len(q) - 1)
<1>1. PICK n \in Nat : n = Len(q) - 1
  OBVIOUS
<1>2. \A i \in 1 .. n : i \in 1 .. Len(q) /\ q[i] \in T
  BY <1>1
<1>3. f = [i \in 1 .. n |-> q[i]]
  BY <1>1, <1>2
<1>4. f \in Seq(T) /\ Len(f) = n
  BY <1>1, <1>2, <1>3
<1> QED BY <1>1, <1>3, <1>4

\* A call of dfs returns to the one that made it.
LEMMA RetreatKeeps == ASSUME QueryInv, Retreat PROVE QueryInv'
<1> USE DEF QueryInv
<1>1. /\ pc = "enumerate" /\ pc' = pc /\ left # <<>>
      /\ left' = SubSeq(left, 1, Len(left) - 1)
      /\ UNCHANGED <<search, stored, claims, asked, request, forth, dag, paths, answer>>
  BY DEF Retreat, Front
<1>2. /\ left \in Seq(SUBSET Steps) /\ chain \in Chains
      /\ Len(left) = Len(chain) + 1 /\ Len(chain) \in Nat
  BY <1>1 DEF TypeOK, Walking, Chains
<1>3. /\ left' \in Seq(SUBSET Steps) /\ Len(left') = Len(chain)
      /\ \A i \in 1 .. Len(chain) : left'[i] = left[i]
  BY <1>1, <1>2
<1>4. /\ chain' \in Chains
      /\ chain = <<>> => chain' = <<>>
      /\ chain # <<>> => Len(chain) = Len(chain') + 1
      /\ Len(chain') \in Nat /\ Len(chain') <= Len(chain)
      /\ \A i \in 1 .. Len(chain') : chain'[i] = chain[i]
  <2>1. CASE chain = <<>>
    <3>1. chain' = <<>>
      BY <2>1 DEF Retreat
    <3> QED BY <1>2, <2>1, <3>1
  <2>2. CASE chain # <<>>
    <3>1. chain' = SubSeq(chain, 1, Len(chain) - 1)
      BY <2>2 DEF Retreat, Front
    <3>2. chain \in Seq(Steps) /\ Len(chain) \in Nat \ {0}
      BY <1>2, <2>2 DEF Chains
    <3>3. /\ chain' \in Seq(Steps) /\ Len(chain') = Len(chain) - 1
          /\ \A i \in 1 .. Len(chain') : chain'[i] = chain[i]
      BY <3>1, <3>2, FrontOf
    <3> QED BY <2>2, <3>2, <3>3 DEF Chains
  <2> QED BY <2>1, <2>2
<1>5. SearchInv'
  BY <1>1, SearchKeeps
<1>6. left' # <<>> => Len(left') = Len(chain') + 1
  BY <1>2, <1>3, <1>4
<1>7. TypeOK'
  BY <1>1, <1>3, <1>4, <1>5, <1>6 DEF TypeOK, SearchInv
<1>8. Stages'
  BY <1>1 DEF Stages, search
<1>9. Tracing' /\ Pruning'
  BY <1>1 DEF Tracing, Pruning
<1>10. Onward'
  BY <1>1 DEF Onward, IsOnward
<1>11. Walking'
  <2>1. left' = <<>> => chain' = <<>>
    BY <1>2, <1>3, <1>4
  <2>2. \A i \in 0 .. Len(chain') : At(i)' = At(i)
    BY <1>1, <1>4 DEF At
  <2>3. \A i \in 1 .. Len(chain') : /\ IsOnward(chain'[i], At(i - 1)')
                                    /\ forth[chain'[i].to] = i
                                    /\ chain'[i] \notin left'[i]
    <3> TAKE i \in 1 .. Len(chain')
    <3>1. i \in 1 .. Len(chain) /\ i - 1 \in 0 .. Len(chain')
      BY <1>2, <1>4
    <3> QED BY <1>1, <1>3, <1>4, <2>2, <3>1 DEF Walking
  <2>4. \A i \in 1 .. Len(left') : left'[i] \subseteq StepsAlong(dag, At(i - 1)')
    <3> TAKE i \in 1 .. Len(left')
    <3>1. i \in 1 .. Len(chain) /\ i \in 1 .. Len(left) /\ i - 1 \in 0 .. Len(chain')
      BY <1>2, <1>3, <1>4
    <3> QED BY <1>1, <1>3, <2>2, <3>1 DEF Walking
  <2>5. \A i \in 1 .. Len(chain') : IsOnward(chain'[i], At(i - 1)')
                                      = IsOnward(chain[i], At(i - 1))'
    BY <1>1 DEF IsOnward
  <2> QED BY <1>1, <1>6, <2>1, <2>3, <2>4, <2>5 DEF Walking
<1>12. Shortest'
  BY <1>1 DEF Shortest, IsWalk
<1>13. NotAgain'
  <2>1. ASSUME NEW k \in 1 .. Len(paths), NEW i \in 1 .. Len(left') PROVE Passed(k, i)'
    <3>1. i \in 1 .. Len(left) /\ left'[i] = left[i]
      BY <1>2, <1>3
    <3>2. Passed(k, i)
      BY <1>1, <3>1 DEF NotAgain
    <3>3. \A j \in 1 .. i - 1 : chain'[j] = chain[j]
      BY <1>2, <1>3, <1>4
    <3> QED BY <1>1, <3>1, <3>2, <3>3 DEF Passed
  <2> QED BY <1>1, <2>1 DEF NotAgain
<1>14. ChainsHold'
  BY <1>1 DEF ChainsHold, IsWalk
<1> QED BY <1>5, <1>7, <1>8, <1>9, <1>10, <1>11, <1>12, <1>13, <1>14

\* dfs has ended, and limit of the chains it found are reported.
LEMMA AnswerPathsKeeps == ASSUME QueryInv, AnswerPaths PROVE QueryInv'
<1> USE DEF QueryInv
<1>1. PICK shown \in Nat :
        /\ shown <= request.limit /\ shown <= Len(paths)
        /\ answer' = Found(forth[request.target], SubSeq(paths, 1, shown),
                           Len(paths) > request.limit)
  BY RequestTyped DEF AnswerPaths, Answer, TypeOK
<1>2. /\ pc = "enumerate" /\ pc' = "answered"
      /\ UNCHANGED <<search, stored, claims, asked, request, forth, dag, left, chain, paths>>
  BY DEF AnswerPaths, Answer
<1>3. /\ SubSeq(paths, 1, shown) \in Seq(Chains)
      /\ Len(SubSeq(paths, 1, shown)) = shown
      /\ \A i \in 1 .. shown : SubSeq(paths, 1, shown)[i] = paths[i] /\ i \in 1 .. Len(paths)
  BY <1>1 DEF TypeOK
<1>4. /\ answer'.chains \in Seq(Chains) /\ Len(answer'.chains) = shown
      /\ \A i \in 1 .. shown : answer'.chains[i] = paths[i]
      /\ answer'.hops = forth[request.target]
  BY <1>1, <1>3 DEF Found
<1>5. IsAnswer(answer')
  <2>1. forth[request.target] \in Nat
    BY <1>2, RequestTyped DEF Pruning, TypeOK
  <2> QED BY <1>1, <1>3, <2>1 DEF IsAnswer, Found
<1>6. SearchInv'
  BY <1>2, SearchKeeps
<1>7. TypeOK'
  BY <1>2, <1>5, <1>6 DEF TypeOK, SearchInv
<1>8. Stages'
  BY <1>2 DEF Stages, search
<1>9. Tracing' /\ Pruning' /\ Onward' /\ Walking' /\ Shortest' /\ NotAgain'
  BY <1>2 DEF Tracing, Pruning, Onward, Walking, Shortest, IsWalk, NotAgain
<1>10. ChainsHold'
  <2>1. /\ \A k \in 1 .. Len(paths) : /\ IsWalk(paths[k], request.source, request.target)
                                      /\ Len(paths[k]) = forth[request.target]
        /\ \A k, m \in 1 .. Len(paths) : paths[k] = paths[m] => k = m
    BY DEF Shortest, NotAgain
  <2>2. \A i \in 1 .. shown : i \in 1 .. Len(paths) /\ answer'.chains[i] = paths[i]
    BY <1>3, <1>4
  <2>3. \A i \in 1 .. shown : IsWalk(answer.chains[i], request.source, request.target)'
    BY <1>2, <2>1, <2>2 DEF IsWalk
  <2>4. \A i \in 1 .. shown : Len(answer'.chains[i]) = answer'.hops
    BY <1>4, <2>1, <2>2
  <2>5. \A i, j \in 1 .. shown : answer'.chains[i] = answer'.chains[j] => i = j
    BY <2>1, <2>2
  <2>6. Len(answer'.chains) = shown /\ shown <= request'.limit /\ request' = request
    BY <1>1, <1>2, <1>4
  <2> HIDE DEF QueryInv
  <2> QED BY <2>3, <2>4, <2>5, <2>6 DEF ChainsHold
<1> QED BY <1>6, <1>7, <1>8, <1>9, <1>10

\* Every step of the specification keeps the invariant.
LEMMA QueryKeeps == QueryInv /\ [Next]_vars => QueryInv'
<1> SUFFICES ASSUME QueryInv, [Next]_vars PROVE QueryInv'
  OBVIOUS
<1>1. CASE UNCHANGED vars
  <2> USE <1>1 DEF QueryInv, vars, query, search
  <2>1. SearchInv'
    BY SearchKeeps
  <2>2. TypeOK'
    BY <2>1 DEF TypeOK, SearchInv
  <2>3. Stages' /\ Tracing' /\ Pruning'
    BY DEF Stages, Tracing, Pruning, Current
  <2>4. Onward' /\ Walking'
    BY DEF Onward, Walking, IsOnward, At
  <2>5. Shortest' /\ NotAgain' /\ ChainsHold'
    BY DEF Shortest, NotAgain, Passed, ChainsHold, IsWalk
  <2> QED BY <2>1, <2>2, <2>3, <2>4, <2>5
<1>2. CASE Query
  <2>1. CASE \E s \in Untried : Tries(s) /\ (Arrive(s) \/ Descend(s))
    BY <2>1, ArriveKeeps, DescendKeeps
  <2>2. CASE AskTrivial \/ AnswerNeighbors \/ AnswerNone
    BY <2>2, ShortAnswersKeep
  <2>3. CASE Ask \/ Search \/ Return \/ Prune
    BY <2>3, AskKeeps, SearchStepKeeps, ReturnKeeps, PruneKeeps
  <2>4. CASE StartTrace \/ Trace \/ AnswerPath
    BY <2>4, StartTraceKeeps, TraceKeeps, AnswerPathKeeps
  <2>5. CASE Retreat \/ AnswerPaths
    BY <2>5, RetreatKeeps, AnswerPathsKeeps
  <2> QED BY <1>2, <2>1, <2>2, <2>3, <2>4, <2>5 DEF Query
<1> QED BY <1>1, <1>2, ClaimKeeps DEF Next, Answered

LEMMA QueryInvariant == Spec => []QueryInv
BY QueryStarts, QueryKeeps, PTL DEF Spec

\* Typed variables (GraphQueries' TypeOK), and the bookkeeping of dfs.
THEOREM QueryTypes == Spec => []TypeOK
BY QueryInvariant, PTL DEF QueryInv

\* Every hop count is that of a chain of relationships the search has read, and
\* no search overlooks an entity within its bound, or finds it later than it could.
THEOREM SearchesExact == Spec => []SearchExact
BY QueryInvariant, EndedIsClosed, PTL DEF QueryInv, SearchInv, SearchExact

\* What `graph path' and `graph paths' report are distinct chains of the case, of
\* the length they say, whatever other processes claim while they read.
THEOREM ReportedChainsHold == Spec => []ChainsHold
BY QueryInvariant, PTL DEF QueryInv

-----------------------------------------------------------------------------
(***************************************************************************)
(* What a query answers: the distances, and the shortest chains, of the case*)
(* as it read it.                                                          *)
(***************************************************************************)

\* The first n values of a sequence are n when no two are alike.
Values(s, n) == {s[i] : i \in 1 .. n}
Distinct(s, n) == \A i, j \in 1 .. n : s[i] = s[j] => i = j

LEMMA DistinctCount ==
    ASSUME NEW s, NEW n \in Nat, Distinct(s, n)
    PROVE  Cardinality(Values(s, n)) = n
<1> DEFINE T == Values(s, n)
           f == [i \in 1 .. n |-> s[i]]
<1>1. f \in Bijection(1 .. n, T)
  BY DEF Bijection, Injection, IsInjective, Surjection, Values, Distinct
<1>2. ExistsBijection(1 .. n, T)
  BY <1>1 DEF ExistsBijection
<1> HIDE DEF T
<1>3. IsFiniteSet(1 .. n)
  BY FS_Interval
<1>4. Cardinality(T) = n
  BY <1>2, <1>3, FS_Bijection, FS_CountingElements
<1> QED BY <1>4 DEF T

LEMMA ImageFinite ==
    ASSUME NEW S, IsFiniteSet(S), NEW f, DOMAIN f = S
    PROVE  IsFiniteSet({f[x] : x \in S})
<1> DEFINE T == {f[x] : x \in S}
           g == [x \in S |-> f[x]]
<1>1. g \in Surjection(S, T)
  BY DEF Surjection
<1> HIDE DEF T, g
<1>2. IsFiniteSet(T)
  BY <1>1, FS_Surjection
<1> QED BY <1>2 DEF T

LEMMA StepsFinite ==
    ASSUME NEW E, IsFiniteSet(E), NEW way
    PROVE  IsFiniteSet(StepsOf(E, way))
<1> DEFINE f == [r \in E |-> Forward(r)]
           b == [r \in E |-> Backward(r)]
           F == {f[r] : r \in E}
           B == {b[r] : r \in E}
<1>1. IsFiniteSet(F) /\ IsFiniteSet(B)
  BY ImageFinite
<1>2. StepsOf(E, way) \subseteq F \cup B
  BY DEF StepsOf
<1> HIDE DEF F, B
<1>3. IsFiniteSet(F \cup B)
  BY <1>1, FS_Union
<1> QED BY <1>2, <1>3, FS_Subset

\* A finite graph has finitely many walks of a length.
LEMMA WalksFinite ==
    ASSUME NEW a, NEW E \in SUBSET Relationships, IsFiniteSet(E), NEW way, NEW n \in Nat
    PROVE  IsFiniteSet(WalksFrom(a, E, way, n))
<1> DEFINE S == {k \in Nat : IsFiniteSet(WalksFrom(a, E, way, k))}
<1>1. 0 \in S
  <2>1. WalksFrom(a, E, way, 0) = {<<>>}
    BY WalksNext
  <2> QED BY <2>1, FS_Singleton
<1>2. ASSUME NEW k \in Nat, k \in S PROVE k + 1 \in S
  <2> DEFINE W == WalksFrom(a, E, way, k)
             D == W \X StepsOf(E, way)
             f == [p \in D |-> Append(p[1], p[2])]
             T == {f[p] : p \in D}
  <2>1. IsFiniteSet(D)
    BY <1>2, StepsFinite, FS_Product
  <2>2. IsFiniteSet(T)
    <3>1. DOMAIN f = D
      OBVIOUS
    <3> HIDE DEF D, f
    <3> QED BY <2>1, <3>1, ImageFinite
  <2>3. ASSUME NEW v \in Extended(a, E, way, W) PROVE v \in T
    <3> HIDE DEF W
    <3>1. PICK w \in W : v \in {Append(w, s) : s \in StepsFrom(EndOf(a, w), E, way)}
      BY <2>3 DEF Extended, EndOf
    <3>2. PICK s \in StepsFrom(EndOf(a, w), E, way) : v = Append(w, s)
      BY <3>1
    <3>3. <<w, s>> \in D /\ f[<<w, s>>] = v
      BY <3>2 DEF StepsFrom
    <3> QED BY <3>3
  <2>4. WalksFrom(a, E, way, k + 1) = Extended(a, E, way, W)
    BY WalksNext
  <2> HIDE DEF T, W
  <2>5. WalksFrom(a, E, way, k + 1) \in SUBSET T
    BY <2>3, <2>4
  <2> QED BY <2>2, <2>5, FS_Subset
<1> HIDE DEF S
<1>3. n \in S
  BY <1>1, <1>2, SetInduction
<1> QED BY <1>3 DEF S

LEMMA WalksToFinite ==
    ASSUME NEW a, NEW b, NEW E \in SUBSET Relationships, IsFiniteSet(E), NEW way, NEW n \in Nat
    PROVE  IsFiniteSet(Walks(a, b, E, way, n))
<1>1. Walks(a, b, E, way, n) \in SUBSET WalksFrom(a, E, way, n)
  BY WalksTo, WalksAre
<1> QED BY <1>1, WalksFinite, FS_Subset

\* find_neighbors and find_path work on what the case held when they read it.
Reading == /\ pc \in {"forth", "trace"} => edges = asked
           /\ pc = "trace" => SearchEnded /\ request.ask = "path"
           /\ pc \in {"back", "enumerate"} => request.ask = "paths"

\* The trace is as many hops from the target as it has steps.
TraceLength == pc = "trace" => /\ request.target \in visited
                               /\ Len(chain) + Distance[Current] = Distance[request.target]

\* find_all_shortest_paths: what the first search measured, ...
ForthMeasured ==
    pc \in {"back", "enumerate"} =>
        Measures(forth, request.source, asked, request.direction, request.max_depth)

\* ... and what the second one reads, from the other end.
BackReading == pc = "back" => /\ asked \subseteq edges
                              /\ origin = request.target
                              /\ direction = Reverse(request.direction)

Tied == ShortestChains(forth[request.target], asked)

\* Unless the case has changed, the subgraph has every step of every chain tied
\* for shortest, ...
DagComplete ==
    pc = "enumerate" /\ stored = asked =>
        \A w \in Tied : \A i \in 1 .. Len(w) : w[i] \in StepsAlong(dag, w[i].from)

\* ... and each of these chains has been found or leaves the chain of dfs by a
\* step still to be tried.
Awaited(w) == \E i \in 1 .. Len(left) : /\ i <= Len(w)
                                        /\ w[i] \in left[i]
                                        /\ \A j \in 1 .. i - 1 : w[j] = chain[j]

NoneMissed ==
    pc = "enumerate" /\ stored = asked /\ Len(paths) <= request.limit =>
        \A w \in Tied : (\E k \in 1 .. Len(paths) : paths[k] = w) \/ Awaited(w)

ExactInv == /\ Reading /\ TraceLength /\ ForthMeasured /\ BackReading /\ DagComplete
            /\ NoneMissed /\ IsFiniteSet(stored) /\ NeighborsExact /\ ShortestExact

LEMMA EndTyped ==
    ASSUME NEW a \in Entities, NEW w \in Seq(Steps)
    PROVE  EndOf(a, w) \in Entities
<1>1. w # <<>> => w[Len(w)] \in Steps
  OBVIOUS
<1>2. \A s \in Steps : s.to \in Entities
  BY DEF Steps
<1> QED BY <1>1, <1>2 DEF EndOf

\* Where a walk from a is after k of its steps.
Along(w, a, k) == IF k = 0 THEN a ELSE w[k].to

\* What the two searches have measured when they read the same: b is n hops from a.
MeasuredBothWays(there, back, n, a, b, E, way, max) ==
    /\ Measures(there, a, E, way, max)
    /\ Measures(back, b, E, Reverse(way), max)
    /\ IsDistance(n, a, b, E, way, max)

LiesAt(e, there, i, back, j) == /\ e \in DOMAIN there /\ there[e] = i
                                /\ e \in DOMAIN back /\ back[e] = j

\* On a shortest chain every entity is as far from the source as it is along the
\* chain, by the first search, and as far from the target, by the second.
LEMMA OnTheWay ==
    ASSUME NEW a \in Entities, NEW b \in Entities, NEW E \in SUBSET Relationships,
           NEW way \in Directions, NEW max \in Nat,
           NEW there, NEW back, NEW n \in Nat,
           MeasuredBothWays(there, back, n, a, b, E, way, max),
           NEW w \in Walks(a, b, E, way, n), NEW k \in 0 .. n
    PROVE  LiesAt(Along(w, a, k), there, k, back, n - k)
<1> DEFINE e == Along(w, a, k)
           v == SubSeq(w, 1, k)
           u == SubSeq(w, k + 1, Len(w))
<1>0. /\ Measures(there, a, E, way, max) /\ Measures(back, b, E, Reverse(way), max)
      /\ IsDistance(n, a, b, E, way, max)
  BY DEF MeasuredBothWays
<1>1. w \in Seq(Steps) /\ Len(w) = n /\ IsPath(w, a, E, way) /\ EndOf(a, w) = b
  BY WalksTo
<1>2. /\ v \in Seq(Steps) /\ Len(v) = k /\ IsPath(v, a, E, way) /\ EndOf(a, v) = e
      /\ u \in Seq(Steps) /\ Len(u) = n - k /\ IsPath(u, e, E, way) /\ EndOf(e, u) = b
  BY <1>1, PathSplit DEF Along
<1>3. e \in Entities
  BY <1>2, EndTyped
<1> HIDE DEF e, v, u
<1>4. n \in 0 .. max /\ \A j \in Hops(a, b, E, way, max) : n <= j
  BY <1>0 DEF IsDistance, Hops
<1>5. k \in 0 .. max /\ n - k \in 0 .. max /\ k \in Nat /\ n - k \in Nat
  BY <1>4
<1>6. e \in DOMAIN there /\ there[e] \in 0 .. max /\ there[e] <= k
      /\ Walks(a, e, E, way, there[e]) # {}
  <2>1. v \in Walks(a, e, E, way, k)
    BY <1>2, <1>5, WalksTo
  <2>2. k \in Hops(a, e, E, way, max)
    BY <1>5, <2>1 DEF Hops
  <2>3. IsDistance(there[e], a, e, E, way, max) /\ e \in DOMAIN there
    BY <1>0, <1>3, <2>2 DEF Measures
  <2> QED BY <2>2, <2>3 DEF IsDistance, Hops
<1>7. e \in DOMAIN back /\ back[e] \in 0 .. max /\ back[e] <= n - k
      /\ Walks(b, e, E, Reverse(way), back[e]) # {}
  <2>1. PICK x \in Seq(Steps) : /\ Len(x) = n - k
                                /\ IsPath(x, b, E, Reverse(way)) /\ EndOf(b, x) = e
    <3>1. n - k \in Nat /\ u \in Seq(Steps) /\ Len(u) = n - k /\ IsPath(u, e, E, way)
          /\ EndOf(e, u) = b
      BY <1>2, <1>5
    <3> QED BY <1>3, <3>1, PathTurned
  <2>2. x \in Walks(b, e, E, Reverse(way), n - k)
    BY <1>5, <2>1, WalksTo
  <2>3. n - k \in Hops(b, e, E, Reverse(way), max)
    BY <1>5, <2>2 DEF Hops
  <2>4. IsDistance(back[e], b, e, E, Reverse(way), max) /\ e \in DOMAIN back
    BY <1>0, <1>3, <2>3 DEF Measures
  <2> QED BY <2>3, <2>4 DEF IsDistance, Hops
<1>8. n <= there[e] + back[e]
  <2>1. PICK x \in Seq(Steps) : /\ Len(x) = there[e] /\ IsPath(x, a, E, way)
                                /\ EndOf(a, x) = e
    BY <1>6, WalksTo
  <2>2. PICK y \in Seq(Steps) : /\ Len(y) = back[e] /\ IsPath(y, b, E, Reverse(way))
                                /\ EndOf(b, y) = e
    BY <1>7, WalksTo
  <2>3. PICK z \in Seq(Steps) : Len(z) = back[e] /\ IsPath(z, e, E, way) /\ EndOf(e, z) = b
    <3>1. Reverse(way) \in Directions /\ Reverse(Reverse(way)) = way
      BY TurnedTwice
    <3> QED BY <2>2, <3>1, PathTurned
  <2> DEFINE j == there[e] + back[e]
             xz == x \o z
  <2>4. xz \in Seq(Steps) /\ Len(xz) = j /\ IsPath(xz, a, E, way) /\ EndOf(a, xz) = b
    <3>1. IsPath(z, EndOf(a, x), E, way) /\ EndOf(EndOf(a, x), z) = b
      BY <2>1, <2>3
    <3>2. /\ xz \in Seq(Steps) /\ Len(xz) = Len(x) + Len(z) /\ IsPath(xz, a, E, way)
          /\ EndOf(a, xz) = EndOf(EndOf(a, x), z)
      BY <2>1, <3>1, PathJoin
    <3> QED BY <2>1, <2>3, <3>1, <3>2
  <2>5. j \in Nat
    BY <1>6, <1>7
  <2> HIDE DEF xz, j
  <2>6. xz \in Walks(a, b, E, way, j)
    BY <2>4, <2>5, WalksTo
  <2>7. j <= max => j \in Hops(a, b, E, way, max)
    BY <2>5, <2>6 DEF Hops
  <2>8. n <= j
    BY <1>4, <2>5, <2>7
  <2> QED BY <2>8 DEF j
<1>9. there[e] = k /\ back[e] = n - k
  BY <1>5, <1>6, <1>7, <1>8
<1> QED BY <1>6, <1>7, <1>9 DEF e, LiesAt

\* The tied chains, as sequences.
LEMMA TiedAre ==
    ASSUME QueryInv, ForthMeasured, pc \in {"back", "enumerate"}
    PROVE  /\ asked \in SUBSET Relationships
           /\ request.target \in DOMAIN forth
           /\ forth[request.target] \in Nat
           /\ AtDistance(forth[request.target], request.target, asked)
           /\ Reachable(request.target, asked)
           /\ Tied = {w \in Seq(Steps) : /\ Len(w) = forth[request.target]
                                         /\ IsPath(w, request.source, asked, request.direction)
                                         /\ EndOf(request.source, w) = request.target}
<1>1. asked \in SUBSET Relationships /\ request.target \in DOMAIN forth
  BY DEF QueryInv, TypeOK, Pruning
<1>2. /\ AtDistance(forth[request.target], request.target, asked)
      /\ Reachable(request.target, asked)
  BY <1>1, RequestTyped DEF ForthMeasured, Measures, AtDistance, Reachable, QueryInv, TypeOK
<1>3. forth[request.target] \in Nat
  BY <1>2 DEF AtDistance, IsDistance, Hops
<1> QED BY <1>1, <1>2, <1>3, WalksTo DEF Tied, ShortestChains

\* Where the entities of a tied chain are, by both searches.
LEMMA OnATiedChain ==
    ASSUME QueryInv, ForthMeasured, pc \in {"back", "enumerate"},
           NEW back, Measures(back, request.target, asked, Reverse(request.direction),
                              request.max_depth),
           NEW w \in Tied, NEW k \in 0 .. Len(w)
    PROVE  LiesAt(Along(w, request.source, k), forth, k, back, Len(w) - k)
<1>1. PICK a, b, way, max, E, there :
        /\ a = request.source /\ b = request.target
        /\ way = request.direction /\ max = request.max_depth /\ E = asked /\ there = forth
  OBVIOUS
<1>2. PICK n : n = Len(w)
  OBVIOUS
<1>3. /\ a \in Entities /\ b \in Entities /\ way \in Directions /\ max \in Nat
      /\ E \in SUBSET Relationships
  BY <1>1, RequestTyped DEF QueryInv, TypeOK
<1>4. n = forth[b] /\ w \in Seq(Steps) /\ n \in Nat /\ AtDistance(n, b, E) /\ w \in ShortestChains(n, E)
  BY <1>1, <1>2, TiedAre DEF Tied
<1>5. IsDistance(n, a, b, E, way, max) /\ w \in Walks(a, b, E, way, n)
  BY <1>1, <1>4 DEF AtDistance, ShortestChains
<1>6. MeasuredBothWays(there, back, n, a, b, E, way, max)
  BY <1>1, <1>5 DEF ForthMeasured, MeasuredBothWays
<1>7. k \in 0 .. n
  BY <1>2
<1>8. LiesAt(Along(w, a, k), there, k, back, n - k)
  BY <1>3, <1>4, <1>5, <1>6, <1>7, OnTheWay
<1> QED BY <1>1, <1>2, <1>8

\* A first search that has ended has measured the case as it was read.
LEMMA ForthEnds ==
    ASSUME QueryInv, Reading, pc \in {"forth", "trace"}, SearchEnded
    PROVE  Measures(Distance, request.source, asked, request.direction, request.max_depth)
BY EndedMeasures DEF QueryInv, Reading, Stages

LEMMA ExactStarts == Init => ExactInv
<1> SUFFICES ASSUME Init PROVE ExactInv
  OBVIOUS
<1> USE DEF Init
<1>1. Reading /\ TraceLength /\ ForthMeasured /\ BackReading /\ DagComplete /\ NoneMissed
  BY DEF Reading, TraceLength, ForthMeasured, BackReading, DagComplete, NoneMissed
<1>2. NeighborsExact /\ ShortestExact
  BY DEF NeighborsExact, ShortestExact, OneShortestChain, AllShortestChains, IsAnswered
<1> QED BY <1>1, <1>2, ClaimedAssumption DEF ExactInv

\* Until a query is answered, nothing is said of its answer.
LEMMA NothingSaid == pc' # "answered" => NeighborsExact' /\ ShortestExact'
BY DEF NeighborsExact, ShortestExact, OneShortestChain, AllShortestChains, IsAnswered

\* Once it is, nothing but the answer counts.
LEMMA NothingElse ==
    pc' = "answered" => /\ Reading' /\ TraceLength' /\ ForthMeasured' /\ BackReading'
                        /\ DagComplete' /\ NoneMissed'
BY DEF Reading, TraceLength, ForthMeasured, BackReading, DagComplete, NoneMissed

LEMMA ClaimExact == ASSUME QueryInv, ExactInv, Claim PROVE ExactInv'
<1> USE DEF Claim, query, search, ExactInv
<1>1. pc # "answered" /\ pc' = pc /\ asked' = asked
  OBVIOUS
<1>2. PICK r \in Relationships \ stored : stored' = stored \cup {r}
  OBVIOUS
<1>3. stored' # asked /\ IsFiniteSet(stored')
  BY <1>2, FS_AddElement DEF QueryInv, TypeOK
<1>4. Reading' /\ TraceLength'
  BY DEF Reading, TraceLength, SearchEnded, Current, Distance
<1>5. ForthMeasured' /\ BackReading'
  BY DEF ForthMeasured, BackReading
<1>6. DagComplete' /\ NoneMissed'
  BY <1>1, <1>3 DEF DagComplete, NoneMissed
<1> QED BY <1>1, <1>3, <1>4, <1>5, <1>6, NothingSaid

LEMMA AskExact == ASSUME QueryInv, ExactInv, Ask PROVE ExactInv'
<1> USE DEF Ask, StartSearch, ExactInv
<1>1. pc' = "forth"
  OBVIOUS
<1>2. Reading' /\ TraceLength' /\ ForthMeasured' /\ BackReading' /\ DagComplete' /\ NoneMissed'
  BY <1>1 DEF Reading, TraceLength, ForthMeasured, BackReading, DagComplete, NoneMissed
<1> QED BY <1>1, <1>2, NothingSaid

LEMMA SearchExactStep == ASSUME QueryInv, ExactInv, Search PROVE ExactInv'
<1> USE DEF Search, query, ExactInv
<1>1. /\ pc \in {"forth", "back"} /\ pc' = pc /\ SearchStep /\ asked' = asked
      /\ forth' = forth /\ request' = request /\ stored' = stored
  OBVIOUS
<1>2. edges' = edges /\ origin' = origin /\ direction' = direction /\ bound' = bound
  BY <1>1 DEF SearchStep, Expand, Skip, Discover, Deepen
<1>3. Reading' /\ TraceLength' /\ BackReading' /\ DagComplete' /\ NoneMissed'
  BY <1>1, <1>2 DEF Reading, TraceLength, BackReading, DagComplete, NoneMissed
<1>4. ForthMeasured'
  BY <1>1 DEF ForthMeasured
<1> QED BY <1>1, <1>3, <1>4, NothingSaid

\* A walk of no steps, which is what connects an entity to itself.
LEMMA NoSteps ==
    ASSUME NEW a, NEW E \in SUBSET Relationships, NEW way, NEW max \in Nat
    PROVE  /\ Walks(a, a, E, way, 0) = {<<>>}
           /\ Hops(a, a, E, way, max) # {}
           /\ IsDistance(0, a, a, E, way, max)
<1>1. Walks(a, a, E, way, 0) = {<<>>}
  BY DEF Walks
<1>2. 0 \in Hops(a, a, E, way, max)
  BY <1>1 DEF Hops
<1> QED BY <1>1, <1>2 DEF IsDistance, Hops

LEMMA AskTrivialExact == ASSUME QueryInv, ExactInv, AskTrivial PROVE ExactInv'
<1> USE DEF AskTrivial, Answer, ExactInv
<1>1. /\ pc' = "answered" /\ request' = request /\ asked' = asked /\ stored' = stored
      /\ request.ask # "neighbors" /\ request.source = request.target
      /\ answer' = Found(0, <<<<>>>>, FALSE)
  OBVIOUS
<1>2. asked \in SUBSET Relationships /\ request.max_depth \in Nat /\ request.limit \in Nat \ {0}
  BY RequestTyped DEF QueryInv, TypeOK
<1>3. /\ answer'.found /\ answer'.hops = 0 /\ answer'.chains = <<<<>>>> /\ ~answer'.truncated
  BY <1>1 DEF Found
<1>4. /\ Reachable(request.target, asked) /\ AtDistance(0, request.target, asked)
      /\ ShortestChains(0, asked) = {<<>>}
  BY <1>1, <1>2, NoSteps DEF Reachable, AtDistance, ShortestChains
<1>5. OneShortestChain'
  <2>0. \A w : <<w>>[1] = w
    OBVIOUS
  <2>1. answer'.chains[1] = <<>>
    BY <1>3, <2>0, Zenon
  <2>2. Reachable(request.target, asked)' /\ AtDistance(0, request.target, asked)'
        /\ ShortestChains(0, asked)' = {<<>>}
    BY <1>1, <1>4 DEF Reachable, AtDistance, ShortestChains
  <2>3. answer'.found /\ answer'.hops = 0
    BY <1>3
  <2> QED BY <1>1, <2>1, <2>2, <2>3 DEF OneShortestChain
<1>6. AllShortestChains'
  <2>1. {<<<<>>>>[i] : i \in DOMAIN <<<<>>>>} = {<<>>}
    OBVIOUS
  <2>2. Cardinality({<<>>}) = 1
    BY FS_Singleton
  <2>3. ~(1 > request.limit)
    BY <1>2
  <2> QED BY <1>1, <1>3, <1>4, <2>1, <2>2, <2>3
          DEF AllShortestChains, Reachable, AtDistance, ShortestChains
<1> QED BY <1>1, <1>5, <1>6, NothingElse DEF NeighborsExact, IsAnswered, ShortestExact

LEMMA AnswerNeighborsExact == ASSUME QueryInv, ExactInv, AnswerNeighbors PROVE ExactInv'
<1> USE DEF AnswerNeighbors, Answer, search, ExactInv
<1>1. /\ pc = "forth" /\ pc' = "answered" /\ SearchEnded /\ request' = request
      /\ request.ask = "neighbors" /\ asked' = asked /\ discovered' = discovered
      /\ stored' = stored
  OBVIOUS
<1>2. Measures(Distance, request.source, asked, request.direction, request.max_depth)
  BY <1>1, ForthEnds
<1>3. /\ DOMAIN discovered = visited \ {request.source} /\ DOMAIN Distance = visited
      /\ \A e \in DOMAIN discovered : Distance[e] = discovered[e].hop
  BY <1>1, DistanceOf DEF QueryInv, SearchInv, SearchOK, Stages, Distance
<1>4. NeighborsExact'
  BY <1>1, <1>2, <1>3 DEF NeighborsExact, Measures, Reachable, AtDistance
<1>5. ShortestExact'
  BY <1>1 DEF ShortestExact, OneShortestChain, AllShortestChains, IsAnswered
<1> QED BY <1>1, <1>4, <1>5, NothingElse

LEMMA AnswerNoneExact == ASSUME QueryInv, ExactInv, AnswerNone PROVE ExactInv'
<1> USE DEF AnswerNone, Answer, search, ExactInv
<1>1. /\ pc = "forth" /\ pc' = "answered" /\ SearchEnded /\ request' = request
      /\ request.ask # "neighbors" /\ asked' = asked /\ request.target \notin visited
      /\ stored' = stored /\ answer' = NoAnswer
  OBVIOUS
<1>2. Measures(Distance, request.source, asked, request.direction, request.max_depth)
  BY <1>1, ForthEnds
<1>3. ~Reachable(request.target, asked) /\ ~answer'.found
  <2>1. request.target \in Entities /\ DOMAIN Distance = visited
    BY RequestTyped DEF QueryInv, TypeOK, Distance
  <2>2. ~Reachable(request.target, asked)
    BY <1>1, <1>2, <2>1 DEF Measures, Reachable
  <2> QED BY <1>1, <2>2 DEF NoAnswer
<1>4. NeighborsExact'
  BY <1>1 DEF NeighborsExact, IsAnswered
<1>5. ShortestExact'
  BY <1>1, <1>3 DEF ShortestExact, OneShortestChain, AllShortestChains, Reachable
<1> QED BY <1>1, <1>4, <1>5, NothingElse

LEMMA StartTraceExact == ASSUME QueryInv, ExactInv, StartTrace PROVE ExactInv'
<1> USE DEF StartTrace, search, ExactInv
<1>1. /\ pc = "forth" /\ pc' = "trace" /\ SearchEnded /\ chain = <<>> /\ chain' = <<>>
      /\ request' = request /\ request.target \in visited
      /\ UNCHANGED <<search, asked, stored>>
  BY DEF QueryInv, Stages
<1>2. Reading'
  BY <1>1 DEF Reading, SearchEnded
<1>3. TraceLength'
  <2>1. Current' = request.target /\ Len(chain') = 0
    BY <1>1 DEF Current
  <2>2. Distance' = Distance /\ Distance[request.target] \in Nat
    BY <1>1, DistanceOf DEF Distance, QueryInv, SearchInv, SearchOK
  <2> QED BY <1>1, <2>1, <2>2 DEF TraceLength
<1>4. ForthMeasured' /\ BackReading' /\ DagComplete' /\ NoneMissed'
  BY <1>1 DEF ForthMeasured, BackReading, DagComplete, NoneMissed
<1> QED BY <1>1, <1>2, <1>3, <1>4, NothingSaid

LEMMA TraceExact == ASSUME QueryInv, ExactInv, Trace PROVE ExactInv'
<1> USE DEF Trace, search, ExactInv
<1> DEFINE s == discovered[Current].step
<1>1. /\ pc = "trace" /\ pc' = "trace" /\ request' = request
      /\ Current # request.source /\ chain' = <<s>> \o chain
      /\ UNCHANGED <<search, asked, stored>>
  OBVIOUS
<1>2. Reading'
  BY <1>1 DEF Reading, SearchEnded
<1>3. /\ Current \in visited \ {origin} /\ chain \in Seq(Steps) /\ s \in Steps
      /\ s.from \in visited /\ Distance[s.from] = Distance[Current] - 1
  BY <1>1 DEF QueryInv, Tracing, Stages, SearchInv, SearchGrounded, SearchOK, TypeOK, Chains
<1>4. /\ Distance[Current] \in Nat /\ Distance[s.from] \in Nat
      /\ request.target \in visited /\ Distance[request.target] \in Nat
      /\ Len(chain) + Distance[Current] = Distance[request.target]
  BY <1>1, <1>3, DistanceOf DEF QueryInv, SearchInv, SearchOK, TraceLength
<1> HIDE DEF s
<1>5. chain' # <<>> /\ chain'[1] = s /\ Len(chain') = Len(chain) + 1 /\ Len(chain) \in Nat
  BY <1>1, <1>3
<1>6. Current' = s.from /\ Distance' = Distance
  BY <1>1, <1>5 DEF Current, Distance
<1>7. TraceLength'
  <2>1. /\ request' = request /\ visited' = visited
        /\ request.target \in visited
    BY <1>1, <1>4
  <2>2. Len(chain') + Distance[s.from] = Distance[request.target]
    <3>1. \A a, b, c, d, e \in Nat :
            c = b - 1 /\ a + b = d /\ e = a + 1 => e + c = d
      OBVIOUS
    <3>2. Len(chain') \in Nat
      BY <1>5
    <3> DEFINE b == Distance[Current]
               c == Distance[s.from]
               d == Distance[request.target]
               a == Len(chain)
               e == Len(chain')
    <3>3. /\ a \in Nat /\ b \in Nat /\ c \in Nat /\ d \in Nat /\ e \in Nat
          /\ c = b - 1 /\ a + b = d /\ e = a + 1
      <4>1. c = b - 1
        BY <1>3
      <4>2. a + b = d /\ b \in Nat /\ c \in Nat /\ d \in Nat
        BY <1>4
      <4>3. e = a + 1 /\ a \in Nat /\ e \in Nat
        BY <1>5, <3>2
      <4> QED BY <4>1, <4>2, <4>3
    <3> HIDE DEF a, b, c, d, e
    <3>4. e + c = d
      BY <3>3
    <3> QED BY <3>4 DEF c, d, e
  <2>3. Len(chain') + Distance'[Current'] = Distance'[request'.target]
    BY <1>6, <2>1, <2>2
  <2> QED BY <2>1, <2>3 DEF TraceLength
<1>8. ForthMeasured' /\ BackReading' /\ DagComplete' /\ NoneMissed'
  BY <1>1 DEF ForthMeasured, BackReading, DagComplete, NoneMissed
<1> QED BY <1>1, <1>2, <1>7, <1>8, NothingSaid

LEMMA AnswerPathExact == ASSUME QueryInv, ExactInv, AnswerPath PROVE ExactInv'
<1> USE DEF AnswerPath, Answer, search, ExactInv
<1> DEFINE n == Len(chain)
<1>1. /\ pc = "trace" /\ pc' = "answered" /\ request' = request
      /\ Current = request.source /\ asked' = asked /\ stored' = stored
      /\ answer' = Found(n, <<chain>>, FALSE)
  OBVIOUS
<1>2. /\ edges = asked /\ SearchEnded /\ origin = request.source
      /\ direction = request.direction /\ request.source # request.target
  BY <1>1 DEF Reading, QueryInv, Stages
<1>3. /\ request.target \in visited /\ n = Distance[request.target]
      /\ chain \in Seq(Steps) /\ asked \in SUBSET Relationships
  <2>1. Distance[request.source] = 0 /\ chain \in Seq(Steps) /\ asked \in SUBSET Relationships
    BY <1>2, DistanceOf DEF QueryInv, SearchInv, TypeOK, Chains
  <2> QED BY <1>1, <2>1 DEF TraceLength
<1>4. Measures(Distance, request.source, asked, request.direction, request.max_depth)
  BY <1>1, <1>2, ForthEnds
<1>5. AtDistance(n, request.target, asked) /\ Reachable(request.target, asked)
  BY <1>3, <1>4, RequestTyped DEF Measures, Distance, AtDistance, Reachable, QueryInv, TypeOK
<1>6. chain # <<>> /\ chain[1].from = request.source /\ chain[n].to = request.target
  BY <1>1, <1>2 DEF Current, QueryInv, Tracing
<1>7. IsPath(chain, request.source, asked, request.direction)
  <2> SUFFICES ASSUME NEW i \in 1 .. n
               PROVE  /\ chain[i] \in StepsOf(asked, request.direction)
                      /\ chain[i].from = IF i = 1 THEN request.source ELSE chain[i - 1].to
    BY DEF IsPath
  <2>1. chain[i] \in StepsOf(asked, request.direction)
    BY <1>1, <1>2 DEF QueryInv, Tracing
  <2>2. i # 1 => i - 1 \in 1 .. n - 1 /\ (i - 1) + 1 = i
    BY <1>3
  <2>3. \A j \in 1 .. n - 1 : chain[j].to = chain[j + 1].from
    BY <1>1 DEF QueryInv, Tracing
  <2>4. i # 1 => chain[i - 1].to = chain[i].from
    BY <2>2, <2>3
  <2> QED BY <1>6, <2>1, <2>4
<1>8. chain \in ShortestChains(n, asked)
  <2>1. n \in Nat
    BY <1>3
  <2>2. EndOf(request.source, chain) = request.target
    BY <1>6 DEF EndOf
  <2> QED BY <1>3, <1>7, <2>1, <2>2, WalksTo DEF ShortestChains
<1>9. answer'.found /\ answer'.hops = n /\ answer'.chains[1] = chain
  BY <1>1 DEF Found
<1>10. request.ask # "neighbors" /\ request.ask # "paths"
  BY <1>1 DEF Reading
<1>11. NeighborsExact' /\ AllShortestChains'
  BY <1>1, <1>10 DEF NeighborsExact, AllShortestChains, IsAnswered
<1>12. OneShortestChain'
  BY <1>1, <1>5, <1>8, <1>9 DEF OneShortestChain, Reachable, AtDistance, ShortestChains
<1> QED BY <1>1, <1>11, <1>12, NothingElse DEF ShortestExact

LEMMA ReturnExact == ASSUME QueryInv, ExactInv, Return PROVE ExactInv'
<1> USE DEF Return, ExactInv
<1>1. /\ pc = "forth" /\ pc' = "back" /\ SearchEnded /\ request.ask = "paths"
      /\ request' = request /\ asked' = asked /\ stored' = stored
      /\ forth' = Distance /\ asked \subseteq stored
  BY DEF QueryInv, TypeOK
<1>2. ForthMeasured'
  BY <1>1, ForthEnds DEF ForthMeasured
<1>3. /\ edges' = stored /\ origin' = request.target
      /\ direction' = Reverse(request.direction)
  BY DEF StartSearch
<1>4. Reading' /\ BackReading'
  BY <1>1, <1>3 DEF Reading, BackReading
<1>5. TraceLength' /\ DagComplete' /\ NoneMissed'
  BY <1>1 DEF TraceLength, DagComplete, NoneMissed
<1> QED BY <1>1, <1>2, <1>4, <1>5, NothingSaid

LEMMA TiedKeeps ==
    ASSUME request' = request, asked' = asked, forth' = forth
    PROVE  Tied' = Tied
BY DEF Tied, ShortestChains

LEMMA PruneExact == ASSUME QueryInv, ExactInv, Prune PROVE ExactInv'
<1> USE DEF Prune, ExactInv
<1>1. /\ pc = "back" /\ pc' = "enumerate" /\ SearchEnded /\ dag' = Pruned(stored)
      /\ left' = <<StepsAlong(dag', request.source)>>
      /\ request' = request /\ asked' = asked /\ stored' = stored /\ forth' = forth
      /\ chain' = chain /\ paths' = paths /\ paths = <<>>
      /\ request.source # request.target
  BY DEF QueryInv, Stages
<1>2. Tied' = Tied
  BY <1>1, TiedKeeps
<1>3. Reading' /\ TraceLength' /\ BackReading' /\ ForthMeasured'
  BY <1>1 DEF Reading, TraceLength, BackReading, ForthMeasured
<1>4. ASSUME stored = asked, NEW w \in Tied, NEW i \in 1 .. Len(w)
      PROVE  w[i] \in StepsAlong(dag', w[i].from)
  <2> DEFINE n == forth[request.target]
  <2>1. /\ edges = asked /\ origin = request.target /\ SearchInv
        /\ direction = Reverse(request.direction) /\ bound = request.max_depth
    BY <1>1, <1>4 DEF BackReading, QueryInv, Stages
  <2>2. Measures(Distance, request.target, asked, Reverse(request.direction),
                 request.max_depth)
    BY <1>1, <2>1, EndedMeasures
  <2>3. /\ n \in Nat /\ w \in Seq(Steps) /\ Len(w) = n
        /\ IsPath(w, request.source, asked, request.direction)
    BY <1>1, <1>4, TiedAre
  <2> HIDE DEF n
  <2>4. i - 1 \in 0 .. n /\ i \in 0 .. n /\ i # 0 /\ (i - 1 = 0 <=> i = 1)
    BY <2>3
  <2>5. /\ w[i].from = Along(w, request.source, i - 1)
        /\ w[i].to = Along(w, request.source, i)
        /\ w[i] \in StepsOf(asked, request.direction)
    BY <2>3, <2>4 DEF IsPath, Along
  <2>6. \A k \in 0 .. n : LiesAt(Along(w, request.source, k), forth, k, Distance, n - k)
    BY <1>1, <1>4, <2>2, <2>3, OnATiedChain
  <2>7. /\ LiesAt(w[i].from, forth, i - 1, Distance, n - (i - 1))
        /\ LiesAt(w[i].to, forth, i, Distance, n - i)
    BY <2>4, <2>5, <2>6
  <2>8. DOMAIN Distance = visited
    BY DEF Distance
  <2>9. /\ (i - 1) + (n - (i - 1)) = n /\ i + (n - i) = n /\ i - 1 < n /\ (i - 1) + 1 = i
    BY <2>3, <2>4
  <2>10. /\ OnShortest(w[i].from) /\ OnShortest(w[i].to)
         /\ forth[w[i].from] = i - 1 /\ forth[w[i].to] = i
         /\ w[i].from \in DOMAIN forth
    BY <2>7, <2>8, <2>9 DEF LiesAt, OnShortest, n
  <2>11. w[i].from \in DOMAIN dag'
    BY <1>1, <2>9, <2>10 DEF Pruned, n
  <2>12. w[i] \in dag'[w[i].from]
    BY <1>1, <1>4, <2>5, <2>9, <2>10, <2>11 DEF Pruned, StepsFrom
  <2> QED BY <2>11, <2>12 DEF StepsAlong
<1>5. DagComplete'
  BY <1>1, <1>2, <1>4 DEF DagComplete
<1>6. NoneMissed'
  <2> SUFFICES ASSUME stored = asked, NEW w \in Tied PROVE Awaited(w)'
    BY <1>1, <1>2 DEF NoneMissed
  <2>1. 1 \in 1 .. Len(w)
    <3>1. w \in Seq(Steps) /\ EndOf(request.source, w) = request.target
      BY <1>1, TiedAre
    <3>2. w # <<>>
      BY <1>1, <3>1 DEF EndOf
    <3> QED BY <3>1, <3>2
  <2>2. w[1] \in StepsAlong(dag', request.source)
    <3>1. IsPath(w, request.source, asked, request.direction)
      BY <1>1, TiedAre
    <3>2. w[1].from = request.source
      BY <2>1, <3>1 DEF IsPath
    <3>3. w[1] \in StepsAlong(dag', w[1].from)
      BY <1>4, <2>1
    <3> QED BY <3>2, <3>3
  <2>3. Len(left') = 1 /\ left'[1] = StepsAlong(dag', request.source) /\ 1 <= Len(w)
    BY <1>1, <2>1
  <2>4. 1 \in 1 .. 1 /\ 1 .. 1 - 1 = {}
    OBVIOUS
  <2> QED BY <2>2, <2>3, <2>4 DEF Awaited
<1> QED BY <1>1, <1>3, <1>5, <1>6, NothingSaid

\* dfs keeps what the searches have measured, and the subgraph.
LEMMA DfsKeepsReading ==
    ASSUME ExactInv, pc = "enumerate", pc' = pc,
           UNCHANGED <<stored, asked, request, forth, dag>>
    PROVE  /\ Tied' = Tied /\ Reading' /\ TraceLength' /\ BackReading' /\ ForthMeasured'
           /\ DagComplete' /\ IsFiniteSet(stored)' /\ NeighborsExact' /\ ShortestExact'
<1> USE DEF ExactInv
<1>1. Tied' = Tied
  BY TiedKeeps
<1>2. Reading' /\ TraceLength' /\ BackReading' /\ ForthMeasured'
  BY DEF Reading, TraceLength, BackReading, ForthMeasured
<1>3. DagComplete'
  BY <1>1 DEF DagComplete
<1> QED BY <1>1, <1>2, <1>3, NothingSaid

LEMMA ArriveExact ==
    ASSUME QueryInv, ExactInv, NEW s \in Untried, Tries(s), Arrive(s)
    PROVE  ExactInv'
<1> DEFINE n == Len(left)
           new == Append(chain, s)
<1>1. /\ pc = "enumerate" /\ pc' = pc /\ s.to = request.target
      /\ paths' = Append(paths, new) /\ paths \in Seq(Chains)
      /\ left' = [left EXCEPT ![n] = @ \ {s}]
      /\ UNCHANGED <<stored, asked, request, forth, dag, chain>>
  BY DEF Arrive, Tries, QueryInv, TypeOK
<1>2. /\ n = Len(chain) + 1 /\ Len(chain) \in Nat /\ n \in 1 .. n
      /\ left \in Seq(SUBSET Steps) /\ chain \in Seq(Steps) /\ s \in Steps
      /\ forth[s.to] = n
  BY TriedIsOnward
<1>3. /\ Len(left') = n /\ left'[n] = left[n] \ {s}
      /\ \A i \in 1 .. n : i # n => left'[i] = left[i]
  BY <1>1, <1>2
<1>4. /\ new \in Seq(Steps) /\ Len(new) = n /\ new[n] = s
      /\ \A i \in 1 .. n - 1 : new[i] = chain[i]
  BY <1>2
<1>5. /\ Len(paths') = Len(paths) + 1 /\ Len(paths) \in Nat
      /\ \A k \in 1 .. Len(paths) : paths'[k] = paths[k]
      /\ paths'[Len(paths) + 1] = new
  <2>1. new \in Chains
    BY <1>4 DEF Chains
  <2> HIDE DEF new
  <2> QED BY <1>1, <2>1
<1> HIDE DEF n, new
<1>6. NoneMissed'
  <2> SUFFICES ASSUME stored = asked, Len(paths) <= request.limit, NEW w \in Tied
               PROVE  (\E k \in 1 .. Len(paths') : paths'[k] = w) \/ Awaited(w)'
    <3>1. Len(paths') <= request.limit => Len(paths) <= request.limit
      BY <1>1, <1>5, RequestTyped DEF QueryInv, TypeOK
    <3> QED BY <1>1, <3>1, DfsKeepsReading DEF NoneMissed
  <2>1. w \in Seq(Steps) /\ Len(w) = n
    BY <1>1, <1>2, TiedAre DEF ExactInv
  <2>2. CASE \E k \in 1 .. Len(paths) : paths[k] = w
    BY <1>5, <2>2
  <2>3. CASE Awaited(w)
    <3>1. PICK i \in 1 .. Len(left) : /\ i <= Len(w) /\ w[i] \in left[i]
                                      /\ \A j \in 1 .. i - 1 : w[j] = chain[j]
      BY <2>3 DEF Awaited
    <3>2. i \in 1 .. n
      BY <3>1 DEF n
    <3>3. CASE i # n \/ w[n] # s
      <4>1. w[i] \in left'[i]
        BY <1>3, <3>1, <3>2, <3>3
      <4> QED BY <1>1, <1>3, <3>1, <3>2, <4>1 DEF Awaited
    <3>4. CASE i = n /\ w[n] = s
      <4>1. \A j \in 1 .. n : w[j] = new[j]
        BY <1>2, <1>4, <3>1, <3>4
      <4>2. w = new
        BY <1>4, <2>1, <4>1
      <4> QED BY <1>5, <4>2
    <3> QED BY <3>3, <3>4
  <2>4. pc = "enumerate" /\ NoneMissed
    BY <1>1 DEF ExactInv
  <2> QED BY <2>2, <2>3, <2>4 DEF NoneMissed
<1> QED BY <1>1, <1>6, DfsKeepsReading DEF ExactInv

LEMMA DescendExact ==
    ASSUME QueryInv, ExactInv, NEW s \in Untried, Tries(s), Descend(s)
    PROVE  ExactInv'
<1> PICK n : n = Len(left)
  OBVIOUS
<1> DEFINE next == StepsAlong(dag, s.to)
           cut == [left EXCEPT ![n] = @ \ {s}]
<1>1. /\ pc = "enumerate" /\ pc' = pc /\ s.to # request.target
      /\ chain' = Append(chain, s) /\ left' = Append(cut, next)
      /\ UNCHANGED <<stored, asked, request, forth, dag, paths>>
  BY DEF Descend, Tries
<1>2. /\ n = Len(chain) + 1 /\ Len(chain) \in Nat /\ n \in 1 .. n
      /\ left \in Seq(SUBSET Steps) /\ chain \in Seq(Steps) /\ s \in Steps
      /\ forth[s.to] = n /\ n = Len(left)
  BY TriedIsOnward
<1>n. n \in Nat \ {0} /\ n \in 1 .. n /\ n = Len(left) /\ left \in Seq(SUBSET Steps)
  BY <1>2
<1>3. /\ Len(left') = n + 1 /\ left'[n + 1] = next /\ left'[n] = left[n] \ {s}
      /\ \A i \in 1 .. n : i # n => left'[i] = left[i]
  <2>1. /\ cut \in Seq(SUBSET Steps) /\ Len(cut) = n /\ cut[n] = left[n] \ {s}
        /\ \A i \in 1 .. n : i # n => cut[i] = left[i]
    <3>1. n \in DOMAIN left /\ DOMAIN left = 1 .. n
      BY <1>n
    <3>2. left[n] \ {s} \in SUBSET Steps
      BY <1>2, <3>1
    <3>3. DOMAIN cut = 1 .. n /\ \A i \in 1 .. n : cut[i] \in SUBSET Steps
      BY <1>2, <3>1, <3>2
    <3> QED BY <1>2, <3>1, <3>3
  <2>2. next \subseteq Steps
    BY DEF StepsAlong, QueryInv, TypeOK
  <2> HIDE DEF cut, next
  <2> QED BY <1>1, <1>2, <2>1, <2>2
<1> HIDE DEF cut
<1>4. /\ chain'[n] = s /\ \A i \in 1 .. n - 1 : chain'[i] = chain[i]
  BY <1>1, <1>2
<1>5. NoneMissed'
  <2> SUFFICES ASSUME stored = asked, Len(paths) <= request.limit, NEW w \in Tied
               PROVE  (\E k \in 1 .. Len(paths) : paths[k] = w) \/ Awaited(w)'
    BY <1>1, DfsKeepsReading DEF NoneMissed
  <2>1. /\ w \in Seq(Steps) /\ Len(w) = forth[request.target]
        /\ IsPath(w, request.source, asked, request.direction)
        /\ EndOf(request.source, w) = request.target
    BY <1>1, TiedAre DEF ExactInv
  <2>2. CASE \E k \in 1 .. Len(paths) : paths[k] = w
    BY <2>2
  <2>3. CASE Awaited(w)
    <3>1. PICK i \in 1 .. n : /\ i <= Len(w) /\ w[i] \in left[i]
                              /\ \A j \in 1 .. i - 1 : w[j] = chain[j]
      BY <1>2, <2>3 DEF Awaited
    <3>2. CASE i # n \/ w[n] # s
      <4>1. w[i] \in left'[i]
        BY <1>3, <3>1, <3>2
      <4>2. i \in 1 .. Len(left') /\ \A j \in 1 .. i - 1 : w[j] = chain'[j]
        BY <1>n, <1>3, <1>4, <3>1
      <4> QED BY <3>1, <4>1, <4>2 DEF Awaited
    <3>3. CASE i = n /\ w[n] = s
      <4>1. n # Len(w)
        <5> SUFFICES ASSUME n = Len(w) PROVE FALSE
          OBVIOUS
        <5>1. w # <<>>
          <6>1. Len(w) # 0
            BY <1>n
          <6> QED BY <6>1
        <5>2. s.to = request.target
          BY <2>1, <3>3, <5>1 DEF EndOf
        <5> QED BY <1>1, <5>2
      <4>2. /\ n + 1 \in 1 .. Len(w) /\ (n + 1) - 1 = n /\ n + 1 # 1
            /\ n + 1 \in 1 .. Len(left')
        BY <1>n, <1>3, <2>1, <3>1, <3>3, <4>1
      <4>3. w[n + 1].from = s.to
        BY <2>1, <3>3, <4>2 DEF IsPath
      <4>4. w[n + 1] \in left'[n + 1]
        BY <1>1, <1>3, <4>2, <4>3 DEF ExactInv, DagComplete
      <4>5. \A j \in 1 .. (n + 1) - 1 : w[j] = chain'[j]
        BY <1>n, <1>4, <3>1, <3>3
      <4>6. n + 1 <= Len(w)
        BY <4>2
      <4> QED BY <4>2, <4>4, <4>5, <4>6 DEF Awaited
    <3> QED BY <3>2, <3>3
  <2>4. pc = "enumerate" /\ NoneMissed
    BY <1>1 DEF ExactInv
  <2> QED BY <2>2, <2>3, <2>4 DEF NoneMissed
<1> QED BY <1>1, <1>5, DfsKeepsReading DEF ExactInv

LEMMA RetreatExact == ASSUME QueryInv, ExactInv, Retreat PROVE ExactInv'
<1>1. /\ pc = "enumerate" /\ pc' = pc /\ left # <<>>
      /\ left' = SubSeq(left, 1, Len(left) - 1)
      /\ UNCHANGED <<stored, asked, request, forth, dag, paths>>
      /\ left[Len(left)] = {} \/ Len(paths) > request.limit
  BY DEF Retreat, Front, Untried
<1>2. /\ left \in Seq(SUBSET Steps) /\ chain \in Seq(Steps)
      /\ Len(left) = Len(chain) + 1 /\ Len(chain) \in Nat
  BY <1>1 DEF QueryInv, TypeOK, Walking, Chains
<1>3. /\ Len(left') = Len(chain)
      /\ \A i \in 1 .. Len(chain) : left'[i] = left[i]
  BY <1>1, <1>2
<1>4. \A i \in 1 .. Len(chain) - 1 : chain'[i] = chain[i]
  <2>1. CASE chain = <<>>
    <3>1. 1 .. Len(chain) - 1 = {}
      BY <2>1
    <3> QED BY <3>1
  <2>2. CASE chain # <<>>
    <3>1. chain' = SubSeq(chain, 1, Len(chain) - 1)
      BY <2>2 DEF Retreat, Front
    <3>2. Len(chain) \in Nat \ {0}
      BY <1>2, <2>2
    <3> QED BY <1>2, <3>1, <3>2, FrontOf
  <2> QED BY <2>1, <2>2
<1>5. NoneMissed'
  <2> SUFFICES ASSUME stored = asked, Len(paths) <= request.limit, NEW w \in Tied
               PROVE  (\E k \in 1 .. Len(paths) : paths[k] = w) \/ Awaited(w)'
    BY <1>1, DfsKeepsReading DEF NoneMissed
  <2>1. left[Len(left)] = {}
    <3>1. Len(paths) \in Nat /\ request.limit \in Nat
      BY RequestTyped DEF QueryInv, TypeOK
    <3> QED BY <1>1, <3>1
  <2>2. CASE Awaited(w)
    <3>1. PICK i \in 1 .. Len(left) : /\ i <= Len(w) /\ w[i] \in left[i]
                                      /\ \A j \in 1 .. i - 1 : w[j] = chain[j]
      BY <2>2 DEF Awaited
    <3>2. i \in 1 .. Len(chain) /\ \A j \in 1 .. i - 1 : j \in 1 .. Len(chain) - 1
      BY <1>2, <2>1, <3>1
    <3> QED BY <1>3, <1>4, <3>1, <3>2 DEF Awaited
  <2>3. pc = "enumerate" /\ NoneMissed
    BY <1>1 DEF ExactInv
  <2> QED BY <2>2, <2>3 DEF NoneMissed
<1> QED BY <1>1, <1>5, DfsKeepsReading DEF ExactInv

\* A reported chain is one of those tied for shortest when the case stood still.
LEMMA WalkIsTied ==
    ASSUME QueryInv, ForthMeasured, pc = "enumerate", stored = asked,
           NEW k \in 1 .. Len(paths)
    PROVE  paths[k] \in Tied
<1> DEFINE w == paths[k]
<1>1. /\ IsWalk(w, request.source, request.target) /\ Len(w) = forth[request.target]
      /\ w \in Seq(Steps)
  BY DEF QueryInv, Shortest, TypeOK, Chains
<1> HIDE DEF w
<1>2. IsPath(w, request.source, asked, request.direction)
  <2> SUFFICES ASSUME NEW i \in 1 .. Len(w)
               PROVE  /\ w[i] \in StepsOf(asked, request.direction)
                      /\ w[i].from = IF i = 1 THEN request.source ELSE w[i - 1].to
    BY DEF IsPath
  <2>1. w[i] \in StepsOf(asked, request.direction) /\ w[1].from = request.source
    BY <1>1 DEF IsWalk
  <2>2. i # 1 => i - 1 \in 1 .. Len(w) - 1 /\ (i - 1) + 1 = i
    BY <1>1
  <2>3. i # 1 => w[i - 1].to = w[i].from
    BY <1>1, <2>2 DEF IsWalk
  <2> QED BY <2>1, <2>3
<1>3. EndOf(request.source, w) = request.target
  BY <1>1 DEF IsWalk, EndOf
<1> QED BY <1>1, <1>2, <1>3, TiedAre DEF w

LEMMA AnswerPathsExact == ASSUME QueryInv, ExactInv, AnswerPaths PROVE ExactInv'
<1> PICK limit : limit = request.limit
  OBVIOUS
<1> PICK n : n = Len(paths)
  OBVIOUS
<1> PICK shown : shown = IF n > limit THEN limit ELSE n
  OBVIOUS
<1> PICK hops : hops = forth[request.target]
  OBVIOUS
<1>1. /\ pc = "enumerate" /\ pc' = "answered" /\ left = <<>> /\ request.ask = "paths"
      /\ request' = request /\ asked' = asked /\ stored' = stored
      /\ answer' = Found(hops, SubSeq(paths, 1, shown), n > limit)
  BY DEF AnswerPaths, Answer, ExactInv, Reading
<1>2. /\ paths \in Seq(Chains) /\ n \in Nat /\ limit \in Nat
      /\ shown \in 0 .. n /\ shown \in Nat
  BY RequestTyped DEF QueryInv, TypeOK
<1>3. /\ answer'.found /\ answer'.hops = hops /\ answer'.chains = SubSeq(paths, 1, shown)
      /\ answer'.truncated = (n > limit)
  BY <1>1 DEF Found
<1>4. NeighborsExact' /\ OneShortestChain'
  BY <1>1 DEF NeighborsExact, OneShortestChain, IsAnswered
<1>5. ASSUME stored = asked
      PROVE  LET Shown == {answer'.chains[i] : i \in DOMAIN answer'.chains}
             IN  /\ Reachable(request.target, asked)
                 /\ AtDistance(hops, request.target, asked)
                 /\ Shown \subseteq Tied
                 /\ n > limit <=> Cardinality(Tied) > limit
                 /\ IF n > limit THEN Cardinality(Shown) = limit ELSE Shown = Tied
  <2> DEFINE All(m) == Values(paths, m)
  <2>1. {answer'.chains[i] : i \in DOMAIN answer'.chains} = All(shown)
    <3> DEFINE q == SubSeq(paths, 1, shown)
    <3>1. DOMAIN q = 1 .. shown /\ \A i \in 1 .. shown : q[i] = paths[i]
      BY <1>2
    <3> HIDE DEF q
    <3>2. {q[i] : i \in DOMAIN q} = All(shown)
      BY <3>1 DEF Values
    <3>3. answer'.chains = q
      BY <1>3 DEF q
    <3> QED BY <3>2, <3>3
  <2>2. All(n) \subseteq Tied /\ All(shown) \subseteq All(n) /\ (shown = n => All(shown) = All(n))
    BY <1>1, <1>2, <1>5, WalkIsTied DEF ExactInv, Values
  <2>3. IsFiniteSet(Tied)
    <3>1. IsFiniteSet(asked) /\ asked \in SUBSET Relationships /\ hops \in Nat
      BY <1>1, <1>5, TiedAre DEF ExactInv
    <3> QED BY <3>1, WalksToFinite DEF Tied, ShortestChains
  <2>4. Distinct(paths, n) /\ Distinct(paths, shown)
    BY <1>2 DEF QueryInv, NotAgain, Distinct
  <2>5. Cardinality(All(n)) = n /\ Cardinality(All(shown)) = shown
    BY <1>2, <2>4, DistinctCount
  <2>6. ~(n > limit) => Tied \subseteq All(n)
    <3> SUFFICES ASSUME ~(n > limit), NEW w \in Tied PROVE w \in All(n)
      OBVIOUS
    <3>1. ~Awaited(w)
      BY <1>1 DEF Awaited
    <3>2. n <= limit
      BY <1>2
    <3> QED BY <1>1, <1>5, <3>1, <3>2 DEF ExactInv, NoneMissed, Values
  <2> HIDE DEF All
  <2>7. Cardinality(Tied) >= n /\ Cardinality(Tied) \in Nat
    BY <1>2, <2>2, <2>3, <2>5, FS_Subset, FS_CardinalityType
  <2>8. n > limit <=> Cardinality(Tied) > limit
    <3>1. ~(n > limit) => Tied = All(n)
      BY <2>2, <2>6
    <3> QED BY <1>2, <2>5, <2>7, <3>1
  <2>9. Reachable(request.target, asked) /\ AtDistance(hops, request.target, asked)
    BY <1>1, TiedAre DEF ExactInv
  <2>10. IF n > limit THEN Cardinality(All(shown)) = limit ELSE All(shown) = Tied
    <3>1. n > limit => shown = limit
      OBVIOUS
    <3>2. ~(n > limit) => shown = n /\ All(shown) = Tied
      BY <2>2, <2>6
    <3> QED BY <2>5, <3>1, <3>2
  <2> QED BY <2>1, <2>2, <2>8, <2>9, <2>10
<1>6. AllShortestChains'
  <2>1. /\ Tied = ShortestChains(hops, asked)
        /\ ShortestChains(hops, asked)' = ShortestChains(hops, asked)
        /\ Reachable(request.target, asked)' = Reachable(request.target, asked)
        /\ AtDistance(hops, request.target, asked)' = AtDistance(hops, request.target, asked)
    BY <1>1 DEF Tied, ShortestChains, Reachable, AtDistance
  <2> DEFINE Shown == {answer.chains[i] : i \in DOMAIN answer.chains}
             Exact == /\ answer.found <=> Reachable(request.target, asked)
                      /\ answer.found =>
                           /\ AtDistance(answer.hops, request.target, asked)
                           /\ Shown \subseteq ShortestChains(answer.hops, asked)
                           /\ answer.truncated <=>
                                Cardinality(ShortestChains(answer.hops, asked)) > request.limit
                           /\ IF answer.truncated THEN Cardinality(Shown) = request.limit
                              ELSE Shown = ShortestChains(answer.hops, asked)
  <2>2. stored = asked => Exact'
    <3> SUFFICES ASSUME stored = asked PROVE Exact'
      OBVIOUS
    <3> DEFINE R == Reachable(request.target, asked)
               A == AtDistance(hops, request.target, asked)
               C == ShortestChains(hops, asked)
               Seen == Shown'
    <3>1. /\ R /\ A /\ Seen \subseteq C /\ (n > limit <=> Cardinality(C) > limit)
          /\ IF n > limit THEN Cardinality(Seen) = limit ELSE Seen = C
      BY <1>5, <2>1
    <3>2. R' = R /\ AtDistance(answer.hops, request.target, asked)' = A
          /\ ShortestChains(answer.hops, asked)' = C
      BY <1>1, <1>3, <2>1
    <3>3. request'.limit = limit /\ answer'.found /\ answer'.truncated = (n > limit)
      BY <1>1, <1>3
    <3> HIDE DEF Shown, A, C, Seen
    <3> QED BY <3>1, <3>2, <3>3 DEF R, Seen
  <2> HIDE DEF Exact
  <2>3. AllShortestChains' = (pc = "answered" /\ request.ask = "paths" /\ stored = asked => Exact)'
    BY DEF AllShortestChains, IsAnswered, Exact
  <2> QED BY <1>1, <2>2, <2>3
<1>7. IsFiniteSet(stored)'
  BY <1>1 DEF ExactInv
<1> QED BY <1>1, <1>4, <1>6, <1>7, NothingElse DEF ExactInv, ShortestExact

LEMMA ExactStands == ASSUME ExactInv, UNCHANGED vars PROVE ExactInv'
<1> USE DEF ExactInv, vars, query, search
<1>1. Reading' /\ TraceLength' /\ ForthMeasured' /\ BackReading'
  BY DEF Reading, SearchEnded, TraceLength, Current, Distance, ForthMeasured, BackReading
<1>2. DagComplete' /\ NoneMissed'
  BY DEF DagComplete, NoneMissed, Tied, ShortestChains, Awaited
<1>3. NeighborsExact' /\ ShortestExact'
  BY DEF NeighborsExact, ShortestExact, OneShortestChain, AllShortestChains, IsAnswered,
         Reachable, AtDistance, ShortestChains
<1> QED BY <1>1, <1>2, <1>3

LEMMA ExactKeeps == QueryInv /\ ExactInv /\ [Next]_vars => ExactInv'
<1> SUFFICES ASSUME QueryInv, ExactInv, [Next]_vars PROVE ExactInv'
  OBVIOUS
<1>1. CASE Query
  <2>1. CASE \E s \in Untried : Tries(s) /\ (Arrive(s) \/ Descend(s))
    BY <2>1, ArriveExact, DescendExact
  <2>2. CASE AskTrivial \/ Ask \/ Search \/ AnswerNeighbors \/ AnswerNone
    BY <2>2, AskTrivialExact, AskExact, SearchExactStep, AnswerNeighborsExact, AnswerNoneExact
  <2>3. CASE StartTrace \/ Trace \/ AnswerPath
    BY <2>3, StartTraceExact, TraceExact, AnswerPathExact
  <2>4. CASE Return \/ Prune \/ Retreat \/ AnswerPaths
    BY <2>4, ReturnExact, PruneExact, RetreatExact, AnswerPathsExact
  <2> QED BY <1>1, <2>1, <2>2, <2>3, <2>4 DEF Query
<1> QED BY <1>1, ClaimExact, ExactStands DEF Next, Answered

LEMMA ExactInvariant == Spec => []ExactInv
BY QueryInvariant, ExactStarts, ExactKeeps, PTL DEF Spec

\* find_neighbors lists the entities within max_depth hops and no others, each at
\* its distance in the case that the query read (GraphQueries' NeighborsExact).
THEOREM NeighborsAreExact == Spec => []NeighborsExact
BY ExactInvariant, PTL DEF ExactInv

\* find_path reports a shortest chain exactly when one exists within max_depth, and
\* find_all_shortest_paths every chain tied for shortest, or limit of them and that
\* there are more (GraphQueries' ShortestExact).
THEOREM ShortestAreExact == Spec => []ShortestExact
BY ExactInvariant, PTL DEF ExactInv


-----------------------------------------------------------------------------
(***************************************************************************)
(* What the graph's other readings find: what the evidence of two paths    *)
(* goes back to, and the components.                                       *)
(***************************************************************************)

\* A round that adds none of V to what has been found is the last that adds any;
\* so as many rounds as V has members find all of V that is to be found.
LEMMA Saturates ==
    ASSUME NEW D, NEW G \in [D -> D], NEW a \in D, NEW V, IsFiniteSet(V),
           NEW f \in [0 .. Cardinality(V) -> D], IsIteration(f, G, a, Cardinality(V)),
           \A x \in D : x \subseteq G[x],
           \A x \in D : G[x] \cap V = x \cap V => G[G[x]] = G[x]
    PROVE  G[f[Cardinality(V)]] \cap V = f[Cardinality(V)] \cap V
<1> PICK n : n = Cardinality(V)
  OBVIOUS
<1> DEFINE Still(x) == G[x] \cap V = x \cap V
           S == {k \in Nat : k <= n => Still(f[k]) \/ Cardinality(f[k] \cap V) >= k}
<1>0. n \in Nat
  BY FS_CardinalityType
<1>1. \A k \in 0 .. n : f[k] \in D /\ f[k] \cap V \in SUBSET V
  OBVIOUS
<1>2. \A k \in 0 .. n : IsFiniteSet(f[k] \cap V) /\ Cardinality(f[k] \cap V) \in Nat
  BY <1>1, FS_Subset, FS_CardinalityType
<1>3. 0 \in S
  <2>1. 0 \in 0 .. n
    BY <1>0
  <2>2. Cardinality(f[0] \cap V) >= 0
    BY <1>2, <2>1
  <2> HIDE DEF Still
  <2> QED BY <2>2
<1>4. ASSUME NEW k \in Nat, k \in S PROVE k + 1 \in S
  <2> SUFFICES ASSUME k + 1 <= n
               PROVE  Still(f[k + 1]) \/ Cardinality(f[k + 1] \cap V) >= k + 1
    OBVIOUS
  <2>1. k \in 0 .. n /\ k + 1 \in 0 .. n /\ k + 1 # 0 /\ (k + 1) - 1 = k
    BY <1>0
  <2>2. f[k + 1] = G[f[k]]
    BY <2>1 DEF IsIteration
  <2>3. CASE Still(f[k])
    BY <1>1, <2>1, <2>2, <2>3
  <2>4. CASE ~Still(f[k])
    <3> DEFINE A == f[k] \cap V
               B == f[k + 1] \cap V
    <3>1. A \in SUBSET B /\ A # B
      BY <1>1, <2>1, <2>2, <2>4
    <3>2. IsFiniteSet(B) /\ Cardinality(B) \in Nat /\ Cardinality(A) \in Nat
      BY <1>2, <2>1
    <3>3. Cardinality(A) >= k
      BY <1>4, <2>1, <2>4
    <3> HIDE DEF A, B
    <3>4. Cardinality(A) <= Cardinality(B) /\ Cardinality(A) # Cardinality(B)
      BY <3>1, <3>2, FS_Subset
    <3>5. Cardinality(B) >= k + 1
      BY <3>2, <3>3, <3>4
    <3> QED BY <3>5 DEF B
  <2> QED BY <2>3, <2>4
<1> HIDE DEF S
<1>5. n \in S
  BY <1>0, <1>3, <1>4, SetInduction
<1>6. CASE Cardinality(f[n] \cap V) >= n
  <2>1. n \in 0 .. n
    BY <1>0
  <2>2. Cardinality(f[n] \cap V) = Cardinality(V)
    BY <1>0, <1>1, <1>2, <1>6, <2>1, FS_Subset
  <2>3. f[n] \cap V = V
    BY <1>1, <2>1, <2>2, FS_Subset
  <2> QED BY <1>1, <2>1, <2>3
<1> QED BY <1>0, <1>5, <1>6 DEF S

\* What is found lies in every set that has the start and that no round leaves.
LEMMA StaysInside ==
    ASSUME NEW D, NEW G \in [D -> D], NEW a \in D, NEW n \in Nat,
           NEW f \in [0 .. n -> D], IsIteration(f, G, a, n),
           NEW T, a \subseteq T, \A x \in D : x \subseteq T => G[x] \subseteq T
    PROVE  \A k \in 0 .. n : f[k] \subseteq T
<1> DEFINE S == {k \in Nat : k <= n => f[k] \subseteq T}
<1>1. 0 \in S
  BY DEF IsIteration
<1>2. ASSUME NEW k \in Nat, k \in S PROVE k + 1 \in S
  <2> SUFFICES ASSUME k + 1 <= n PROVE f[k + 1] \subseteq T
    OBVIOUS
  <2>1. k \in 0 .. n /\ k + 1 \in 0 .. n /\ k + 1 # 0 /\ (k + 1) - 1 = k
    OBVIOUS
  <2>2. f[k + 1] = G[f[k]]
    BY <2>1 DEF IsIteration
  <2> QED BY <1>2, <2>1, <2>2
<1> HIDE DEF S
<1>3. \A k \in Nat : k \in S
  BY <1>1, <1>2, SetInduction
<1> QED BY <1>3 DEF S

LEMMA KeepsStart ==
    ASSUME NEW D, NEW G \in [D -> D], NEW a \in D, NEW n \in Nat,
           NEW f \in [0 .. n -> D], IsIteration(f, G, a, n),
           \A x \in D : x \subseteq G[x]
    PROVE  \A k \in 0 .. n : a \subseteq f[k]
<1> DEFINE S == {k \in Nat : k <= n => a \subseteq f[k]}
<1>1. 0 \in S
  BY DEF IsIteration
<1>2. ASSUME NEW k \in Nat, k \in S PROVE k + 1 \in S
  <2> SUFFICES ASSUME k + 1 <= n PROVE a \subseteq f[k + 1]
    OBVIOUS
  <2>1. k \in 0 .. n /\ k + 1 \in 0 .. n /\ k + 1 # 0 /\ (k + 1) - 1 = k
    OBVIOUS
  <2>2. f[k + 1] = G[f[k]]
    BY <2>1 DEF IsIteration
  <2> QED BY <1>2, <2>1, <2>2
<1> HIDE DEF S
<1>3. \A k \in Nat : k \in S
  BY <1>1, <1>2, SetInduction
<1> QED BY <1>3 DEF S

\* The recursion of RootEvidence, and what it leads to.
Rounds == Cardinality(DOMAIN EventSources)
IsTrail(f, ref) == f = [k \in 0 .. Rounds |-> IF k = 0 THEN {ref} ELSE Behind(f[k - 1])]
Trail(ref) == CHOOSE f : IsTrail(f, ref)
Origins(ref) == Behind(Trail(ref)[Rounds])

\* They are ref, what it derives from, and so on, and nothing else.
LEMMA OriginsAre ==
    ASSUME NEW ref
    PROVE  /\ RootEvidence(ref) = Origins(ref) \cap Lines
           /\ ref \in Origins(ref)
           /\ Behind(Origins(ref)) \subseteq Origins(ref)
           /\ \A T : ref \in T /\ Behind(T) \subseteq T => Origins(ref) \subseteq T
<1> DEFINE V == DOMAIN EventSources
           U == Behind(V \cup {ref})
           D == SUBSET U
           G == [x \in D |-> Behind(x)]
<1>1. RootEvidence(ref) = Origins(ref) \cap Lines
  BY DEF RootEvidence, Origins, Trail, IsTrail, Rounds
<1>2. IsFiniteSet(V) /\ Rounds = Cardinality(V) /\ Rounds \in Nat
  BY DerivationAssumption, FS_CardinalityType DEF Rounds
<1>3. G \in [D -> D] /\ {ref} \in D /\ \A x \in D : G[x] = Behind(x) /\ x \subseteq G[x]
  BY DEF Behind
<1>4. \A x \in D : G[x] \cap V = x \cap V => G[G[x]] = G[x]
  BY <1>3 DEF Behind
<1> HIDE DEF U, D, G
<1>5. PICK f \in [0 .. Rounds -> D] : IsIteration(f, G, {ref}, Rounds)
  BY <1>2, <1>3, Iterates
<1>6. IsTrail(f, ref)
  <2>1. \A k \in 0 .. Rounds : k # 0 => k - 1 \in 0 .. Rounds
    BY <1>2
  <2>2. \A k \in 0 .. Rounds : k # 0 => G[f[k - 1]] = Behind(f[k - 1])
    BY <1>3, <2>1
  <2> QED BY <1>5, <2>2 DEF IsTrail, IsIteration
<1> DEFINE t == Trail(ref)
<1>7. IsTrail(t, ref)
  BY <1>6 DEF Trail
<1>8. t = f
  <2> DEFINE S == {k \in Nat : k <= Rounds => t[k] = f[k]}
  <2>1. 0 \in S
    BY <1>2, <1>6, <1>7 DEF IsTrail
  <2>2. ASSUME NEW k \in Nat, k \in S PROVE k + 1 \in S
    <3> SUFFICES ASSUME k + 1 <= Rounds PROVE t[k + 1] = f[k + 1]
      OBVIOUS
    <3>1. k + 1 \in 0 .. Rounds /\ k + 1 # 0 /\ (k + 1) - 1 = k /\ k <= Rounds
      BY <1>2
    <3> HIDE DEF t
    <3>2. t[k + 1] = Behind(t[k]) /\ f[k + 1] = Behind(f[k])
      BY <1>6, <1>7, <3>1 DEF IsTrail
    <3> QED BY <2>2, <3>1, <3>2
  <2> HIDE DEF S
  <2>3. \A k \in Nat : k \in S
    BY <2>1, <2>2, SetInduction
  <2>4. \A k \in 0 .. Rounds : t[k] = f[k]
    BY <2>3 DEF S
  <2> HIDE DEF t
  <2> QED BY <1>6, <1>7, <2>4 DEF IsTrail
<1> HIDE DEF t
<1>9. f[Rounds] \in D /\ Rounds \in 0 .. Rounds
  BY <1>2, <1>5
<1>10. Origins(ref) = G[f[Rounds]] /\ Origins(ref) \in D
  BY <1>3, <1>8, <1>9 DEF Origins, t
<1>11. G[f[Rounds]] \cap V = f[Rounds] \cap V
  <2> HIDE DEF V
  <2>1. f \in [0 .. Cardinality(V) -> D] /\ IsIteration(f, G, {ref}, Cardinality(V))
    BY <1>2, <1>5
  <2>2. G[f[Cardinality(V)]] \cap V = f[Cardinality(V)] \cap V
    BY <1>2, <1>3, <1>4, <2>1, Saturates
  <2> QED BY <1>2, <2>2
<1>12. Behind(Origins(ref)) = Origins(ref)
  BY <1>3, <1>4, <1>9, <1>10, <1>11
<1>13. ref \in Origins(ref)
  <2>1. {ref} \subseteq f[Rounds]
    BY <1>2, <1>3, <1>5, <1>9, KeepsStart
  <2> QED BY <1>3, <1>9, <1>10, <2>1
<1>14. ASSUME NEW T, ref \in T, Behind(T) \subseteq T PROVE Origins(ref) \subseteq T
  <2>1. \A x : x \subseteq T => Behind(x) \subseteq T
    BY <1>14 DEF Behind
  <2>2. \A x \in D : x \subseteq T => G[x] \subseteq T
    BY <1>3, <2>1
  <2>3. {ref} \subseteq T
    BY <1>14
  <2>4. \A k \in 0 .. Rounds : f[k] \subseteq T
    <3> HIDE DEF V
    <3> QED BY <1>2, <1>3, <1>5, <2>2, <2>3, StaysInside
  <2> QED BY <1>9, <1>10, <2>2, <2>4
<1> QED BY <1>1, <1>12, <1>13, <1>14

\* So the evidence found is what every set closed under derivation has.
LEMMA RootsRest ==
    ASSUME NEW refs, NEW e \in Lines
    PROVE  e \in UNION {RootEvidence(ref) : ref \in refs} <=> RestsOn(refs, e)
<1> DEFINE U == Behind(Lines \cup DOMAIN EventSources \cup refs)
           C == UNION {Origins(ref) : ref \in refs}
<1>1. ASSUME NEW ref \in refs, e \in RootEvidence(ref) PROVE RestsOn(refs, e)
  <2> SUFFICES ASSUME NEW S \in SUBSET U, refs \subseteq S, Behind(S) \subseteq S
               PROVE  e \in S
    BY DEF RestsOn
  <2>1. e \in Origins(ref) /\ Origins(ref) \subseteq S
    BY <1>1, OriginsAre
  <2> QED BY <2>1
<1>2. ASSUME RestsOn(refs, e) PROVE \E ref \in refs : e \in RootEvidence(ref)
  <2>1. refs \subseteq C
    BY OriginsAre
  <2>2. Behind(C) \subseteq C
    <3> SUFFICES ASSUME NEW v \in C \cap DOMAIN EventSources, NEW x \in EventSources[v]
                 PROVE  x \in C
      BY DEF Behind
    <3>1. PICK ref \in refs : v \in Origins(ref)
      OBVIOUS
    <3>2. x \in Origins(ref)
      <4>1. Behind(Origins(ref)) \subseteq Origins(ref)
        BY OriginsAre
      <4> QED BY <3>1, <4>1 DEF Behind
    <3> QED BY <3>2
  <2>3. C \subseteq U
    <3> SUFFICES ASSUME NEW ref \in refs PROVE Origins(ref) \subseteq U
      OBVIOUS
    <3>1. ref \in U /\ Behind(U) \subseteq U
      BY DEF Behind
    <3> HIDE DEF U
    <3> QED BY <3>1, OriginsAre
  <2>4. e \in C
    <3> HIDE DEF C
    <3> QED BY <1>2, <2>1, <2>2, <2>3 DEF RestsOn
  <2>5. PICK ref \in refs : e \in Origins(ref)
    BY <2>4
  <2> QED BY <2>5, OriginsAre
<1> QED BY <1>1, <1>2

\* A finite set has two members or more when it has two that differ.
LEMMA TwoOrMore ==
    ASSUME NEW S, IsFiniteSet(S)
    PROVE  Cardinality(S) >= 2 <=> \E x, y \in S : x # y
<1>1. Cardinality(S) \in Nat
  BY FS_CardinalityType
<1>2. Cardinality(S) = 0 <=> S = {}
  BY FS_EmptySet
<1>3. Cardinality(S) = 1 <=> \E x : S = {x}
  BY FS_Singleton
<1>4. Cardinality(S) >= 2 <=> Cardinality(S) # 0 /\ Cardinality(S) # 1
  BY <1>1
<1>5. (\E x, y \in S : x # y) <=> S # {} /\ ~(\E x : S = {x})
  OBVIOUS
<1> QED BY <1>2, <1>3, <1>4, <1>5, Zenon

LEMMA OverlapIs == TypeOK => OverlapExact
<1> SUFFICES ASSUME TypeOK PROVE OverlapExact
  OBVIOUS
<1> DEFINE chains == answer.chains
           Cited(i) == UNION {DerivedFrom[chains[i][n].rel] : n \in DOMAIN chains[i]}
           Both == {e \in Lines : \E i, j \in DOMAIN chains :
                      i # j /\ RestsOn(Cited(i), e) /\ RestsOn(Cited(j), e)}
           shared == {e \in Lines : Citing(chains, e) >= 2}
<1>1. chains \in Seq(Chains) /\ Len(chains) \in Nat /\ DOMAIN chains = 1 .. Len(chains)
  BY DEF TypeOK, IsAnswer
<1> HIDE DEF chains
<1>2. ASSUME NEW e \in Lines, NEW i \in DOMAIN chains
      PROVE  e \in ChainEvidence(chains[i]) <=> RestsOn(Cited(i), e)
  <2>1. ChainEvidence(chains[i]) = UNION {RootEvidence(ref) : ref \in Cited(i)}
    BY DEF ChainEvidence
  <2> HIDE DEF Cited
  <2> QED BY <2>1, RootsRest
<1> HIDE DEF Cited
<1>3. ASSUME NEW e \in Lines
      PROVE  e \in shared <=> e \in Both
  <2> DEFINE S == {i \in DOMAIN chains : e \in ChainEvidence(chains[i])}
  <2>1. IsFiniteSet(S)
    <3>1. IsFiniteSet(1 .. Len(chains))
      BY <1>1, FS_Interval
    <3>2. S \in SUBSET (1 .. Len(chains))
      BY <1>1
    <3> HIDE DEF S
    <3> QED BY <3>1, <3>2, FS_Subset
  <2>2. Citing(chains, e) = Cardinality(S)
    BY DEF Citing
  <2>3. \A i : i \in S <=> i \in DOMAIN chains /\ RestsOn(Cited(i), e)
    BY <1>2
  <2> HIDE DEF S
  <2>4. Cardinality(S) >= 2 <=> \E i, j \in S : i # j
    BY <2>1, TwoOrMore
  <2> QED BY <2>2, <2>3, <2>4
<1>4. shared = Both
  BY <1>3
<1> HIDE DEF Both
<1>5. Overlap(chains).shared = Both
  BY <1>4 DEF Overlap
<1>6. Overlap(chains).independent = "yes" <=> Len(chains) >= 2 /\ Both = {}
  <2>1. Overlap(chains).independent = IF Len(chains) < 2 THEN "does not apply"
                                      ELSE IF Both = {} THEN "yes" ELSE "no"
    BY <1>4 DEF Overlap
  <2>2. Len(chains) < 2 <=> ~(Len(chains) >= 2)
    BY <1>1
  <2>3. "yes" # "no" /\ "yes" # "does not apply"
    OBVIOUS
  <2> QED BY <2>1, <2>2, <2>3
<1> QED BY <1>5, <1>6 DEF OverlapExact, Both, Cited, chains

\* A finite set of numbers has a least one.
LEMMA LeastOf ==
    ASSUME NEW S \in SUBSET Int, IsFiniteSet(S), S # {}
    PROVE  Min(S) \in S /\ \A y \in S : Min(S) <= y
<1> DEFINE HasLeast(T) == \E m \in T : \A y \in T : m <= y
           P == {k \in Nat : \A T \in SUBSET S : Cardinality(T) = k + 1 => HasLeast(T)}
<1>1. \A T \in SUBSET S : IsFiniteSet(T) /\ Cardinality(T) \in Nat
  BY FS_Subset, FS_CardinalityType
<1>2. 0 \in P
  <2> SUFFICES ASSUME NEW T \in SUBSET S, Cardinality(T) = 0 + 1 PROVE HasLeast(T)
    OBVIOUS
  <2>1. PICK x : T = {x}
    <3>1. Cardinality(T) = 1
      OBVIOUS
    <3> QED BY <1>1, <3>1, FS_Singleton
  <2>2. x \in Int
    BY <2>1
  <2> QED BY <2>1, <2>2
<1>3. ASSUME NEW k \in Nat, k \in P PROVE k + 1 \in P
  <2> SUFFICES ASSUME NEW T \in SUBSET S, Cardinality(T) = (k + 1) + 1 PROVE HasLeast(T)
    OBVIOUS
  <2>1. IsFiniteSet(T) /\ T # {}
    <3>1. IsFiniteSet(T) /\ Cardinality(T) # 0
      BY <1>1
    <3> QED BY <3>1, FS_EmptySet
  <2>2. PICK x \in T : TRUE
    BY <2>1
  <2>3. Cardinality(T \ {x}) = Cardinality(T) - 1
    BY <2>1, FS_RemoveElement
  <2>4. T \ {x} \in SUBSET S /\ Cardinality(T \ {x}) = k + 1
    BY <2>3
  <2>5. PICK m \in T \ {x} : \A y \in T \ {x} : m <= y
    BY <1>3, <2>4
  <2>6. x \in Int /\ m \in Int /\ \A y \in T : y \in Int
    OBVIOUS
  <2>7. CASE x <= m
    <3>1. \A y \in T : x <= y
      BY <2>5, <2>6, <2>7
    <3> QED BY <3>1
  <2>8. CASE m <= x
    <3>1. \A y \in T : m <= y
      BY <2>5, <2>6, <2>8
    <3> QED BY <3>1
  <2> QED BY <2>6, <2>7, <2>8
<1> HIDE DEF P
<1>4. \A k \in Nat : k \in P
  BY <1>2, <1>3, SetInduction
<1>5. Cardinality(S) - 1 \in Nat /\ (Cardinality(S) - 1) + 1 = Cardinality(S)
  <2>1. Cardinality(S) \in Nat /\ Cardinality(S) # 0
    BY <1>1, FS_EmptySet
  <2> QED BY <2>1
<1>6. HasLeast(S)
  BY <1>4, <1>5 DEF P
<1> QED BY <1>6 DEF Min

\* The members of a finite set, numbered in the order of keys that differ.
Rank(S, key, x) == 1 + Cardinality({y \in S : key[y] < key[x]})

LEMMA Ranks ==
    ASSUME NEW S, IsFiniteSet(S), NEW key \in [S -> Int],
           \A x, y \in S : key[x] = key[y] => x = y
    PROVE  /\ \A x \in S : Rank(S, key, x) \in 1 .. Cardinality(S)
           /\ \A i \in 1 .. Cardinality(S) : \E x \in S : Rank(S, key, x) = i
           /\ \A x, y \in S : Rank(S, key, x) = Rank(S, key, y) => x = y
           /\ \A x, y \in S : Rank(S, key, x) < Rank(S, key, y) => key[x] < key[y]
<1> DEFINE below(x) == {y \in S : key[y] < key[x]}
           n == Cardinality(S)
           f == [x \in S |-> Rank(S, key, x)]
           I == {f[x] : x \in S}
<1>1. n \in Nat
  BY FS_CardinalityType
<1>2. ASSUME NEW T \in SUBSET S PROVE IsFiniteSet(T) /\ Cardinality(T) \in Nat
  BY FS_Subset, FS_CardinalityType
<1>3. ASSUME NEW x \in S
      PROVE  /\ below(x) \in SUBSET S /\ x \notin below(x)
             /\ Cardinality(below(x) \cup {x}) = Cardinality(below(x)) + 1
             /\ Rank(S, key, x) = Cardinality(below(x) \cup {x})
             /\ Rank(S, key, x) \in 1 .. n
  <2>1. below(x) \in SUBSET S /\ x \notin below(x) /\ below(x) \cup {x} \in SUBSET S
    OBVIOUS
  <2>2. Rank(S, key, x) = 1 + Cardinality(below(x))
    BY DEF Rank
  <2> HIDE DEF below
  <2>3. IsFiniteSet(below(x)) /\ Cardinality(below(x)) \in Nat
    BY <1>2, <2>1
  <2>4. Cardinality(below(x) \cup {x}) = Cardinality(below(x)) + 1
    BY <2>1, <2>3, FS_AddElement
  <2>5. Cardinality(below(x) \cup {x}) <= n
    BY <2>1, FS_Subset
  <2> QED BY <1>1, <2>1, <2>2, <2>3, <2>4, <2>5
<1>4. ASSUME NEW x \in S, NEW y \in S, key[x] < key[y]
      PROVE  Rank(S, key, x) < Rank(S, key, y)
  <2>1. below(x) \cup {x} \in SUBSET below(y)
    BY <1>4
  <2>2. Rank(S, key, y) = 1 + Cardinality(below(y))
    BY DEF Rank
  <2> HIDE DEF below
  <2>3. IsFiniteSet(below(y)) /\ Cardinality(below(y)) \in Nat
    BY <1>2, <1>3
  <2>4. Cardinality(below(x) \cup {x}) <= Cardinality(below(y))
    BY <2>1, <2>3, FS_Subset
  <2>5. Rank(S, key, x) \in Nat /\ Rank(S, key, x) = Cardinality(below(x) \cup {x})
    BY <1>1, <1>3
  <2> QED BY <2>2, <2>3, <2>4, <2>5
<1>5. ASSUME NEW x \in S, NEW y \in S
      PROVE  /\ Rank(S, key, x) = Rank(S, key, y) => x = y
             /\ Rank(S, key, x) < Rank(S, key, y) => key[x] < key[y]
  <2>1. Rank(S, key, x) \in Nat /\ Rank(S, key, y) \in Nat
    <3>1. \A i \in 1 .. n : i \in Nat
      BY <1>1
    <3>2. Rank(S, key, x) \in 1 .. n /\ Rank(S, key, y) \in 1 .. n
      BY <1>3
    <3> QED BY <3>1, <3>2
  <2>2. key[x] \in Int /\ key[y] \in Int
    OBVIOUS
  <2>3. /\ key[x] < key[y] => Rank(S, key, x) < Rank(S, key, y)
        /\ key[y] < key[x] => Rank(S, key, y) < Rank(S, key, x)
    BY <1>4
  <2> QED BY <2>1, <2>2, <2>3
<1>6. I = 1 .. n
  <2>1. f \in Bijection(S, I)
    BY <1>5 DEF Bijection, Injection, IsInjective, Surjection
  <2>2. ExistsBijection(S, I)
    BY <2>1 DEF ExistsBijection
  <2>3. I \in SUBSET (1 .. n)
    BY <1>3
  <2>4. IsFiniteSet(1 .. n) /\ Cardinality(1 .. n) = n
    BY <1>1, FS_Interval
  <2> HIDE DEF I, f
  <2>5. Cardinality(I) = n
    BY <2>2, FS_Bijection
  <2> QED BY <2>3, <2>4, <2>5, FS_Subset
<1> QED BY <1>3, <1>5, <1>6

LEMMA EndsFinite ==
    ASSUME NEW read \in SUBSET Relationships, IsFiniteSet(read)
    PROVE  /\ IsFiniteSet(EndsOf(read)) /\ EndsOf(read) \subseteq Entities
           /\ \A r \in read : Ends(r) \subseteq EndsOf(read)
<1> DEFINE s == [r \in read |-> Source[r]]
           t == [r \in read |-> Target[r]]
           F == {s[r] : r \in read}
           T == {t[r] : r \in read}
<1>1. IsFiniteSet(F) /\ IsFiniteSet(T)
  BY ImageFinite
<1>2. EndsOf(read) = F \cup T
  BY DEF EndsOf, Ends
<1>3. F \subseteq Entities /\ T \subseteq Entities
  BY RelationshipsAssumption
<1>4. \A r \in read : Ends(r) \subseteq EndsOf(read)
  BY DEF EndsOf
<1> HIDE DEF F, T
<1> QED BY <1>1, <1>2, <1>3, <1>4, FS_Union

\* No relationship leads out of what a round of find_components leaves as it is.
LEMMA StillIsCut ==
    ASSUME NEW K, NEW read
    PROVE  Cut(K, read) <=> Around(K, read) \subseteq K
<1>1. ASSUME Cut(K, read) PROVE Around(K, read) \subseteq K
  BY <1>1 DEF Cut, Around, EndsOf
<1>2. ASSUME Around(K, read) \subseteq K PROVE Cut(K, read)
  BY <1>2 DEF Cut, Around, EndsOf
<1> QED BY <1>1, <1>2

\* The recursion of Spread.
IsSpread(f, start, read) ==
    f = [k \in 0 .. Cardinality(EndsOf(read)) |->
           IF k = 0 THEN {start} ELSE Around(f[k - 1], read)]
SpreadBy(start, read) == CHOOSE f : IsSpread(f, start, read)

\* It leads to the least set that has start and that no relationship leads out of.
LEMMA SpreadIs ==
    ASSUME NEW read \in SUBSET Relationships, IsFiniteSet(read), NEW e \in EndsOf(read)
    PROVE  /\ e \in Spread(e, read)
           /\ Spread(e, read) \subseteq EndsOf(read)
           /\ Cut(Spread(e, read), read)
           /\ \A K : e \in K /\ Cut(K, read) => Spread(e, read) \subseteq K
<1> DEFINE V == EndsOf(read)
           n == Cardinality(V)
           D == SUBSET V
           G == [x \in D |-> Around(x, read)]
           t == SpreadBy(e, read)
<1>1. Spread(e, read) = t[n]
  BY DEF Spread, SpreadBy, IsSpread
<1>2. IsFiniteSet(V) /\ n \in Nat
  BY EndsFinite, FS_CardinalityType
<1>3. G \in [D -> D] /\ {e} \in D /\ \A x \in D : G[x] = Around(x, read) /\ x \subseteq G[x]
  BY DEF Around, EndsOf
<1>4. \A x \in D : G[x] \cap V = x \cap V => G[x] = x
  BY <1>3
<1> HIDE DEF V, D, G
<1>5. PICK f \in [0 .. n -> D] : IsIteration(f, G, {e}, n)
  BY <1>2, <1>3, Iterates
<1>6. IsSpread(f, e, read)
  <2>1. \A k \in 0 .. n : k # 0 => k - 1 \in 0 .. n
    BY <1>2
  <2>2. \A k \in 0 .. n : k # 0 => G[f[k - 1]] = Around(f[k - 1], read)
    BY <1>3, <2>1
  <2> QED BY <1>5, <2>2 DEF IsSpread, IsIteration, V
<1>7. IsSpread(t, e, read)
  BY <1>6 DEF SpreadBy
<1>8. t = f
  <2> DEFINE S == {k \in Nat : k <= n => t[k] = f[k]}
  <2> HIDE DEF t
  <2>0. /\ t = [k \in 0 .. n |-> IF k = 0 THEN {e} ELSE Around(t[k - 1], read)]
        /\ f = [k \in 0 .. n |-> IF k = 0 THEN {e} ELSE Around(f[k - 1], read)]
    BY <1>6, <1>7 DEF IsSpread, V
  <2>1. 0 \in S
    BY <1>2, <2>0
  <2>2. ASSUME NEW k \in Nat, k \in S PROVE k + 1 \in S
    <3> SUFFICES ASSUME k + 1 <= n PROVE t[k + 1] = f[k + 1]
      OBVIOUS
    <3>1. k + 1 \in 0 .. n /\ k + 1 # 0 /\ (k + 1) - 1 = k /\ k <= n
      BY <1>2
    <3>2. t[k + 1] = Around(t[k], read) /\ f[k + 1] = Around(f[k], read)
      BY <2>0, <3>1
    <3> QED BY <2>2, <3>1, <3>2
  <2> HIDE DEF S
  <2>3. \A k \in Nat : k \in S
    BY <2>1, <2>2, SetInduction
  <2>4. \A k \in 0 .. n : t[k] = f[k]
    BY <2>3 DEF S
  <2> QED BY <2>0, <2>4
<1> HIDE DEF t
<1>9. n \in 0 .. n /\ f[n] \in D /\ Spread(e, read) = f[n]
  BY <1>1, <1>2, <1>5, <1>8
<1>10. G[f[n]] = f[n]
  <2>1. G[f[n]] \cap V = f[n] \cap V
    <3>1. \A x \in D : G[x] \cap V = x \cap V => G[G[x]] = G[x]
      BY <1>4
    <3> QED BY <1>2, <1>3, <1>5, <3>1, Saturates
  <2> QED BY <1>4, <1>9, <2>1
<1>11. Cut(Spread(e, read), read)
  BY <1>3, <1>9, <1>10, StillIsCut
<1>12. e \in Spread(e, read)
  <2>1. \A k \in 0 .. n : {e} \subseteq f[k]
    BY <1>2, <1>3, <1>5, KeepsStart
  <2> QED BY <1>9, <2>1
<1>13. ASSUME NEW K, e \in K, Cut(K, read) PROVE Spread(e, read) \subseteq K
  <2>1. \A x : x \subseteq K => Around(x, read) \subseteq K
    BY <1>13 DEF Cut, Around, EndsOf
  <2>2. \A x \in D : x \subseteq K => G[x] \subseteq K
    BY <1>3, <2>1
  <2>3. {e} \subseteq K
    BY <1>13
  <2>4. \A k \in 0 .. n : f[k] \subseteq K
    BY <1>2, <1>3, <1>5, <2>2, <2>3, StaysInside
  <2> QED BY <1>9, <2>4
<1> QED BY <1>9, <1>11, <1>12, <1>13 DEF D, V

\* Such a set is connected, and every connected one is such a set.
LEMMA SpreadConnected ==
    ASSUME NEW read \in SUBSET Relationships, IsFiniteSet(read), NEW e \in EndsOf(read)
    PROVE  Connected(Spread(e, read), read)
<1> DEFINE K == Spread(e, read)
<1> SUFFICES ASSUME NEW part \in SUBSET K, part # {}, part # K, Cut(part, read)
             PROVE  FALSE
  BY DEF Connected
<1>1. e \in K /\ Cut(K, read) /\ \A L : e \in L /\ Cut(L, read) => K \subseteq L
  BY SpreadIs
<1> HIDE DEF K
<1>2. CASE e \in part
  BY <1>1, <1>2
<1>3. CASE e \notin part
  <2>1. Cut(K \ part, read)
    BY <1>1 DEF Cut
  <2>2. K \subseteq K \ part
    BY <1>1, <1>3, <2>1
  <2> QED BY <2>2
<1> QED BY <1>2, <1>3

LEMMA ConnectedIsSpread ==
    ASSUME NEW read \in SUBSET Relationships, IsFiniteSet(read),
           NEW K \in SUBSET EndsOf(read), Cut(K, read), Connected(K, read), NEW e \in K
    PROVE  K = Spread(e, read)
<1> DEFINE L == Spread(e, read)
<1>1. e \in L /\ Cut(L, read) /\ L \subseteq K
  BY SpreadIs
<1> HIDE DEF L
<1>2. L = K
  BY <1>1 DEF Connected
<1> QED BY <1>2 DEF L

\* The components, as sets: find_components lists those of min_size or more.
Parts(read, min_size) ==
    {K \in {Spread(e, read) : e \in EndsOf(read)} : Cardinality(K) >= min_size}

LEMMA PartsAre ==
    ASSUME NEW read \in SUBSET Relationships, IsFiniteSet(read), NEW min_size
    PROVE  /\ IsFiniteSet(Parts(read, min_size))
           /\ Parts(read, min_size) = {K \in SUBSET EndsOf(read) :
                 K # {} /\ Cut(K, read) /\ Connected(K, read) /\ Cardinality(K) >= min_size}
           /\ \A K \in Parts(read, min_size) : Min(K) \in K /\ Min(K) \in Int
           /\ \A K, L \in Parts(read, min_size) : Min(K) = Min(L) => K = L
<1> DEFINE V == EndsOf(read)
           P == Parts(read, min_size)
           f == [e \in V |-> Spread(e, read)]
           F == {f[e] : e \in V}
<1>1. IsFiniteSet(V) /\ V \in SUBSET Entities
  BY EndsFinite
<1>2. IsFiniteSet(P)
  <2>1. IsFiniteSet(F)
    <3>1. DOMAIN f = V
      OBVIOUS
    <3> HIDE DEF f, V
    <3> QED BY <1>1, <3>1, ImageFinite
  <2>2. P \in SUBSET F
    BY DEF Parts
  <2> HIDE DEF F, P
  <2> QED BY <2>1, <2>2, FS_Subset
<1>3. ASSUME NEW K \in P
      PROVE  K \in SUBSET V /\ K # {} /\ Cut(K, read) /\ Connected(K, read)
             /\ Cardinality(K) >= min_size
  <2>1. PICK e \in V : K = Spread(e, read)
    BY DEF Parts
  <2>2. Cardinality(K) >= min_size
    BY DEF Parts
  <2> QED BY <2>1, <2>2, SpreadIs, SpreadConnected
<1>4. ASSUME NEW K \in SUBSET V, K # {}, Cut(K, read), Connected(K, read),
             Cardinality(K) >= min_size
      PROVE  K \in P
  <2>1. PICK e \in K : TRUE
    BY <1>4
  <2>2. K = Spread(e, read) /\ e \in V
    BY <1>4, ConnectedIsSpread
  <2> QED BY <1>4, <2>2 DEF Parts
<1>5. ASSUME NEW K \in P PROVE Min(K) \in K /\ Min(K) \in Int
  <2>1. K \in SUBSET V /\ K # {}
    BY <1>3
  <2>2. K \in SUBSET Int
    BY <1>1, <2>1, EntitiesAssumption
  <2>3. IsFiniteSet(K)
    <3> HIDE DEF V, P
    <3> QED BY <1>1, <2>1, FS_Subset
  <2> QED BY <2>1, <2>2, <2>3, LeastOf
<1>6. ASSUME NEW K \in P, NEW L \in P, Min(K) = Min(L) PROVE K = L
  <2>1. Min(K) \in K /\ Min(K) \in L
    BY <1>5, <1>6
  <2>2. K = Spread(Min(K), read) /\ L = Spread(Min(K), read)
    BY <1>3, <2>1, ConnectedIsSpread
  <2> QED BY <2>2
<1> HIDE DEF P
<1>7. P = {K \in SUBSET V : K # {} /\ Cut(K, read) /\ Connected(K, read)
                            /\ Cardinality(K) >= min_size}
  BY <1>3, <1>4
<1> QED BY <1>2, <1>5, <1>6, <1>7 DEF P

\* Their relationships are those between their entities.
LEMMA CutTakesWhole ==
    ASSUME NEW read, NEW K, Cut(K, read)
    PROVE  {r \in read : Ends(r) \cap K # {}} = {r \in read : Ends(r) \subseteq K}
<1>1. \A r \in read : Ends(r) # {}
  BY DEF Ends
<1> QED BY <1>1 DEF Cut

LEMMA ComponentsAre ==
    ASSUME NEW read \in SUBSET Relationships, IsFiniteSet(read), NEW min_size
    PROVE  LET listed == Components(read, min_size)
           IN /\ DOMAIN listed = 1 .. Cardinality(Parts(read, min_size))
              /\ Parts(read, min_size) = {listed[i].entity_ids : i \in DOMAIN listed}
              /\ \A i \in DOMAIN listed :
                    /\ listed[i].relationships =
                          {r \in read : Ends(r) \subseteq listed[i].entity_ids}
                    /\ \A j \in 1 .. i - 1 :
                          Min(listed[j].entity_ids) < Min(listed[i].entity_ids)
<1> DEFINE P == Parts(read, min_size)
           n == Cardinality(P)
           key == [K \in P |-> Min(K)]
           Index(K) == 1 + Cardinality({L \in P : Min(L) < Min(K)})
           Listed(i) == CHOOSE K \in P : Index(K) = i
           listed == Components(read, min_size)
<1>1. listed = [i \in {Index(K) : K \in P} |->
                  [entity_ids |-> Listed(i),
                   relationships |-> {r \in read : Ends(r) \cap Listed(i) # {}}]]
  BY DEF Components, Parts
<1>2. /\ IsFiniteSet(P) /\ n \in Nat
      /\ \A K \in P : Min(K) \in Int /\ Cut(K, read)
      /\ \A K, L \in P : Min(K) = Min(L) => K = L
  BY PartsAre, FS_CardinalityType
<1> HIDE DEF P, listed
<1>3. key \in [P -> Int] /\ \A K, L \in P : key[K] = key[L] => K = L
  BY <1>2
<1>4. \A K \in P : Index(K) = Rank(P, key, K)
  BY DEF Rank
<1>5. /\ \A K \in P : Rank(P, key, K) \in 1 .. n
      /\ \A i \in 1 .. n : \E K \in P : Rank(P, key, K) = i
      /\ \A K, L \in P : Rank(P, key, K) = Rank(P, key, L) => K = L
      /\ \A K, L \in P : Rank(P, key, K) < Rank(P, key, L) => key[K] < key[L]
  <2> HIDE DEF key
  <2> QED BY <1>2, <1>3, Ranks
<1>6. /\ \A K \in P : Index(K) \in 1 .. n
      /\ \A i \in 1 .. n : \E K \in P : Index(K) = i
      /\ \A K, L \in P : Index(K) = Index(L) => K = L
      /\ \A K, L \in P : Index(K) < Index(L) => Min(K) < Min(L)
  <2>1. \A K \in P : key[K] = Min(K)
    OBVIOUS
  <2> HIDE DEF key, Index
  <2> QED BY <1>4, <1>5, <2>1
<1>0. {Index(K) : K \in P} = 1 .. n
  <2> HIDE DEF key, Index
  <2> QED BY <1>6
<1> HIDE DEF key, Index
<1>7. \A i \in 1 .. n : Listed(i) \in P /\ Index(Listed(i)) = i
  BY <1>6
<1> HIDE DEF Listed
<1>8. DOMAIN listed = 1 .. n /\ \A i \in 1 .. n :
         /\ listed[i].entity_ids = Listed(i)
         /\ listed[i].relationships = {r \in read : Ends(r) \cap Listed(i) # {}}
  BY <1>0, <1>1
<1>9. P = {listed[i].entity_ids : i \in DOMAIN listed}
  <2>1. ASSUME NEW K \in P PROVE \E i \in 1 .. n : Listed(i) = K
    BY <1>6, <1>7
  <2> QED BY <1>7, <1>8, <2>1
<1>10. ASSUME NEW i \in DOMAIN listed
       PROVE  /\ listed[i].relationships =
                    {r \in read : Ends(r) \subseteq listed[i].entity_ids}
              /\ \A j \in 1 .. i - 1 :
                    Min(listed[j].entity_ids) < Min(listed[i].entity_ids)
  <2>1. i \in 1 .. n /\ Listed(i) \in P /\ Index(Listed(i)) = i
    BY <1>7, <1>8
  <2>2. listed[i].relationships = {r \in read : Ends(r) \subseteq listed[i].entity_ids}
    BY <1>2, <1>8, <2>1, CutTakesWhole
  <2>3. ASSUME NEW j \in 1 .. i - 1
        PROVE  Min(listed[j].entity_ids) < Min(listed[i].entity_ids)
    <3>1. j \in 1 .. n /\ j < i
      BY <1>2, <2>1
    <3>2. Listed(j) \in P /\ Index(Listed(j)) = j
      BY <1>7, <3>1
    <3>3. Min(Listed(j)) < Min(Listed(i))
      BY <1>6, <2>1, <3>1, <3>2
    <3> QED BY <1>8, <2>1, <3>1, <3>3
  <2> QED BY <2>2, <2>3
<1> QED BY <1>8, <1>9, <1>10 DEF P, listed

LEMMA ComponentsHold ==
    stored \in SUBSET Relationships /\ IsFiniteSet(stored) => ComponentsExact
<1> SUFFICES ASSUME stored \in SUBSET Relationships, IsFiniteSet(stored)
             PROVE  ComponentsExact
  OBVIOUS
<1> SUFFICES ASSUME NEW min_size \in 1 .. 3
             PROVE LET listed == Components(stored, min_size)
                       parts == {K \in SUBSET EndsOf(stored) :
                            /\ K # {} /\ Cut(K, stored) /\ Connected(K, stored)
                            /\ Cardinality(K) >= min_size}
            IN /\ DOMAIN listed = 1 .. Cardinality(parts)
               /\ parts = {listed[i].entity_ids : i \in DOMAIN listed}
               /\ \A i \in DOMAIN listed :
                     /\ listed[i].relationships =
                           {r \in stored : Ends(r) \subseteq listed[i].entity_ids}
                     /\ \A j \in 1 .. i - 1 :
                           Min(listed[j].entity_ids) < Min(listed[i].entity_ids)
  BY DEF ComponentsExact
<1> DEFINE listed == Components(stored, min_size)
<1>1. /\ DOMAIN listed = 1 .. Cardinality(Parts(stored, min_size))
      /\ Parts(stored, min_size) = {listed[i].entity_ids : i \in DOMAIN listed}
      /\ \A i \in DOMAIN listed :
            /\ listed[i].relationships = {r \in stored : Ends(r) \subseteq listed[i].entity_ids}
            /\ \A j \in 1 .. i - 1 : Min(listed[j].entity_ids) < Min(listed[i].entity_ids)
  BY ComponentsAre
<1>2. Parts(stored, min_size) =
        {K \in SUBSET EndsOf(stored) : /\ K # {} /\ Cut(K, stored) /\ Connected(K, stored)
                                       /\ Cardinality(K) >= min_size}
  <2>1. Parts(stored, min_size) =
          {K \in SUBSET EndsOf(stored) :
              K # {} /\ Cut(K, stored) /\ Connected(K, stored) /\ Cardinality(K) >= min_size}
    BY PartsAre
  <2> QED BY <2>1
<1> HIDE DEF listed
<1> DEFINE parts == {K \in SUBSET EndsOf(stored) :
                      /\ K # {} /\ Cut(K, stored) /\ Connected(K, stored)
                      /\ Cardinality(K) >= min_size}
<1>3. /\ parts = {listed[i].entity_ids : i \in DOMAIN listed}
      /\ DOMAIN listed = 1 .. Cardinality(parts)
  <2>1. parts = Parts(stored, min_size)
    BY <1>2
  <2> HIDE DEF parts
  <2> QED BY <1>1, <2>1
<1> QED BY <1>1, <1>3 DEF listed

\* find_components lists the connected components of the case, each with all of its
\* relationships, by their smallest ids (GraphViews' ComponentsExact).
THEOREM ComponentsAreExact == Spec => []ComponentsExact
<1>1. ExactInv /\ QueryInv => ComponentsExact
  BY ComponentsHold DEF ExactInv, QueryInv, TypeOK
<1> QED BY <1>1, ExactInvariant, QueryInvariant, PTL

\* Chains are called evidence-independent when no two rest on one evidence item,
\* directly or through events, in a circle or not (GraphViews' OverlapExact).
THEOREM OverlapIsExact == Spec => []OverlapExact
<1>1. QueryInv => OverlapExact
  BY OverlapIs DEF QueryInv
<1> QED BY <1>1, QueryInvariant, PTL

=============================================================================
