------------------------ MODULE FragmentSearchProofs ------------------------
(***************************************************************************)
(* The searches of FragmentSearch are right in every finite graph: there    *)
(* are functions as their definitions ask for, because each call either     *)
(* visits a node more or has fewer left to look at, and what such a function *)
(* returns is what the search is for.                                      *)
(***************************************************************************)
EXTENDS FragmentSearch, SequenceLemmas, FiniteSetTheorems

-----------------------------------------------------------------------------
(* Functions that are defined by recursion.                                *)

\* The functions on D that give each x something of P[x].
Guided(D, P) == {g \in [D -> D] : \A x \in D : g[x] \in P[x]}

\* What body makes of a function at x depends on its values at smaller ones alone.
Contracts(D, size, P, body) ==
    /\ size \in [D -> Nat]
    /\ \A x \in D : P[x] # {} /\ P[x] \subseteq D
    /\ body \in [Guided(D, P) -> Guided(D, P)]
    /\ \A g, h \in Guided(D, P) : \A x \in D :
          (\A y \in D : size[y] < size[x] => g[y] = h[y]) => body[g][x] = body[h][x]

LEMMA Recursion ==
  ASSUME NEW D, NEW size, NEW P, NEW body, Contracts(D, size, P, body)
  PROVE  \E f \in Guided(D, P) : f = body[f]
<1> DEFINE G == Guided(D, P)
           Right(g, k) == \A x \in D : size[x] < k => body[g][x] = g[x]
           Found == {k \in Nat : \E g \in G : Right(g, k)}
           Same == {k \in Nat : \A g, h \in G : Right(g, k) /\ Right(h, k) =>
                                   \A x \in D : size[x] < k => g[x] = h[x]}
<1>1. \A x \in D : size[x] \in Nat
  BY DEF Contracts
<1>2. \A x \in D : P[x] # {} /\ P[x] \subseteq D
  BY DEF Contracts
<1>3. \A g \in G : body[g] \in G
  BY DEF Contracts
<1>4. ASSUME NEW g \in G, NEW h \in G, NEW x \in D, \A y \in D : size[y] < size[x] => g[y] = h[y]
      PROVE  body[g][x] = body[h][x]
  BY <1>4 DEF Contracts
<1>5. G = {g \in [D -> D] : \A x \in D : g[x] \in P[x]}
  BY DEF Guided
<1> HIDE DEF G
<1>6. Nat \subseteq Found
  <2>1. 0 \in Found
    <3> DEFINE g == [x \in D |-> CHOOSE y : y \in P[x]]
    <3>1. \A x \in D : g[x] \in P[x] /\ P[x] \subseteq D
      BY <1>2
    <3>2. g \in G
      BY <1>5, <3>1
    <3>3. Right(g, 0)
      BY <1>1
    <3> QED
      BY <3>2, <3>3
  <2>2. ASSUME NEW k \in Nat, k \in Found PROVE k + 1 \in Found
    <3>1. PICK g \in G : Right(g, k)
      BY <2>2
    <3>2. body[g] \in G
      BY <1>3
    <3>3. ASSUME NEW x \in D, size[x] < k + 1 PROVE body[body[g]][x] = body[g][x]
      <4>1. \A y \in D : size[y] < size[x] => size[y] < k
        BY <1>1, <3>3
      <4>2. \A y \in D : size[y] < size[x] => body[g][y] = g[y]
        BY <3>1, <4>1
      <4> QED
        BY <1>4, <3>2, <4>2
    <3> QED
      BY <3>2, <3>3
  <2> HIDE DEF Found
  <2> QED
    BY <2>1, <2>2, Induction
<1>7. Nat \subseteq Same
  <2>1. 0 \in Same
    BY <1>1
  <2>2. ASSUME NEW k \in Nat, k \in Same PROVE k + 1 \in Same
    <3>1. SUFFICES ASSUME NEW g \in G, NEW h \in G, Right(g, k + 1), Right(h, k + 1),
                          NEW x \in D, size[x] < k + 1
                   PROVE  g[x] = h[x]
      OBVIOUS
    <3>2. Right(g, k) /\ Right(h, k)
      <4>1. \A y \in D : size[y] < k => size[y] < k + 1
        BY <1>1
      <4> QED
        BY <3>1, <4>1
    <3>3. \A y \in D : size[y] < k => g[y] = h[y]
      BY <2>2, <3>2
    <3>4. \A y \in D : size[y] < size[x] => g[y] = h[y]
      BY <1>1, <3>1, <3>3
    <3>5. body[g][x] = body[h][x]
      BY <1>4, <3>4
    <3> QED
      BY <3>1, <3>5
  <2> HIDE DEF Same
  <2> QED
    BY <2>1, <2>2, Induction
<1> DEFINE To(k) == CHOOSE g \in G : Right(g, k)
           f == [x \in D |-> To(size[x] + 1)[x]]
<1>8. \A k \in Nat : To(k) \in G /\ Right(To(k), k)
  <2>1. ASSUME NEW k \in Nat PROVE \E g \in G : Right(g, k)
    BY <1>6
  <2> HIDE DEF Right
  <2> QED
    BY <2>1
<1>9. ASSUME NEW x \in D
      PROVE  /\ To(size[x] + 1) \in G
             /\ Right(To(size[x] + 1), size[x] + 1)
             /\ size[x] + 1 \in Nat /\ size[x] < size[x] + 1
             /\ f[x] = To(size[x] + 1)[x]
  <2>1. size[x] + 1 \in Nat /\ size[x] < size[x] + 1
    BY <1>1
  <2>2. f[x] = To(size[x] + 1)[x]
    OBVIOUS
  <2> HIDE DEF f, To, Right
  <2> QED
    BY <1>8, <2>1, <2>2
<1> HIDE DEF f, To
<1>10. ASSUME NEW k \in Nat, NEW x \in D, size[x] < k PROVE f[x] = To(k)[x]
  <2> DEFINE a == To(size[x] + 1)
             b == To(k)
             n == size[x] + 1
  <2>1. a \in G /\ b \in G /\ Right(a, n) /\ Right(b, k) /\ n \in Nat /\ f[x] = a[x]
    BY <1>8, <1>9
  <2> HIDE DEF a, b
  <2>2. Right(b, n)
    BY <1>1, <1>10, <2>1
  <2>3. size[x] < n
    BY <1>9
  <2> HIDE DEF n, Right
  <2>4. a[x] = b[x]
    BY <1>7, <2>1, <2>2, <2>3
  <2> QED
    BY <2>1, <2>4 DEF b
<1>11. f \in G
  <2>1. ASSUME NEW x \in D PROVE f[x] \in P[x] /\ f[x] \in D
    BY <1>5, <1>9, <1>2
  <2>2. f = [x \in D |-> f[x]]
    BY DEF f
  <2> QED
    BY <1>5, <2>1, <2>2
<1>12. ASSUME NEW x \in D PROVE body[f][x] = f[x]
  <2> DEFINE a == To(size[x] + 1)
  <2>1. a \in G /\ body[a][x] = a[x] /\ f[x] = a[x]
    BY <1>9
  <2>2. \A y \in D : size[y] < size[x] => f[y] = a[y]
    <3>1. \A y \in D : size[y] < size[x] => size[y] < size[x] + 1
      BY <1>1
    <3> QED
      BY <1>9, <1>10, <3>1
  <2> HIDE DEF a
  <2> QED
    BY <1>4, <1>11, <2>1, <2>2
<1>13. f = body[f]
  <2>1. f \in [D -> D] /\ body[f] \in [D -> D]
    BY <1>3, <1>5, <1>11
  <2> QED
    BY <1>12, <2>1
<1> QED
  BY <1>11, <1>13 DEF G

LEMMA HeadAndTail ==
  ASSUME NEW T, NEW s \in Seq(T), s # <<>>
  PROVE  ToSet(s) = {Head(s)} \cup ToSet(Tail(s))
<1>1. Len(s) \in Nat /\ Len(s) >= 1 /\ Len(Tail(s)) = Len(s) - 1
  OBVIOUS
<1>2. DOMAIN s = 1..Len(s) /\ DOMAIN Tail(s) = 1..Len(s) - 1
  OBVIOUS
<1>3. \A i \in 1..Len(s) - 1 : i + 1 \in 1..Len(s) /\ Tail(s)[i] = s[i + 1]
  BY <1>1
<1>4. 1 \in 1..Len(s) /\ Head(s) = s[1]
  BY <1>1
<1>5. \A i \in 1..Len(s) : i = 1 \/ (i - 1 \in 1..Len(s) - 1 /\ (i - 1) + 1 = i)
  BY <1>1
<1>6. ASSUME NEW x \in ToSet(s) PROVE x \in {Head(s)} \cup ToSet(Tail(s))
  <2>1. PICK i \in 1..Len(s) : x = s[i]
    BY <1>2, <1>6 DEF ToSet
  <2>2. i = 1 \/ (i - 1 \in 1..Len(s) - 1 /\ x = Tail(s)[i - 1])
    BY <1>3, <1>5, <2>1
  <2> QED
    BY <1>2, <1>4, <2>1, <2>2 DEF ToSet
<1>7. ToSet(Tail(s)) \subseteq ToSet(s)
  BY <1>2, <1>3 DEF ToSet
<1>8. Head(s) \in ToSet(s)
  BY <1>2, <1>4 DEF ToSet
<1> QED
  BY <1>6, <1>7, <1>8

-----------------------------------------------------------------------------
(* Why the searches end.                                                   *)

Graph(spreads) ==
    /\ IsFiniteSet(DOMAIN spreads)
    /\ spreads \in [DOMAIN spreads -> Seq(DOMAIN spreads)]

\* Nowhere is more than w spread.
Bounds(spreads, w) == \A n \in DOMAIN spreads : Len(spreads[n]) <= w

LEMMA Bounded ==
  ASSUME NEW spreads, Graph(spreads)
  PROVE  \E w \in Nat : Bounds(spreads, w)
<1> DEFINE N == DOMAIN spreads
           S == {k \in Nat : \A T \in SUBSET N : Cardinality(T) = k =>
                                \E w \in Nat : \A n \in T : Len(spreads[n]) <= w}
<1>1. IsFiniteSet(N) /\ \A n \in N : Len(spreads[n]) \in Nat
  BY DEF Graph
<1>2. \A T \in SUBSET N : IsFiniteSet(T)
  BY <1>1, FS_Subset
<1>3. 0 \in S
  <2>1. \A T \in SUBSET N : Cardinality(T) = 0 => T = {}
    BY <1>2, FS_EmptySet
  <2> QED
    BY <2>1
<1>4. ASSUME NEW k \in Nat, k \in S PROVE k + 1 \in S
  <2>1. SUFFICES ASSUME NEW T \in SUBSET N, Cardinality(T) = k + 1
                 PROVE  \E w \in Nat : \A n \in T : Len(spreads[n]) <= w
    OBVIOUS
  <2>2. PICK x : x \in T
    BY <2>1, <1>2, FS_EmptySet
  <2>3. T \ {x} \in SUBSET N /\ Cardinality(T \ {x}) = k
    <3>1. IsFiniteSet(T)
      BY <1>2
    <3>2. Cardinality(T \ {x}) = Cardinality(T) - 1
      BY <2>2, <3>1, FS_RemoveElement
    <3> QED
      BY <2>1, <3>2
  <2>4. PICK w \in Nat : \A n \in T \ {x} : Len(spreads[n]) <= w
    BY <1>4, <2>3
  <2> DEFINE v == IF w < Len(spreads[x]) THEN Len(spreads[x]) ELSE w
  <2>5. v \in Nat /\ w <= v /\ Len(spreads[x]) <= v
    BY <1>1, <2>2
  <2> HIDE DEF v
  <2>6. ASSUME NEW n \in T PROVE Len(spreads[n]) <= v
    BY <1>1, <2>4, <2>5
  <2> QED
    BY <2>5, <2>6
<1>5. Nat \subseteq S
  <2> HIDE DEF S
  <2> QED
    BY <1>3, <1>4, Induction
<1>6. Cardinality(N) \in Nat
  BY <1>1, FS_CardinalityType
<1> QED
  BY <1>5, <1>6 DEF Bounds

\* What a search has before it: a node it has not visited weighs more than all
\* that may be spread in one.
Weight(spreads, w, visited, next) == Cardinality(DOMAIN spreads \ visited) * (w + 1) + Len(next)

LEMMA Multiples ==
  ASSUME NEW w \in Nat, NEW c \in Nat, NEW d \in Nat, d <= c
  PROVE  /\ c * (w + 1) \in Nat
         /\ d * (w + 1) <= c * (w + 1)
         /\ d < c => d * (w + 1) + w < c * (w + 1)
<1>1. \A x \in Nat : x * (w + 1) \in Nat
  OBVIOUS
<1>2. PICK e \in Nat : c = d + e
  <2>1. c - d \in Nat /\ c = d + (c - d)
    OBVIOUS
  <2> QED
    BY <2>1
<1>3. (d + e) * (w + 1) = d * (w + 1) + e * (w + 1)
  OBVIOUS
<1>4. d < c => e # 0
  BY <1>2
<1>5. ASSUME e # 0 PROVE e * (w + 1) = (e - 1) * (w + 1) + (w + 1) /\ e - 1 \in Nat
  BY <1>5
<1>6. d < c => d * (w + 1) + w < c * (w + 1)
  <2>1. ASSUME d < c PROVE d * (w + 1) + w < c * (w + 1)
    <3>1. /\ c * (w + 1) = d * (w + 1) + (e - 1) * (w + 1) + (w + 1)
          /\ (e - 1) * (w + 1) \in Nat /\ d * (w + 1) \in Nat
      BY <1>1, <1>2, <1>3, <1>4, <1>5, <2>1
    <3> QED
      BY <3>1
  <2> QED
    BY <2>1
<1>7. d * (w + 1) <= c * (w + 1)
  BY <1>1, <1>2, <1>3
<1> QED
  BY <1>1, <1>6, <1>7

LEMMA WeightFalls ==
  ASSUME NEW spreads, Graph(spreads), NEW w \in Nat, Bounds(spreads, w),
         NEW visited \in SUBSET DOMAIN spreads, NEW next \in Seq(DOMAIN spreads)
  PROVE  /\ Weight(spreads, w, visited, next) \in Nat
         /\ next # <<>> =>
              /\ \A v \in SUBSET DOMAIN spreads :
                    visited \subseteq v =>
                       Weight(spreads, w, v, Tail(next)) < Weight(spreads, w, visited, next)
              /\ \A n \in DOMAIN spreads \ visited :
                    Weight(spreads, w, visited \cup {n}, spreads[n])
                        < Weight(spreads, w, visited, next)
<1> DEFINE N == DOMAIN spreads
           Left(v) == Cardinality(N \ v)
<1>1. IsFiniteSet(N) /\ \A v : N \ v \in SUBSET N /\ IsFiniteSet(N \ v)
  BY FS_Subset DEF Graph
<1>2. \A v : Left(v) \in Nat
  BY <1>1, FS_CardinalityType
<1>3. ASSUME NEW v, visited \subseteq v PROVE Left(v) <= Left(visited)
  <2>1. N \ v \in SUBSET (N \ visited)
    BY <1>3
  <2> QED
    BY <1>1, <2>1, FS_Subset
<1>4. ASSUME NEW n \in N \ visited PROVE Left(visited \cup {n}) < Left(visited)
  <2>1. N \ (visited \cup {n}) = (N \ visited) \ {n}
    OBVIOUS
  <2>2. Left(visited \cup {n}) = Left(visited) - 1
    <3>1. n \in N \ visited /\ IsFiniteSet(N \ visited)
      BY <1>1
    <3>2. Cardinality((N \ visited) \ {n}) = Cardinality(N \ visited) - 1
      BY <3>1, FS_RemoveElement
    <3> QED
      BY <2>1, <3>2
  <2> HIDE DEF Left
  <2> QED
    BY <1>2, <2>2
<1>5. Len(next) \in Nat /\ (next # <<>> => Len(Tail(next)) = Len(next) - 1 /\ Len(next) > 0)
  OBVIOUS
<1>6. Weight(spreads, w, visited, next) \in Nat
  <2>1. Left(visited) * (w + 1) \in Nat
    <3>1. Left(visited) \in Nat
      BY <1>2
    <3> HIDE DEF Left
    <3>2. Left(visited) <= Left(visited)
      BY <3>1
    <3> QED
      BY <3>1, <3>2, Multiples
  <2> QED
    BY <1>5, <2>1 DEF Weight
<1>7. ASSUME next # <<>>, NEW v \in SUBSET N, visited \subseteq v
      PROVE  Weight(spreads, w, v, Tail(next)) < Weight(spreads, w, visited, next)
  <2> DEFINE a == Left(v)
             b == Left(visited)
  <2>1. a \in Nat /\ b \in Nat /\ a <= b
    BY <1>2, <1>3, <1>7
  <2>2. Weight(spreads, w, v, Tail(next)) = a * (w + 1) + Len(Tail(next))
        /\ Weight(spreads, w, visited, next) = b * (w + 1) + Len(next)
    BY DEF Weight
  <2> HIDE DEF a, b
  <2>3. a * (w + 1) <= b * (w + 1) /\ a * (w + 1) \in Nat /\ b * (w + 1) \in Nat
    BY <2>1, Multiples
  <2> QED
    BY <1>5, <1>7, <2>2, <2>3
<1>8. ASSUME next # <<>>, NEW n \in N \ visited
      PROVE  Weight(spreads, w, visited \cup {n}, spreads[n]) < Weight(spreads, w, visited, next)
  <2> DEFINE a == Left(visited \cup {n})
             b == Left(visited)
  <2>1. a \in Nat /\ b \in Nat /\ a < b
    BY <1>2, <1>4, <1>8
  <2>2. Weight(spreads, w, visited \cup {n}, spreads[n]) = a * (w + 1) + Len(spreads[n])
        /\ Weight(spreads, w, visited, next) = b * (w + 1) + Len(next)
    BY DEF Weight
  <2>3. Len(spreads[n]) \in Nat /\ Len(spreads[n]) <= w
    BY DEF Graph, Bounds
  <2> HIDE DEF a, b
  <2>4. a * (w + 1) + w < b * (w + 1) /\ a * (w + 1) \in Nat /\ b * (w + 1) \in Nat
    <3>1. a <= b
      BY <2>1
    <3> QED
      BY <2>1, <3>1, Multiples
  <2> QED
    BY <1>5, <1>8, <2>2, <2>3, <2>4
<1> HIDE DEF Left
<1> QED
  BY <1>6, <1>7, <1>8

-----------------------------------------------------------------------------
(* What is reached.                                                        *)

\* The call for a node that has not been visited.
Going(spreads, s) ==
    [visited |-> s.visited \cup {Head(s.next)}, next |-> spreads[Head(s.next)]]

\* The equation that Reach is a solution of.
Reaches(spreads, reach) ==
    reach = [s \in Finder(spreads) |-> IF s.next = <<>> THEN s ELSE reach[GoTo(spreads, reach, s)]]

LEMMA GoesOn ==
  ASSUME NEW spreads, Graph(spreads), NEW s \in Finder(spreads), s.next # <<>>
  PROVE  /\ s.visited \in SUBSET DOMAIN spreads /\ s.next \in Seq(DOMAIN spreads)
         /\ Head(s.next) \in DOMAIN spreads
         /\ Tail(s.next) \in Seq(DOMAIN spreads)
         /\ ToSet(s.next) = {Head(s.next)} \cup ToSet(Tail(s.next))
         /\ Going(spreads, s) \in Finder(spreads)
<1>1. s.visited \in SUBSET DOMAIN spreads /\ s.next \in Seq(DOMAIN spreads)
  BY DEF Finder
<1>2. Head(s.next) \in DOMAIN spreads /\ Tail(s.next) \in Seq(DOMAIN spreads)
  <2> DEFINE n == s.next
             N == DOMAIN spreads
  <2>1. n \in Seq(N) /\ n # <<>>
    BY <1>1
  <2> HIDE DEF n, N
  <2>2. Head(n) \in N /\ Tail(n) \in Seq(N)
    BY <2>1
  <2> QED
    BY <2>2 DEF n, N
<1>3. ToSet(s.next) = {Head(s.next)} \cup ToSet(Tail(s.next))
  BY <1>1, HeadAndTail
<1>4. Going(spreads, s) \in Finder(spreads)
  BY <1>1, <1>2 DEF Going, Finder, Graph
<1> QED
  BY <1>1, <1>2, <1>3, <1>4

LEMMA GoesTo ==
  ASSUME NEW spreads, Graph(spreads), NEW s \in Finder(spreads), s.next # <<>>, NEW reach,
         NEW name, name = Head(s.next), NEW there, there = reach[Going(spreads, s)],
         name \notin s.visited => there \in Finder(spreads) /\ s.visited \cup {name} \subseteq there.visited
  PROVE  /\ GoTo(spreads, reach, s) \in Finder(spreads)
         /\ GoTo(spreads, reach, s).next = Tail(s.next)
         /\ s.visited \cup {name} \subseteq GoTo(spreads, reach, s).visited
         /\ GoTo(spreads, reach, s).visited = IF name \in s.visited THEN s.visited ELSE there.visited
<1> DEFINE found == IF name \in s.visited THEN s ELSE there
<1>1. GoTo(spreads, reach, s) = [found EXCEPT !.next = Tail(s.next)]
  BY DEF GoTo, Going
<1>2. found \in Finder(spreads) /\ s.visited \cup {name} \subseteq found.visited
      /\ found.visited = IF name \in s.visited THEN s.visited ELSE there.visited
  OBVIOUS
<1> HIDE DEF found
<1>3. Tail(s.next) \in Seq(DOMAIN spreads)
  BY GoesOn
<1> QED
  BY <1>1, <1>2, <1>3 DEF Finder

LEMMA ReachExists ==
  ASSUME NEW spreads, Graph(spreads)
  PROVE  \E reach : Reaches(spreads, reach)
<1> DEFINE D == Finder(spreads)
<1>1. PICK w \in Nat : Bounds(spreads, w)
  BY Bounded
<1> DEFINE size == [s \in D |-> Weight(spreads, w, s.visited, s.next)]
           P == [s \in D |-> {r \in D : s.visited \subseteq r.visited}]
           G == {g \in [D -> D] : \A s \in D : g[s] \in P[s]}
           body == [g \in G |-> [s \in D |-> IF s.next = <<>> THEN s ELSE g[GoTo(spreads, g, s)]]]
<1>2. \A s \in D : s.visited \in SUBSET DOMAIN spreads /\ s.next \in Seq(DOMAIN spreads)
  BY DEF Finder
<1>3. size \in [D -> Nat]
  BY <1>1, <1>2, WeightFalls
<1>4. P \in [D -> SUBSET D] /\ \A s \in D : P[s] # {}
  <2>1. \A s \in D : s \in P[s]
    OBVIOUS
  <2> QED
    BY <2>1
<1>5. ASSUME NEW g \in G, NEW s \in D, s.next # <<>>
      PROVE  /\ GoTo(spreads, g, s) \in D
             /\ s.visited \subseteq GoTo(spreads, g, s).visited
             /\ size[GoTo(spreads, g, s)] < size[s]
  <2>1. Going(spreads, s) \in D
    BY <1>5, GoesOn
  <2>2. g[Going(spreads, s)] \in D /\ Going(spreads, s).visited \subseteq g[Going(spreads, s)].visited
    BY <2>1
  <2>3. Going(spreads, s).visited = s.visited \cup {Head(s.next)}
    BY DEF Going
  <2> DEFINE then == GoTo(spreads, g, s)
  <2>4. then \in D /\ then.next = Tail(s.next) /\ s.visited \subseteq then.visited
    BY <1>5, <2>2, <2>3, GoesTo
  <2> HIDE DEF then
  <2>5. Weight(spreads, w, then.visited, Tail(s.next)) < Weight(spreads, w, s.visited, s.next)
    BY <1>1, <1>2, <1>5, <2>4, WeightFalls
  <2>6. size[then] < size[s]
    BY <2>4, <2>5
  <2> QED
    BY <2>4, <2>6 DEF then
<1>6. body \in [G -> G]
  <2>1. ASSUME NEW g \in G, NEW s \in D PROVE body[g][s] \in P[s] /\ body[g][s] \in D
    <3>1. CASE s.next = <<>>
      BY <3>1
    <3>2. CASE s.next # <<>>
      <4> DEFINE then == GoTo(spreads, g, s)
      <4>1. then \in D /\ s.visited \subseteq then.visited
        BY <1>5, <3>2
      <4> HIDE DEF then
      <4>2. g[then] \in D /\ then.visited \subseteq g[then].visited
        BY <4>1
      <4>3. body[g][s] = g[then]
        BY <3>2 DEF then
      <4> HIDE DEF body
      <4> QED
        BY <4>1, <4>2, <4>3
    <3> QED
      BY <3>1, <3>2
  <2>2. ASSUME NEW g \in G PROVE body[g] \in G
    <3>1. body[g] \in [D -> D]
      BY <2>1
    <3> HIDE DEF body
    <3> QED
      BY <2>1, <3>1
  <2>3. body = [g \in G |-> body[g]]
    OBVIOUS
  <2> HIDE DEF body, G
  <2> QED
    BY <2>2, <2>3
<1>7. ASSUME NEW g \in G, NEW h \in G, NEW s \in D,
             \A r \in D : size[r] < size[s] => g[r] = h[r]
      PROVE  body[g][s] = body[h][s]
  <2>1. CASE s.next = <<>>
    BY <2>1
  <2>2. CASE s.next # <<>>
    <3> DEFINE then == GoTo(spreads, g, s)
               go == Going(spreads, s)
    <3>1. Head(s.next) \notin s.visited => g[go] = h[go]
      <4>1. SUFFICES ASSUME Head(s.next) \notin s.visited PROVE g[go] = h[go]
        OBVIOUS
      <4>2. go \in D /\ Head(s.next) \in DOMAIN spreads
        BY <2>2, GoesOn
      <4>3. Weight(spreads, w, s.visited \cup {Head(s.next)}, spreads[Head(s.next)])
               < Weight(spreads, w, s.visited, s.next)
        BY <1>1, <1>2, <2>2, <4>1, <4>2, WeightFalls
      <4>4. go.visited = s.visited \cup {Head(s.next)} /\ go.next = spreads[Head(s.next)]
        BY DEF Going
      <4>5. size[go] < size[s]
        BY <4>2, <4>3, <4>4
      <4> QED
        BY <1>7, <4>2, <4>5
    <3>2. GoTo(spreads, h, s) = then
      BY <3>1 DEF GoTo, Going
    <3>3. then \in D /\ size[then] < size[s]
      BY <1>5, <2>2
    <3>4. body[g][s] = g[then] /\ body[h][s] = h[then]
      BY <2>2, <3>2
    <3> HIDE DEF then, body, size
    <3> QED
      BY <1>7, <3>3, <3>4
  <2> QED
    BY <2>1, <2>2
<1>8. PICK f \in G : f = body[f]
  <2>1. \A g, h \in G : \A s \in D :
           (\A r \in D : size[r] < size[s] => g[r] = h[r]) => body[g][s] = body[h][s]
    BY <1>7
  <2>2. G = Guided(D, P)
    BY DEF Guided
  <2> HIDE DEF size, P, body, D, G
  <2>3. Contracts(D, size, P, body)
    BY <1>3, <1>4, <1>6, <2>1, <2>2 DEF Contracts
  <2> QED
    BY <2>2, <2>3, Recursion
<1>9. Reaches(spreads, f)
  BY <1>8 DEF Reaches
<1> QED
  BY <1>9

\* What a call for s should return.
Visits(spreads, s, r) ==
    /\ r \in Finder(spreads)
    /\ s.visited \subseteq r.visited /\ ToSet(s.next) \subseteq r.visited
    /\ \A n \in r.visited \ s.visited : ToSet(spreads[n]) \subseteq r.visited
    /\ \A C \in SUBSET DOMAIN spreads :
          Closed(spreads, C) /\ s.visited \subseteq C /\ ToSet(s.next) \subseteq C => r.visited \subseteq C

\* A call is right when the calls that it makes are.
LEMMA ReachStep ==
  ASSUME NEW spreads, Graph(spreads), NEW reach, Reaches(spreads, reach), NEW s \in Finder(spreads),
         s.next # <<>> /\ Head(s.next) \notin s.visited =>
            Visits(spreads, Going(spreads, s), reach[Going(spreads, s)]),
         s.next # <<>> /\ GoTo(spreads, reach, s) \in Finder(spreads) =>
            Visits(spreads, GoTo(spreads, reach, s), reach[GoTo(spreads, reach, s)])
  PROVE  Visits(spreads, s, reach[s])
<1>1. reach[s] = IF s.next = <<>> THEN s ELSE reach[GoTo(spreads, reach, s)]
  <2> DEFINE body == [x \in Finder(spreads) |->
                         IF x.next = <<>> THEN x ELSE reach[GoTo(spreads, reach, x)]]
  <2>1. reach = body
    BY DEF Reaches
  <2>2. body[s] = IF s.next = <<>> THEN s ELSE reach[GoTo(spreads, reach, s)]
    OBVIOUS
  <2> HIDE DEF body
  <2> QED
    BY <2>1, <2>2
<1>2. CASE s.next = <<>>
  <2>1. ToSet(s.next) = {}
    BY <1>2 DEF ToSet
  <2> QED
    BY <1>1, <1>2, <2>1 DEF Visits
<1>3. CASE s.next # <<>>
  <2> DEFINE name == Head(s.next)
             go == Going(spreads, s)
             there == reach[go]
             then == GoTo(spreads, reach, s)
             r == reach[then]
  <2>1. /\ ToSet(s.next) = {name} \cup ToSet(Tail(s.next))
        /\ name \in DOMAIN spreads
    BY <1>3, GoesOn
  <2>2. go.visited = s.visited \cup {name} /\ go.next = spreads[name]
    BY DEF Going
  <2>3. name \notin s.visited => Visits(spreads, go, there)
    BY <1>3
  <2>4. name \notin s.visited => there \in Finder(spreads) /\ s.visited \cup {name} \subseteq there.visited
    BY <2>2, <2>3 DEF Visits
  <2>5. /\ then \in Finder(spreads) /\ then.next = Tail(s.next)
        /\ s.visited \cup {name} \subseteq then.visited
        /\ then.visited = IF name \in s.visited THEN s.visited ELSE there.visited
    BY <1>3, <2>4, GoesTo
  <2>6. Visits(spreads, then, r)
    BY <1>3, <2>5
  <2>7. reach[s] = r
    BY <1>1, <1>3
  <2> HIDE DEF name, go, there, then, r
  <2>8. s.visited \subseteq r.visited /\ ToSet(s.next) \subseteq r.visited
    BY <2>1, <2>5, <2>6 DEF Visits
  <2>9. ASSUME NEW n \in r.visited \ s.visited PROVE ToSet(spreads[n]) \subseteq r.visited
    <3>1. CASE n \notin then.visited
      BY <2>6, <2>9, <3>1 DEF Visits
    <3>2. CASE n \in then.visited
      <4>1. name \notin s.visited /\ n \in there.visited /\ Visits(spreads, go, there)
        BY <2>3, <2>5, <2>9, <3>2
      <4>2. ToSet(spreads[n]) \subseteq there.visited
        BY <2>2, <2>9, <4>1 DEF Visits
      <4> QED
        BY <2>5, <2>6, <4>1, <4>2 DEF Visits
    <3> QED
      BY <3>1, <3>2
  <2>10. ASSUME NEW C \in SUBSET DOMAIN spreads,
                Closed(spreads, C), s.visited \subseteq C, ToSet(s.next) \subseteq C
         PROVE  r.visited \subseteq C
    <3>1. name \in C /\ ToSet(spreads[name]) \subseteq C
      BY <2>1, <2>10 DEF Closed
    <3>2. name \notin s.visited => there.visited \subseteq C
      BY <2>2, <2>3, <2>10, <3>1 DEF Visits
    <3>3. then.visited \subseteq C /\ ToSet(then.next) \subseteq C
      BY <2>1, <2>5, <2>10, <3>2
    <3> QED
      BY <2>6, <2>10, <3>3 DEF Visits
  <2>11. r \in Finder(spreads)
    BY <2>6 DEF Visits
  <2> QED
    BY <2>7, <2>8, <2>9, <2>10, <2>11 DEF Visits
<1> QED
  BY <1>2, <1>3

LEMMA ReachRight ==
  ASSUME NEW spreads, Graph(spreads), NEW reach, Reaches(spreads, reach), NEW s \in Finder(spreads)
  PROVE  Visits(spreads, s, reach[s])
<1>1. PICK w \in Nat : Bounds(spreads, w)
  BY Bounded
<1> DEFINE size(x) == Weight(spreads, w, x.visited, x.next)
           S == {k \in Nat : \A x \in Finder(spreads) : size(x) < k => Visits(spreads, x, reach[x])}
<1>2. ASSUME NEW x \in Finder(spreads)
      PROVE  /\ size(x) \in Nat
             /\ x.next # <<>> =>
                  /\ Head(x.next) \notin x.visited =>
                        Going(spreads, x) \in Finder(spreads) /\ size(Going(spreads, x)) < size(x)
                  /\ \A y \in Finder(spreads) :
                        x.visited \subseteq y.visited /\ y.next = Tail(x.next) => size(y) < size(x)
  <2>1. x.visited \in SUBSET DOMAIN spreads /\ x.next \in Seq(DOMAIN spreads)
    BY DEF Finder
  <2>2. size(x) \in Nat
    BY <1>1, <2>1, WeightFalls
  <2>3. ASSUME x.next # <<>>, Head(x.next) \notin x.visited
        PROVE  Going(spreads, x) \in Finder(spreads) /\ size(Going(spreads, x)) < size(x)
    <3>1. Going(spreads, x) \in Finder(spreads) /\ Head(x.next) \in DOMAIN spreads
      BY <2>3, GoesOn
    <3>2. Weight(spreads, w, x.visited \cup {Head(x.next)}, spreads[Head(x.next)]) < size(x)
      BY <1>1, <2>1, <2>3, <3>1, WeightFalls
    <3> QED
      BY <3>1, <3>2 DEF Going
  <2>4. ASSUME x.next # <<>>, NEW y \in Finder(spreads),
               x.visited \subseteq y.visited, y.next = Tail(x.next)
        PROVE  size(y) < size(x)
    <3>1. y.visited \in SUBSET DOMAIN spreads
      BY DEF Finder
    <3> QED
      BY <1>1, <2>1, <2>4, <3>1, WeightFalls
  <2> HIDE DEF size
  <2> QED
    BY <2>2, <2>3, <2>4
<1> HIDE DEF size
<1>3. 0 \in S
  BY <1>2
<1>4. ASSUME NEW k \in Nat, k \in S PROVE k + 1 \in S
  <2>1. SUFFICES ASSUME NEW x \in Finder(spreads), size(x) < k + 1
                 PROVE  Visits(spreads, x, reach[x])
    OBVIOUS
  <2>2. \A y \in Finder(spreads) : size(y) < size(x) => size(y) < k
    BY <1>2, <2>1
  <2>3. \A y \in Finder(spreads) : size(y) < size(x) => Visits(spreads, y, reach[y])
    BY <1>4, <2>2
  <2>4. x.next # <<>> /\ Head(x.next) \notin x.visited =>
           Visits(spreads, Going(spreads, x), reach[Going(spreads, x)])
    BY <1>2, <2>3
  <2>5. ASSUME x.next # <<>>, GoTo(spreads, reach, x) \in Finder(spreads)
        PROVE  Visits(spreads, GoTo(spreads, reach, x), reach[GoTo(spreads, reach, x)])
    <3> DEFINE there == reach[Going(spreads, x)]
               then == GoTo(spreads, reach, x)
    <3>1. Going(spreads, x).visited = x.visited \cup {Head(x.next)}
      BY DEF Going
    <3>2. Head(x.next) \notin x.visited =>
             there \in Finder(spreads) /\ x.visited \cup {Head(x.next)} \subseteq there.visited
      BY <2>4, <2>5, <3>1 DEF Visits
    <3>3. then.next = Tail(x.next) /\ x.visited \subseteq then.visited
      BY <2>5, <3>2, GoesTo
    <3> HIDE DEF then
    <3>4. size(then) < size(x)
      BY <1>2, <2>5, <3>3 DEF then
    <3> QED
      BY <2>3, <2>5, <3>4 DEF then
  <2> QED
    BY <2>4, <2>5, ReachStep
<1>5. Nat \subseteq S
  <2> HIDE DEF S
  <2> QED
    BY <1>3, <1>4, Induction
<1>6. size(s) \in Nat /\ size(s) + 1 \in Nat /\ size(s) < size(s) + 1
  BY <1>2
<1> QED
  BY <1>5, <1>6

\* A rule that follows the spreads from an operation looks at exactly the scopes
\* that can be reached: the operation, with each fragment spread in one that it
\* looks at, and no other (find_used_vars, find_reachable_fragments).
THEOREM ReachedExactly ==
  ASSUME NEW spreads, Graph(spreads), NEW node \in DOMAIN spreads
  PROVE  /\ node \in ReachedFrom(spreads, node)
         /\ ReachedFrom(spreads, node) \subseteq DOMAIN spreads
         /\ Closed(spreads, ReachedFrom(spreads, node))
         /\ \A C \in SUBSET DOMAIN spreads :
               node \in C /\ Closed(spreads, C) => ReachedFrom(spreads, node) \subseteq C
<1> DEFINE reach == CHOOSE f : Reaches(spreads, f)
           s == [visited |-> {}, next |-> <<node>>]
           r == reach[s]
<1>1. Reaches(spreads, reach)
  BY ReachExists
<1>2. ReachedFrom(spreads, node) = r.visited
  BY DEF ReachedFrom, Reach, Reaches
<1>3. s \in Finder(spreads) /\ s.visited = {} /\ ToSet(s.next) = {node}
  BY DEF Finder, ToSet
<1> HIDE DEF reach, s
<1>4. Visits(spreads, s, r)
  BY <1>1, <1>3, ReachRight
<1> HIDE DEF r
<1>5. node \in r.visited /\ r.visited \subseteq DOMAIN spreads
  BY <1>3, <1>4 DEF Visits, Finder
<1>6. Closed(spreads, r.visited)
  BY <1>3, <1>4 DEF Visits, Closed
<1>7. \A C \in SUBSET DOMAIN spreads : node \in C /\ Closed(spreads, C) => r.visited \subseteq C
  BY <1>3, <1>4 DEF Visits
<1> QED
  BY <1>2, <1>5, <1>6, <1>7

-----------------------------------------------------------------------------
(* Cycles of fragments.                                                    *)

\* The call for a node that has not been visited.
Entering(spreads, s) == Enters(spreads, s, Head(s.next))

\* The equation that Detect is a solution of.
Detects(spreads, detect) ==
    detect = [s \in Detector(spreads) |->
                 IF s.next = <<>> THEN s ELSE detect[LookAt(spreads, detect, s)]]

LEMMA LooksOn ==
  ASSUME NEW spreads, Graph(spreads), NEW s \in Detector(spreads), s.next # <<>>
  PROVE  /\ Head(s.next) \in DOMAIN spreads
         /\ Tail(s.next) \in Seq(DOMAIN spreads)
         /\ ToSet(s.next) = {Head(s.next)} \cup ToSet(Tail(s.next))
         /\ Entering(spreads, s) \in Detector(spreads)
<1> DEFINE n == s.next
           N == DOMAIN spreads
           f == [visited |-> s.visited, next |-> s.next]
<1>1. f \in Finder(spreads) /\ f.next # <<>> /\ f.next = s.next
  BY DEF Finder, Detector
<1> HIDE DEF f
<1>2. /\ Head(s.next) \in N /\ Tail(s.next) \in Seq(N)
      /\ ToSet(s.next) = {Head(s.next)} \cup ToSet(Tail(s.next))
  BY <1>1, GoesOn
<1>3. Entering(spreads, s) \in Detector(spreads)
  BY <1>2 DEF Entering, Enters, Detector, Graph
<1> QED
  BY <1>2, <1>3

LEMMA LooksAt ==
  ASSUME NEW spreads, Graph(spreads), NEW s \in Detector(spreads), s.next # <<>>, NEW detect,
         NEW name, name = Head(s.next), NEW there, there = detect[Entering(spreads, s)],
         name \notin s.path \cup s.visited =>
            there \in Detector(spreads) /\ s.visited \cup {name} \subseteq there.visited,
         NEW then, then = LookAt(spreads, detect, s)
  PROVE  /\ then \in Detector(spreads)
         /\ then.next = Tail(s.next)
         /\ s.visited \subseteq then.visited
         /\ name \in s.path =>
               /\ then.visited = s.visited /\ then.path = s.path
               /\ then.errors = s.errors \cup {name}
         /\ name \in s.visited \ s.path =>
               then.visited = s.visited /\ then.path = s.path /\ then.errors = s.errors
         /\ name \notin s.path \cup s.visited =>
               /\ then.visited = there.visited /\ then.path = there.path \ {name}
               /\ then.errors = there.errors
<1>1. Tail(s.next) \in Seq(DOMAIN spreads) /\ name \in DOMAIN spreads
  BY LooksOn
<1>2. CASE name \in s.path
  <2>1. then = [[s EXCEPT !.errors = @ \cup {name}] EXCEPT !.next = Tail(s.next)]
    BY <1>2 DEF LookAt
  <2> QED
    BY <1>1, <1>2, <2>1 DEF Detector
<1>3. CASE name \notin s.path /\ name \in s.visited
  <2>1. then = [s EXCEPT !.next = Tail(s.next)]
    BY <1>3 DEF LookAt
  <2> QED
    BY <1>1, <1>3, <2>1 DEF Detector
<1>4. CASE name \notin s.path /\ name \notin s.visited
  <2>1. then = [[there EXCEPT !.path = @ \ {name}] EXCEPT !.next = Tail(s.next)]
    BY <1>4 DEF LookAt, LeavesPath, Entering
  <2>2. there \in Detector(spreads) /\ s.visited \cup {name} \subseteq there.visited
    BY <1>4
  <2> QED
    BY <1>1, <1>4, <2>1, <2>2 DEF Detector
<1> QED
  BY <1>2, <1>3, <1>4

LEMMA DetectorWeight ==
  ASSUME NEW spreads, Graph(spreads), NEW w \in Nat, Bounds(spreads, w), NEW s \in Detector(spreads)
  PROVE  /\ Weight(spreads, w, s.visited, s.next) \in Nat
         /\ s.next # <<>> =>
              /\ Head(s.next) \notin s.visited =>
                    LET go == Entering(spreads, s)
                    IN Weight(spreads, w, go.visited, go.next) < Weight(spreads, w, s.visited, s.next)
              /\ \A v \in SUBSET DOMAIN spreads :
                    s.visited \subseteq v =>
                       Weight(spreads, w, v, Tail(s.next)) < Weight(spreads, w, s.visited, s.next)
<1>1. s.visited \in SUBSET DOMAIN spreads /\ s.next \in Seq(DOMAIN spreads)
  BY DEF Detector
<1>2. ASSUME s.next # <<>>, Head(s.next) \notin s.visited
      PROVE  Weight(spreads, w, Entering(spreads, s).visited, Entering(spreads, s).next)
                < Weight(spreads, w, s.visited, s.next)
  <2>1. Head(s.next) \in DOMAIN spreads \ s.visited
    BY <1>2, LooksOn
  <2>2. /\ Entering(spreads, s).visited = s.visited \cup {Head(s.next)}
        /\ Entering(spreads, s).next = spreads[Head(s.next)]
    BY DEF Entering, Enters, Detector
  <2> QED
    BY <1>1, <1>2, <2>1, <2>2, WeightFalls
<1> QED
  BY <1>1, <1>2, WeightFalls

LEMMA DetectExists ==
  ASSUME NEW spreads, Graph(spreads)
  PROVE  \E detect : Detects(spreads, detect)
<1> DEFINE D == Detector(spreads)
<1>1. PICK w \in Nat : Bounds(spreads, w)
  BY Bounded
<1> DEFINE size == [s \in D |-> Weight(spreads, w, s.visited, s.next)]
           P == [s \in D |-> {r \in D : s.visited \subseteq r.visited}]
           G == {g \in [D -> D] : \A s \in D : g[s] \in P[s]}
           body == [g \in G |-> [s \in D |-> IF s.next = <<>> THEN s ELSE g[LookAt(spreads, g, s)]]]
<1>2. \A s \in D : s.visited \in SUBSET DOMAIN spreads /\ s.next \in Seq(DOMAIN spreads)
  BY DEF Detector
<1>3. size \in [D -> Nat]
  BY <1>1, <1>2, DetectorWeight
<1>4. \A s \in D : P[s] # {} /\ P[s] \subseteq D
  <2>1. \A s \in D : s \in P[s]
    OBVIOUS
  <2> QED
    BY <2>1
<1>5. ASSUME NEW g \in G, NEW s \in D, s.next # <<>>
      PROVE  /\ LookAt(spreads, g, s) \in D
             /\ s.visited \subseteq LookAt(spreads, g, s).visited
             /\ size[LookAt(spreads, g, s)] < size[s]
  <2>1. Entering(spreads, s) \in D
    BY <1>5, LooksOn
  <2>2. g[Entering(spreads, s)] \in D
        /\ Entering(spreads, s).visited \subseteq g[Entering(spreads, s)].visited
    BY <2>1
  <2>3. Entering(spreads, s).visited = s.visited \cup {Head(s.next)}
    BY DEF Entering, Enters, Detector
  <2> DEFINE then == LookAt(spreads, g, s)
  <2>4. then \in D /\ then.next = Tail(s.next) /\ s.visited \subseteq then.visited
    BY <1>5, <2>2, <2>3, LooksAt
  <2> HIDE DEF then
  <2>5. Weight(spreads, w, then.visited, Tail(s.next)) < Weight(spreads, w, s.visited, s.next)
    BY <1>1, <1>2, <1>5, <2>4, DetectorWeight
  <2>6. size[then] < size[s]
    BY <2>4, <2>5
  <2> QED
    BY <2>4, <2>6 DEF then
<1>6. body \in [G -> G]
  <2>1. ASSUME NEW g \in G, NEW s \in D PROVE body[g][s] \in P[s] /\ body[g][s] \in D
    <3>1. CASE s.next = <<>>
      BY <3>1
    <3>2. CASE s.next # <<>>
      <4> DEFINE then == LookAt(spreads, g, s)
      <4>1. then \in D /\ s.visited \subseteq then.visited
        BY <1>5, <3>2
      <4> HIDE DEF then
      <4>2. g[then] \in D /\ then.visited \subseteq g[then].visited
        BY <4>1
      <4>3. body[g][s] = g[then]
        BY <3>2 DEF then
      <4> HIDE DEF body
      <4> QED
        BY <4>1, <4>2, <4>3
    <3> QED
      BY <3>1, <3>2
  <2>2. ASSUME NEW g \in G PROVE body[g] \in G
    <3>1. body[g] \in [D -> D]
      BY <2>1
    <3> HIDE DEF body
    <3> QED
      BY <2>1, <3>1
  <2>3. body = [g \in G |-> body[g]]
    OBVIOUS
  <2> HIDE DEF body, G
  <2> QED
    BY <2>2, <2>3
<1>7. ASSUME NEW g \in G, NEW h \in G, NEW s \in D,
             \A r \in D : size[r] < size[s] => g[r] = h[r]
      PROVE  body[g][s] = body[h][s]
  <2>1. CASE s.next = <<>>
    BY <2>1
  <2>2. CASE s.next # <<>>
    <3> DEFINE then == LookAt(spreads, g, s)
               go == Entering(spreads, s)
    <3>1. Head(s.next) \notin s.visited => g[go] = h[go]
      <4>1. SUFFICES ASSUME Head(s.next) \notin s.visited PROVE g[go] = h[go]
        OBVIOUS
      <4>2. go \in D
        BY <2>2, LooksOn
      <4>3. Weight(spreads, w, go.visited, go.next) < Weight(spreads, w, s.visited, s.next)
        BY <1>1, <2>2, <4>1, DetectorWeight
      <4>4. size[go] < size[s]
        BY <4>2, <4>3
      <4> QED
        BY <1>7, <4>2, <4>4
    <3>2. LookAt(spreads, h, s) = then
      BY <3>1 DEF LookAt, Entering
    <3>3. then \in D /\ size[then] < size[s]
      BY <1>5, <2>2
    <3>4. body[g][s] = g[then] /\ body[h][s] = h[then]
      BY <2>2, <3>2
    <3> HIDE DEF then, body, size
    <3> QED
      BY <1>7, <3>3, <3>4
  <2> QED
    BY <2>1, <2>2
<1>8. PICK f \in G : f = body[f]
  <2>1. \A g, h \in G : \A s \in D :
           (\A r \in D : size[r] < size[s] => g[r] = h[r]) => body[g][s] = body[h][s]
    BY <1>7
  <2>2. G = Guided(D, P)
    BY DEF Guided
  <2> HIDE DEF size, P, body, D, G
  <2>3. Contracts(D, size, P, body)
    BY <1>3, <1>4, <1>6, <2>1, <2>2 DEF Contracts
  <2> QED
    BY <2>2, <2>3, Recursion
<1>9. Detects(spreads, f)
  BY <1>8 DEF Detects
<1> QED
  BY <1>9

\* The nodes that a search is done with.
Done(s) == s.visited \ s.path

\* Whichever of the nodes are taken, one of these spreads none of them.
Acyclic(spreads, nodes) ==
    \A S \in SUBSET nodes : S # {} => \E f \in S : S \cap ToSet(spreads[f]) = {}

\* What a search has found out is true.
Knows(spreads, s) ==
    /\ s.errors # {} => Cyclic(spreads)
    /\ s.errors = {} => Closed(spreads, Done(s)) /\ Acyclic(spreads, Done(s))

\* On the way, which ends at the node top, spreads lead from p to top.
LeadsTo(spreads, path, p, top) ==
    \E S \in SUBSET path :
        /\ p \in S /\ top \in S
        /\ \A f \in S \ {top} : S \cap ToSet(spreads[f]) # {}

\* The path has led to the nodes that are looked at.
OnPath(spreads, s) ==
    /\ s.path \subseteq s.visited
    /\ s.path # {} =>
          \E top \in s.path :
              /\ ToSet(s.next) \subseteq ToSet(spreads[top])
              /\ \A p \in s.path : LeadsTo(spreads, s.path, p, top)

\* What a call for s should return.
Finds(spreads, s, r) ==
    /\ r \in Detector(spreads) /\ r.path = s.path
    /\ s.visited \subseteq r.visited /\ s.errors \subseteq r.errors
    /\ Knows(spreads, r)
    /\ r.errors = {} => ToSet(s.next) \subseteq Done(r)

\* A node of the path that is spread in its last closes a cycle.
LEMMA PathCloses ==
  ASSUME NEW spreads, Graph(spreads), NEW s \in Detector(spreads), OnPath(spreads, s),
         NEW name \in s.path, name \in ToSet(s.next)
  PROVE  Cyclic(spreads)
<1>1. PICK top \in s.path : /\ ToSet(s.next) \subseteq ToSet(spreads[top])
                            /\ \A p \in s.path : LeadsTo(spreads, s.path, p, top)
  BY DEF OnPath
<1>2. PICK S \in SUBSET s.path :
         /\ name \in S /\ top \in S
         /\ \A f \in S \ {top} : S \cap ToSet(spreads[f]) # {}
  BY <1>1 DEF LeadsTo
<1>3. name \in S \cap ToSet(spreads[top])
  BY <1>1, <1>2
<1>4. \A f \in S : S \cap ToSet(spreads[f]) # {}
  BY <1>2, <1>3
<1>5. S \in SUBSET DOMAIN spreads
  BY DEF Detector
<1> QED
  BY <1>2, <1>4, <1>5 DEF Cyclic

\* A node that is entered is on the path that has led to it.
LEMMA EntersPath ==
  ASSUME NEW spreads, Graph(spreads), NEW s \in Detector(spreads), s.next # <<>>,
         OnPath(spreads, s), Knows(spreads, s), Head(s.next) \notin s.visited
  PROVE  OnPath(spreads, Entering(spreads, s)) /\ Knows(spreads, Entering(spreads, s))
<1> DEFINE name == Head(s.next)
           go == Entering(spreads, s)
<1>1. /\ go.visited = s.visited \cup {name} /\ go.path = s.path \cup {name}
      /\ go.errors = s.errors /\ go.next = spreads[name]
  BY DEF Entering, Enters, Detector
<1>2. name \notin s.visited /\ s.path \subseteq s.visited
  BY DEF OnPath
<1>3. name \in ToSet(s.next)
  BY LooksOn
<1> HIDE DEF name, go
<1>4. Done(go) = Done(s)
  BY <1>1, <1>2 DEF Done
<1>5. ASSUME NEW p \in go.path PROVE LeadsTo(spreads, go.path, p, name)
  <2>1. CASE p = name
    <3>1. {name} \in SUBSET go.path /\ \A f \in {name} \ {name} : FALSE
      BY <1>1
    <3> QED
      BY <2>1, <3>1 DEF LeadsTo
  <2>2. CASE p # name
    <3>1. p \in s.path
      BY <1>1, <1>5, <2>2
    <3>2. PICK top \in s.path : /\ ToSet(s.next) \subseteq ToSet(spreads[top])
                                /\ LeadsTo(spreads, s.path, p, top)
      BY <3>1 DEF OnPath
    <3>3. PICK S \in SUBSET s.path :
             /\ p \in S /\ top \in S
             /\ \A f \in S \ {top} : S \cap ToSet(spreads[f]) # {}
      BY <3>2 DEF LeadsTo
    <3> DEFINE T == S \cup {name}
    <3>4. ASSUME NEW f \in T \ {name} PROVE T \cap ToSet(spreads[f]) # {}
      <4>1. CASE f = top
        BY <1>3, <3>2, <4>1
      <4>2. CASE f # top
        BY <3>3, <3>4, <4>2
      <4> QED
        BY <4>1, <4>2
    <3>5. T \in SUBSET go.path /\ p \in T /\ name \in T
      BY <1>1, <3>3
    <3> HIDE DEF T
    <3> QED
      BY <3>4, <3>5 DEF LeadsTo
  <2> QED
    BY <2>1, <2>2
<1>6. OnPath(spreads, go)
  <2>1. name \in go.path /\ go.path \subseteq go.visited
    BY <1>1, <1>2
  <2>2. ToSet(go.next) \subseteq ToSet(spreads[name])
    BY <1>1
  <2> QED
    BY <1>5, <2>1, <2>2 DEF OnPath
<1>7. Knows(spreads, go)
  BY <1>1, <1>4 DEF Knows
<1> QED
  BY <1>6, <1>7 DEF go

\* A node whose spreads are done with is done with itself.
LEMMA LeavesDone ==
  ASSUME NEW spreads, NEW nodes \in SUBSET DOMAIN spreads, NEW name \in DOMAIN spreads \ nodes,
         Closed(spreads, nodes), Acyclic(spreads, nodes), ToSet(spreads[name]) \subseteq nodes
  PROVE  Closed(spreads, nodes \cup {name}) /\ Acyclic(spreads, nodes \cup {name})
<1>1. Closed(spreads, nodes \cup {name})
  BY DEF Closed
<1>2. ASSUME NEW S \in SUBSET (nodes \cup {name}), S # {},
             \A f \in S : S \cap ToSet(spreads[f]) # {}
      PROVE  FALSE
  <2> DEFINE T == S \ {name}
  <2>1. \A f \in S : T \cap ToSet(spreads[f]) # {}
    <3>1. \A f \in S : ToSet(spreads[f]) \subseteq nodes
      BY DEF Closed
    <3> QED
      BY <1>2, <3>1
  <2>2. T # {}
    BY <1>2, <2>1
  <2>3. T \in SUBSET nodes
    OBVIOUS
  <2> HIDE DEF T
  <2>4. PICK f \in T : T \cap ToSet(spreads[f]) = {}
    BY <2>2, <2>3 DEF Acyclic
  <2>5. f \in S
    BY DEF T
  <2> QED
    BY <2>1, <2>4, <2>5
<1> QED
  BY <1>1, <1>2 DEF Acyclic

\* A call is right when the calls that it makes are.
LEMMA DetectStep ==
  ASSUME NEW spreads, Graph(spreads), NEW detect, Detects(spreads, detect),
         NEW s \in Detector(spreads), OnPath(spreads, s), Knows(spreads, s),
         s.next # <<>> /\ Head(s.next) \notin s.visited =>
            Finds(spreads, Entering(spreads, s), detect[Entering(spreads, s)]),
         \A t \in Detector(spreads) :
            /\ s.next # <<>> /\ t = LookAt(spreads, detect, s)
            /\ OnPath(spreads, t) /\ Knows(spreads, t)
            => Finds(spreads, t, detect[t])
  PROVE  Finds(spreads, s, detect[s])
<1>1. detect[s] = IF s.next = <<>> THEN s ELSE detect[LookAt(spreads, detect, s)]
  <2> DEFINE body == [x \in Detector(spreads) |->
                         IF x.next = <<>> THEN x ELSE detect[LookAt(spreads, detect, x)]]
  <2>1. detect = body
    BY DEF Detects
  <2>2. body[s] = IF s.next = <<>> THEN s ELSE detect[LookAt(spreads, detect, s)]
    OBVIOUS
  <2> HIDE DEF body
  <2> QED
    BY <2>1, <2>2
<1>2. CASE s.next = <<>>
  <2>1. ToSet(s.next) = {}
    BY <1>2 DEF ToSet
  <2> QED
    BY <1>1, <1>2, <2>1 DEF Finds
<1>3. CASE s.next # <<>>
  <2> DEFINE name == Head(s.next)
             go == Entering(spreads, s)
             there == detect[go]
             then == LookAt(spreads, detect, s)
             r == detect[then]
  <2>1. /\ ToSet(s.next) = {name} \cup ToSet(Tail(s.next))
        /\ name \in DOMAIN spreads /\ s.path \subseteq s.visited
    BY <1>3, LooksOn DEF OnPath
  <2>2. /\ go.visited = s.visited \cup {name} /\ go.path = s.path \cup {name}
        /\ go.errors = s.errors /\ go.next = spreads[name]
    BY DEF Entering, Enters, Detector
  <2>3. name \notin s.visited => Finds(spreads, go, there)
    BY <1>3
  <2>4. name \notin s.path \cup s.visited =>
           there \in Detector(spreads) /\ s.visited \cup {name} \subseteq there.visited
    BY <2>2, <2>3 DEF Finds
  <2>5. /\ then \in Detector(spreads) /\ then.next = Tail(s.next) /\ s.visited \subseteq then.visited
        /\ name \in s.path =>
              /\ then.visited = s.visited /\ then.path = s.path
              /\ then.errors = s.errors \cup {name}
        /\ name \in s.visited \ s.path =>
              then.visited = s.visited /\ then.path = s.path /\ then.errors = s.errors
        /\ name \notin s.path \cup s.visited =>
              /\ then.visited = there.visited /\ then.path = there.path \ {name}
              /\ then.errors = there.errors
    BY <1>3, <2>4, LooksAt
  <2>6. detect[s] = r
    BY <1>1, <1>3
  <2>7. name \in s.path => Cyclic(spreads)
    BY <2>1, PathCloses
  <2>8. OnPath(spreads, then) /\ Knows(spreads, then) => Finds(spreads, then, r)
    BY <1>3, <2>5
  <2> HIDE DEF name, go, there, then, r
  <2>9. /\ then.path = s.path /\ s.errors \subseteq then.errors /\ Knows(spreads, then)
        /\ then.errors = {} => name \in Done(then)
    <3>1. CASE name \in s.path
      BY <2>5, <2>7, <3>1 DEF Knows
    <3>2. CASE name \in s.visited \ s.path
      BY <2>5, <3>2 DEF Knows, Done
    <3>3. CASE name \notin s.visited
      <4>1. /\ then.visited = there.visited /\ then.path = there.path \ {name}
            /\ then.errors = there.errors /\ name \notin s.path
        BY <2>1, <2>5, <3>3
      <4>2. Finds(spreads, go, there)
        BY <2>3, <3>3
      <4>3. /\ there.path = s.path \cup {name} /\ name \in there.visited
            /\ s.errors \subseteq there.errors
        BY <2>2, <4>2 DEF Finds
      <4>4. then.path = s.path /\ Done(then) = Done(there) \cup {name} /\ name \notin Done(there)
        BY <4>1, <4>3 DEF Done
      <4>5. ASSUME there.errors = {}
            PROVE  Closed(spreads, Done(then)) /\ Acyclic(spreads, Done(then))
        <5>1. Closed(spreads, Done(there)) /\ Acyclic(spreads, Done(there))
          BY <4>2, <4>5 DEF Finds, Knows
        <5>2. ToSet(spreads[name]) \subseteq Done(there)
          BY <2>2, <4>2, <4>5 DEF Finds
        <5>3. Done(there) \in SUBSET DOMAIN spreads
          BY <4>2 DEF Finds, Detector, Done
        <5> QED
          BY <2>1, <4>4, <5>1, <5>2, <5>3, LeavesDone
      <4>6. there.errors # {} => Cyclic(spreads)
        BY <4>2 DEF Finds, Knows
      <4>7. Knows(spreads, then)
        BY <4>1, <4>5, <4>6 DEF Knows
      <4> QED
        BY <4>1, <4>3, <4>4, <4>7
    <3> QED
      BY <3>1, <3>2, <3>3
  <2>10. OnPath(spreads, then)
    BY <2>1, <2>5, <2>9 DEF OnPath
  <2>11. Finds(spreads, then, r)
    BY <2>8, <2>9, <2>10
  <2>12. r.path = s.path /\ s.visited \subseteq r.visited /\ s.errors \subseteq r.errors
         /\ r \in Detector(spreads) /\ Knows(spreads, r)
    BY <2>5, <2>9, <2>11 DEF Finds
  <2>13. ASSUME r.errors = {} PROVE ToSet(s.next) \subseteq Done(r)
    <3>1. then.errors = {} /\ ToSet(Tail(s.next)) \subseteq Done(r)
      BY <2>5, <2>11, <2>13 DEF Finds
    <3>2. Done(then) \subseteq Done(r)
      BY <2>11 DEF Finds, Done
    <3> QED
      BY <2>1, <2>9, <3>1, <3>2
  <2> QED
    BY <2>6, <2>12, <2>13 DEF Finds
<1> QED
  BY <1>2, <1>3

LEMMA DetectRight ==
  ASSUME NEW spreads, Graph(spreads), NEW detect, Detects(spreads, detect),
         NEW s \in Detector(spreads), OnPath(spreads, s), Knows(spreads, s)
  PROVE  Finds(spreads, s, detect[s])
<1>1. PICK w \in Nat : Bounds(spreads, w)
  BY Bounded
<1> DEFINE D == Detector(spreads)
           size(x) == Weight(spreads, w, x.visited, x.next)
           Right(x) == OnPath(spreads, x) /\ Knows(spreads, x) => Finds(spreads, x, detect[x])
           S == {k \in Nat : \A x \in D : size(x) < k => Right(x)}
<1>2. ASSUME NEW x \in D
      PROVE  /\ size(x) \in Nat
             /\ x.next # <<>> =>
                  /\ Head(x.next) \notin x.visited =>
                        Entering(spreads, x) \in D /\ size(Entering(spreads, x)) < size(x)
                  /\ \A y \in D :
                        x.visited \subseteq y.visited /\ y.next = Tail(x.next) => size(y) < size(x)
  <2>1. \A y \in D : y.visited \in SUBSET DOMAIN spreads
    BY DEF Detector
  <2>2. x.next # <<>> => Entering(spreads, x) \in D
    BY LooksOn
  <2> QED
    BY <1>1, <2>1, <2>2, DetectorWeight
<1> HIDE DEF size
<1>3. 0 \in S
  BY <1>2
<1>4. ASSUME NEW k \in Nat, k \in S PROVE k + 1 \in S
  <2>1. SUFFICES ASSUME NEW x \in D, size(x) < k + 1, OnPath(spreads, x), Knows(spreads, x)
                 PROVE  Finds(spreads, x, detect[x])
    OBVIOUS
  <2>2. \A y \in D : size(y) < size(x) => size(y) < k
    BY <1>2, <2>1
  <2>3. \A y \in D : size(y) < size(x) => Right(y)
    BY <1>4, <2>2
  <2> DEFINE go == Entering(spreads, x)
             there == detect[go]
             then == LookAt(spreads, detect, x)
  <2>4. ASSUME x.next # <<>>, Head(x.next) \notin x.visited
        PROVE  Finds(spreads, go, there)
    <3>1. OnPath(spreads, go) /\ Knows(spreads, go)
      BY <2>1, <2>4, EntersPath
    <3>2. go \in D /\ size(go) < size(x)
      BY <1>2, <2>4
    <3> HIDE DEF go, D
    <3> QED
      BY <2>3, <3>1, <3>2
  <2>5. ASSUME x.next # <<>>
        PROVE  then \in D /\ size(then) < size(x)
    <3>1. go.visited = x.visited \cup {Head(x.next)}
      BY DEF Entering, Enters, Detector
    <3>2. Head(x.next) \notin x.path \cup x.visited =>
             there \in D /\ x.visited \cup {Head(x.next)} \subseteq there.visited
      BY <2>4, <2>5, <3>1 DEF Finds
    <3>3. then \in D /\ then.next = Tail(x.next) /\ x.visited \subseteq then.visited
      BY <2>5, <3>2, LooksAt
    <3> HIDE DEF then, D
    <3> QED
      BY <1>2, <2>5, <3>3
  <2>6. \A t \in D : /\ x.next # <<>> /\ t = then
                     /\ OnPath(spreads, t) /\ Knows(spreads, t)
                     => Finds(spreads, t, detect[t])
    <3> HIDE DEF then, D
    <3> QED
      BY <2>3, <2>5
  <2> QED
    BY <2>1, <2>4, <2>6, DetectStep
<1>5. Nat \subseteq S
  <2> HIDE DEF S
  <2> QED
    BY <1>3, <1>4, Induction
<1>6. size(s) \in Nat /\ size(s) + 1 \in Nat /\ size(s) < size(s) + 1
  BY <1>2
<1> QED
  BY <1>5, <1>6

\* The validator refuses a document for a cycle of fragments exactly when there is
\* one, in whatever order the HashMap gives the fragments and with a search that
\* never enters a fragment twice (CycleDetector::detect_from): what goes through
\* the fragments of an accepted document, as planning does, ends.
THEOREM CyclesFoundExactly ==
  ASSUME NEW spreads, Graph(spreads), NEW order \in Seq(DOMAIN spreads),
         \A f \in DOMAIN spreads : spreads[f] # <<>> => f \in ToSet(order)
  PROVE  CyclesFrom(spreads, order) # {} <=> Cyclic(spreads)
<1> DEFINE detect == CHOOSE f : Detects(spreads, f)
           s == [visited |-> {}, path |-> {}, errors |-> {}, next |-> order]
           r == detect[s]
<1>1. Detects(spreads, detect)
  BY DetectExists
<1>2. CyclesFrom(spreads, order) = r.errors
  BY DEF CyclesFrom, Detect, Detects
<1>3. /\ s \in Detector(spreads)
      /\ s.visited = {} /\ s.path = {} /\ s.errors = {} /\ s.next = order
  BY DEF Detector
<1> HIDE DEF detect, s
<1>4. OnPath(spreads, s) /\ Knows(spreads, s)
  BY <1>3 DEF OnPath, Knows, Done, Closed, Acyclic
<1>5. Finds(spreads, s, r)
  BY <1>1, <1>3, <1>4, DetectRight
<1> HIDE DEF r
<1>6. r.errors # {} => Cyclic(spreads)
  BY <1>5 DEF Finds, Knows
<1>7. ASSUME r.errors = {}, Cyclic(spreads) PROVE FALSE
  <2>1. PICK S \in SUBSET DOMAIN spreads : S # {} /\ \A f \in S : S \cap ToSet(spreads[f]) # {}
    BY <1>7 DEF Cyclic
  <2>2. ToSet(order) \subseteq Done(r) /\ Acyclic(spreads, Done(r))
    BY <1>3, <1>5, <1>7 DEF Finds, Knows
  <2>3. ASSUME NEW f \in S PROVE f \in ToSet(order)
    <3>1. ToSet(<<>>) = {}
      BY DEF ToSet
    <3>2. ToSet(spreads[f]) # {}
      BY <2>1
    <3> QED
      BY <3>1, <3>2
  <2>4. S \in SUBSET Done(r)
    BY <2>2, <2>3
  <2> QED
    BY <2>1, <2>2, <2>4 DEF Acyclic
<1> QED
  BY <1>2, <1>6, <1>7
=============================================================================
