--------------------------- MODULE SequenceLemmas ---------------------------
(***************************************************************************)
(* Facts about natural numbers and sequences that the proofs about the     *)
(* gateway's data rest on.  The induction is stated with a set in place of *)
(* a predicate: to prove P for every n, take S to be {n \in Nat : P(n)}.   *)
(***************************************************************************)
EXTENDS Integers, SequencesExt, WellFoundedInduction, TLAPS

\* Induction over the natural numbers: a set without some of them would have
\* a least one that it is without.
LEMMA Induction ==
  ASSUME NEW S, 0 \in S, \A n \in Nat : n \in S => n + 1 \in S
  PROVE  Nat \subseteq S
<1> DEFINE T == Nat \ S
           Less == OpToRel(<, Nat)
<1>1. SUFFICES ASSUME T # {} PROVE FALSE
  OBVIOUS
<1>2. IsWellFoundedOn(Less, Nat)
  BY NatLessThanWellFounded
<1>3. PICK x \in T : \A y \in T : <<y, x>> \notin Less
  <2>1. T \subseteq Nat
    OBVIOUS
  <2> HIDE DEF Less
  <2> QED
    BY <1>1, <1>2, <2>1, WFMin
<1>4. x # 0 /\ x \in Nat
  OBVIOUS
<1>5. x - 1 \in Nat /\ x - 1 < x
  BY <1>4
<1>6. <<x - 1, x>> \in Less
  BY <1>4, <1>5 DEF OpToRel
<1>7. x - 1 \in S
  BY <1>3, <1>5, <1>6
<1> QED
  BY <1>4, <1>5, <1>7

-----------------------------------------------------------------------------
(* FlattenSeq goes through the sequences one by one.                        *)

\* The function that FlattenSeq is defined by, for the first n sequences.
Flattens(f, n, ss) ==
    f = [i \in 1..n |-> IF i = 1 THEN ss[i] ELSE f[i - 1] \o ss[i]]

LEMMA FlattensAt ==
  ASSUME NEW n \in Nat, NEW ss, NEW f, Flattens(f, n, ss)
  PROVE  \A k \in 1..n : f[k] = IF k = 1 THEN ss[k] ELSE f[k - 1] \o ss[k]
<1> DEFINE g == [i \in 1..n |-> IF i = 1 THEN ss[i] ELSE f[i - 1] \o ss[i]]
<1>1. f = g
  BY DEF Flattens
<1>2. \A k \in 1..n : g[k] = IF k = 1 THEN ss[k] ELSE f[k - 1] \o ss[k]
  OBVIOUS
<1> HIDE DEF g
<1> QED
  BY <1>1, <1>2

LEMMA FlattensExists ==
  ASSUME NEW ss, NEW n \in Nat
  PROVE  \E f : Flattens(f, n, ss)
<1> DEFINE S == {k \in Nat : \E f : Flattens(f, k, ss)}
<1>1. 0 \in S
  <2>1. Flattens([i \in 1..0 |-> ss], 0, ss)
    BY DEF Flattens
  <2> QED
    BY <2>1
<1>2. ASSUME NEW k \in Nat, k \in S PROVE k + 1 \in S
  <2>1. PICK f : Flattens(f, k, ss)
    BY <1>2
  <2> DEFINE g == [i \in 1..k + 1 |-> IF i = 1 THEN ss[i]
                                      ELSE IF i = k + 1 THEN f[k] \o ss[i] ELSE f[i]]
  <2>2. ASSUME NEW i \in 1..k + 1, i # 1 PROVE g[i] = g[i - 1] \o ss[i]
    <3>1. i - 1 \in 1..k /\ i - 1 # k + 1
      BY <2>2
    <3>2. g[i - 1] = f[i - 1]
      BY <2>1, <3>1 DEF Flattens
    <3>3. i # k + 1 => i \in 1..k
      OBVIOUS
    <3>4. i # k + 1 => f[i] = f[i - 1] \o ss[i]
      BY <2>1, <2>2, <3>3 DEF Flattens
    <3>5. g[i] = IF i = k + 1 THEN f[k] \o ss[i] ELSE f[i]
      BY <2>2
    <3>6. i = k + 1 => i - 1 = k
      OBVIOUS
    <3> HIDE DEF g
    <3> QED
      BY <3>2, <3>4, <3>5, <3>6
  <2>3. Flattens(g, k + 1, ss)
    BY <2>2 DEF Flattens
  <2> QED
    BY <2>3
<1>3. Nat \subseteq S
  <2> HIDE DEF S
  <2> QED
    BY <1>1, <1>2, Induction
<1> QED
  BY <1>3

\* What is flattened of the first sequences is what these say.
LEMMA FlattensAgree ==
  ASSUME NEW n \in Nat, NEW m \in Nat, n <= m, NEW ss, NEW tt, NEW f, NEW g,
         Flattens(f, n, ss), Flattens(g, m, tt), \A i \in 1..n : ss[i] = tt[i]
  PROVE  \A i \in 1..n : f[i] = g[i]
<1> DEFINE S == {i \in Nat : i \in 1..n => f[i] = g[i]}
<1>1. 0 \in S
  OBVIOUS
<1>2. ASSUME NEW i \in Nat, i \in S PROVE i + 1 \in S
  <2>1. SUFFICES ASSUME i + 1 \in 1..n PROVE f[i + 1] = g[i + 1]
    OBVIOUS
  <2>2. i + 1 \in 1..m
    BY <2>1
  <2>3. CASE i = 0
    BY <2>1, <2>2, <2>3 DEF Flattens
  <2>4. CASE i # 0
    <3>1. i + 1 # 1 /\ i \in 1..n /\ (i + 1) - 1 = i
      BY <2>1, <2>4
    <3>2. f[i + 1] = f[i] \o ss[i + 1]
      <4>1. \A k \in 1..n : f[k] = IF k = 1 THEN ss[k] ELSE f[k - 1] \o ss[k]
        BY FlattensAt
      <4> QED
        BY <2>1, <3>1, <4>1
    <3>3. g[i + 1] = g[i] \o tt[i + 1]
      <4>1. \A k \in 1..m : g[k] = IF k = 1 THEN tt[k] ELSE g[k - 1] \o tt[k]
        BY FlattensAt
      <4> QED
        BY <2>2, <3>1, <4>1
    <3> QED
      BY <1>2, <2>1, <3>1, <3>2, <3>3
  <2> QED
    BY <2>3, <2>4
<1>3. Nat \subseteq S
  <2> HIDE DEF S
  <2> QED
    BY <1>1, <1>2, Induction
<1> QED
  BY <1>3

LEMMA FlattensType ==
  ASSUME NEW R, NEW ss \in Seq(Seq(R)), NEW f, Flattens(f, Len(ss), ss)
  PROVE  \A i \in 1..Len(ss) : f[i] \in Seq(R)
<1> DEFINE S == {i \in Nat : i \in 1..Len(ss) => f[i] \in Seq(R)}
<1>1. 0 \in S
  OBVIOUS
<1>2. ASSUME NEW i \in Nat, i \in S PROVE i + 1 \in S
  <2>1. SUFFICES ASSUME i + 1 \in 1..Len(ss) PROVE f[i + 1] \in Seq(R)
    OBVIOUS
  <2>2. ss[i + 1] \in Seq(R)
    BY <2>1
  <2>3. CASE i = 0
    BY <2>1, <2>2, <2>3 DEF Flattens
  <2>4. CASE i # 0
    <3>1. i + 1 # 1 /\ i \in 1..Len(ss) /\ (i + 1) - 1 = i
      BY <2>1, <2>4
    <3>2. f[i + 1] = f[i] \o ss[i + 1]
      <4>1. Len(ss) \in Nat
        OBVIOUS
      <4>2. \A k \in 1..Len(ss) : f[k] = IF k = 1 THEN ss[k] ELSE f[k - 1] \o ss[k]
        BY <4>1, FlattensAt
      <4> QED
        BY <2>1, <3>1, <4>2
    <3> QED
      BY <1>2, <2>2, <3>1, <3>2
  <2> QED
    BY <2>3, <2>4
<1>3. Nat \subseteq S
  <2> HIDE DEF S
  <2> QED
    BY <1>1, <1>2, Induction
<1> QED
  BY <1>3

LEMMA FlattenSeqFlattens ==
  ASSUME NEW ss, Len(ss) \in Nat, Len(ss) # 0
  PROVE  \E f : Flattens(f, Len(ss), ss) /\ FlattenSeq(ss) = f[Len(ss)]
<1> DEFINE f == CHOOSE g : Flattens(g, Len(ss), ss)
<1>1. Flattens(f, Len(ss), ss)
  BY FlattensExists
<1>2. FlattenSeq(ss) = f[Len(ss)]
  BY DEF FlattenSeq, Flattens
<1> QED
  BY <1>1, <1>2

LEMMA FlattenEmpty == FlattenSeq(<<>>) = <<>>
BY DEF FlattenSeq

LEMMA FlattenAppend ==
  ASSUME NEW R, NEW ss \in Seq(Seq(R)), NEW x \in Seq(R)
  PROVE  /\ FlattenSeq(ss) \in Seq(R)
         /\ FlattenSeq(Append(ss, x)) = FlattenSeq(ss) \o x
<1> DEFINE tt == Append(ss, x)
           n == Len(ss)
<1>1. /\ n \in Nat /\ tt \in Seq(Seq(R)) /\ Len(tt) = n + 1 /\ tt[n + 1] = x
      /\ \A i \in 1..n : ss[i] = tt[i]
  OBVIOUS
<1>2. n \in Nat /\ n + 1 \in Nat /\ n + 1 # 0 /\ n <= n + 1
  BY <1>1
<1>3. CASE n = 0
  <2>1. ss = <<>> /\ tt = <<x>> /\ Len(tt) = 1
    BY <1>3
  <2> HIDE DEF tt
  <2>2. PICK g : Flattens(g, 1, tt) /\ FlattenSeq(tt) = g[1]
    <3>1. Len(tt) \in Nat /\ Len(tt) # 0
      BY <2>1
    <3> QED
      BY <2>1, <3>1, FlattenSeqFlattens
  <2>3. g[1] = x
    BY <2>1, <2>2 DEF Flattens
  <2>4. FlattenSeq(ss) = <<>> /\ FlattenSeq(tt) = x
    BY <2>1, <2>2, <2>3, FlattenEmpty
  <2> QED
    BY <2>4 DEF tt
<1>4. CASE n # 0
  <2>1. PICK f : Flattens(f, n, ss) /\ FlattenSeq(ss) = f[n]
    BY <1>1, <1>4, FlattenSeqFlattens
  <2>2. f[n] \in Seq(R)
    BY <1>1, <1>4, <2>1, FlattensType
  <2> HIDE DEF n, tt
  <2>3. PICK g : Flattens(g, n + 1, tt) /\ FlattenSeq(tt) = g[n + 1]
    BY <1>1, <1>2, FlattenSeqFlattens
  <2>4. f[n] = g[n]
    <3>1. \A i \in 1..n : ss[i] = tt[i]
      BY <1>1
    <3>2. \A i \in 1..n : f[i] = g[i]
      BY <1>2, <2>1, <2>3, <3>1, FlattensAgree
    <3> QED
      BY <1>2, <1>4, <3>2
  <2>5. g[n + 1] = g[n] \o x
    <3>1. n + 1 \in 1..n + 1 /\ n + 1 # 1 /\ (n + 1) - 1 = n
      BY <1>2, <1>4
    <3>2. g[n + 1] = g[n] \o tt[n + 1]
      <4>1. \A k \in 1..n + 1 : g[k] = IF k = 1 THEN tt[k] ELSE g[k - 1] \o tt[k]
        BY <1>2, <2>3, FlattensAt
      <4> QED
        BY <3>1, <4>1
    <3> QED
      BY <1>1, <3>1, <3>2
  <2>6. FlattenSeq(ss) \in Seq(R) /\ FlattenSeq(tt) = FlattenSeq(ss) \o x
    BY <2>1, <2>2, <2>3, <2>4, <2>5
  <2> QED
    BY <2>6 DEF tt
<1> QED
  BY <1>3, <1>4

\* What is flattened are the elements of the sequences, in their order.
Flattened(ss, flat) ==
  /\ \A i \in 1..Len(flat) : \E g \in 1..Len(ss) : \E k \in 1..Len(ss[g]) : flat[i] = ss[g][k]
  /\ \A g \in 1..Len(ss) : \A k \in 1..Len(ss[g]) : \E i \in 1..Len(flat) : flat[i] = ss[g][k]
  /\ \A i, j \in 1..Len(flat) :
        i < j => \E g, h \in 1..Len(ss) : \E k \in 1..Len(ss[g]), l \in 1..Len(ss[h]) :
                    /\ flat[i] = ss[g][k] /\ flat[j] = ss[h][l]
                    /\ g < h \/ (g = h /\ k < l)

LEMMA FlattenedAppend ==
  ASSUME NEW R, NEW ss \in Seq(Seq(R)), NEW x \in Seq(R), NEW flat \in Seq(R), Flattened(ss, flat)
  PROVE  Flattened(Append(ss, x), flat \o x)
<1> DEFINE tt == Append(ss, x)
           all == flat \o x
           n == Len(ss)
           f == Len(flat)
<1>1. /\ n \in Nat /\ f \in Nat /\ Len(x) \in Nat /\ Len(tt) = n + 1 /\ Len(all) = f + Len(x)
      /\ tt[n + 1] = x /\ \A g \in 1..n : tt[g] = ss[g]
      /\ \A i \in 1..f : all[i] = flat[i]
      /\ \A k \in 1..Len(x) : all[f + k] = x[k]
  OBVIOUS
<1>2. \A g \in 1..n : Len(tt[g]) \in Nat
  BY <1>1
<1> HIDE DEF tt, all, n, f
<1>3. ASSUME NEW i \in 1..Len(all), i > f
      PROVE  i - f \in 1..Len(x) /\ all[i] = tt[n + 1][i - f]
  <2>1. i - f \in 1..Len(x) /\ f + (i - f) = i
    BY <1>1, <1>3
  <2>2. all[f + (i - f)] = x[i - f]
    BY <1>1, <2>1
  <2> QED
    BY <1>1, <2>1, <2>2
<1>4. ASSUME NEW i \in 1..Len(all), ~(i > f)
      PROVE  i \in 1..f /\ all[i] = flat[i]
  BY <1>1, <1>4
<1>5. n + 1 \in 1..Len(tt) /\ \A g \in 1..n : g \in 1..Len(tt) /\ g < n + 1
  BY <1>1
<1>6. ASSUME NEW i \in 1..f
      PROVE  \E g \in 1..n : \E k \in 1..Len(tt[g]) : flat[i] = tt[g][k]
  <2>1. PICK g \in 1..n : \E k \in 1..Len(ss[g]) : flat[i] = ss[g][k]
    BY <1>6 DEF Flattened, n, f
  <2>2. tt[g] = ss[g]
    BY <1>1
  <2> QED
    BY <2>1, <2>2
<1>7. ASSUME NEW i \in 1..Len(all)
      PROVE  \E g \in 1..Len(tt) : \E k \in 1..Len(tt[g]) : all[i] = tt[g][k]
  <2>1. CASE i > f
    BY <1>1, <1>3, <1>5, <2>1
  <2>2. CASE ~(i > f)
    BY <1>4, <1>5, <1>6, <2>2
  <2> QED
    BY <2>1, <2>2
<1>8. ASSUME NEW g \in 1..Len(tt), NEW k \in 1..Len(tt[g])
      PROVE  \E i \in 1..Len(all) : all[i] = tt[g][k]
  <2>1. CASE g = n + 1
    <3>1. k \in 1..Len(x) /\ f + k \in 1..Len(all) /\ all[f + k] = tt[g][k]
      BY <1>1, <1>8, <2>1
    <3> QED
      BY <3>1
  <2>2. CASE g # n + 1
    <3>1. g \in 1..n /\ tt[g] = ss[g]
      BY <1>1, <1>8, <2>2
    <3>2. PICK i \in 1..f : flat[i] = ss[g][k]
      BY <1>8, <3>1 DEF Flattened, n, f
    <3>3. i \in 1..Len(all) /\ all[i] = flat[i]
      BY <1>1
    <3> QED
      BY <3>1, <3>2, <3>3
  <2> QED
    BY <2>1, <2>2
<1>9. ASSUME NEW i \in 1..Len(all), NEW j \in 1..Len(all), i < j
      PROVE  \E g, h \in 1..Len(tt) : \E k \in 1..Len(tt[g]), l \in 1..Len(tt[h]) :
                /\ all[i] = tt[g][k] /\ all[j] = tt[h][l]
                /\ g < h \/ (g = h /\ k < l)
  <2>1. CASE j > f /\ i > f
    <3>1. i - f < j - f
      BY <1>1, <1>9
    <3> QED
      BY <1>1, <1>3, <1>5, <2>1, <3>1
  <2>2. CASE j > f /\ ~(i > f)
    <3>1. PICK g \in 1..n : \E k \in 1..Len(tt[g]) : all[i] = tt[g][k]
      BY <1>4, <1>6, <2>2
    <3>2. g \in 1..Len(tt) /\ g < n + 1
      BY <1>5
    <3>3. PICK k \in 1..Len(tt[g]) : all[i] = tt[g][k]
      BY <3>1
    <3>4. j - f \in 1..Len(tt[n + 1]) /\ all[j] = tt[n + 1][j - f]
      BY <1>1, <1>3, <2>2
    <3> QED
      BY <1>5, <3>2, <3>3, <3>4
  <2>3. CASE ~(j > f)
    <3>1. ~(i > f)
      BY <1>1, <1>9, <2>3
    <3>2. i \in 1..f /\ j \in 1..f /\ all[i] = flat[i] /\ all[j] = flat[j]
      BY <1>4, <2>3, <3>1
    <3>3. PICK g, h \in 1..n : \E k \in 1..Len(ss[g]), l \in 1..Len(ss[h]) :
              /\ flat[i] = ss[g][k] /\ flat[j] = ss[h][l]
              /\ g < h \/ (g = h /\ k < l)
      BY <1>9, <3>2 DEF Flattened, n, f
    <3>4. tt[g] = ss[g] /\ tt[h] = ss[h] /\ g \in 1..Len(tt) /\ h \in 1..Len(tt)
      BY <1>1, <1>5
    <3> QED
      BY <3>2, <3>3, <3>4
  <2> QED
    BY <2>1, <2>2, <2>3
<1> QED
  BY <1>7, <1>8, <1>9 DEF Flattened, tt, all

LEMMA FlattenPlaces ==
  ASSUME NEW R, NEW ss \in Seq(Seq(R))
  PROVE  FlattenSeq(ss) \in Seq(R) /\ Flattened(ss, FlattenSeq(ss))
<1> DEFINE Right(t) == FlattenSeq(t) \in Seq(R) /\ Flattened(t, FlattenSeq(t))
           S == {n \in Nat : \A t \in Seq(Seq(R)) : Len(t) = n => Right(t)}
<1>1. 0 \in S
  <2>1. Right(<<>>)
    <3>1. Flattened(<<>>, <<>>) /\ <<>> \in Seq(R)
      BY DEF Flattened
    <3> QED
      BY <3>1, FlattenEmpty
  <2>2. \A t \in Seq(Seq(R)) : Len(t) = 0 => t = <<>>
    OBVIOUS
  <2> HIDE DEF Right
  <2> QED
    BY <2>1, <2>2
<1>2. ASSUME NEW n \in Nat, n \in S PROVE n + 1 \in S
  <2>1. SUFFICES ASSUME NEW t \in Seq(Seq(R)), Len(t) = n + 1 PROVE Right(t)
    BY <1>2
  <2> DEFINE u == SubSeq(t, 1, n)
             x == t[n + 1]
  <2>2. u \in Seq(Seq(R)) /\ Len(u) = n /\ x \in Seq(R) /\ t = Append(u, x)
    BY <2>1
  <2> HIDE DEF u, x
  <2>3. FlattenSeq(u) \in Seq(R) /\ Flattened(u, FlattenSeq(u))
    BY <1>2, <2>2
  <2>4. FlattenSeq(t) = FlattenSeq(u) \o x
    BY <2>2, FlattenAppend
  <2>5. Flattened(Append(u, x), FlattenSeq(u) \o x)
    BY <2>2, <2>3, FlattenedAppend
  <2>6. FlattenSeq(u) \o x \in Seq(R)
    BY <2>2, <2>3
  <2> QED
    BY <2>2, <2>4, <2>5, <2>6
<1>3. Nat \subseteq S
  <2> HIDE DEF S
  <2> QED
    BY <1>1, <1>2, Induction
<1>4. Len(ss) \in Nat
  OBVIOUS
<1> QED
  BY <1>3, <1>4

=============================================================================
