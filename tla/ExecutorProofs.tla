--------------------------- MODULE ExecutorProofs ---------------------------
(***************************************************************************)
(* The executor's data is that of its nodes run one after another, for any  *)
(* plan, answers and failures and any data that keeps the laws of module    *)
(* ExecutorLaws.                                                           *)
(***************************************************************************)
EXTENDS ExecutorLaws, SequenceLemmas

-----------------------------------------------------------------------------
(* The order of a plan.                                                    *)

LEMMA PlanType ==
  ASSUME NEW p \in Plans
  PROVE  /\ p.kind \in {"query", "subscription"}
         /\ p.groups \in Seq([mode : {"sequence", "parallel"}, nodes : Seq(DOMAIN p.node)])
         /\ \A g, h \in DOMAIN p.groups :
              \A k \in DOMAIN p.groups[g].nodes, l \in DOMAIN p.groups[h].nodes :
                 p.groups[g].nodes[k] = p.groups[h].nodes[l] => g = h /\ k = l
BY PlansAssumption

\* The node at place k of group g.
At(p, n, g, k) ==
  /\ g \in DOMAIN p.groups /\ k \in DOMAIN p.groups[g].nodes
  /\ p.groups[g].nodes[k] = n

NodesOf(p) == UNION {ToSet(p.groups[g].nodes) : g \in DOMAIN p.groups}

LEMMA PlaceUnique ==
  ASSUME NEW p \in Plans, NEW n, NEW g, NEW k, NEW h, NEW l, At(p, n, g, k), At(p, n, h, l)
  PROVE  g = h /\ k = l
<1>1. \A c, d \in DOMAIN p.groups :
         \A x \in DOMAIN p.groups[c].nodes, y \in DOMAIN p.groups[d].nodes :
            p.groups[c].nodes[x] = p.groups[d].nodes[y] => c = d /\ x = y
  BY PlanType
<1> QED
  BY <1>1 DEF At

LEMMA PlaceOfNode ==
  ASSUME NEW p \in Plans, NEW n
  PROVE  n \in NodesOf(p) <=> \E g, k : At(p, n, g, k)
<1>1. ASSUME NEW g \in DOMAIN p.groups
      PROVE  \A m : m \in ToSet(p.groups[g].nodes)
                      <=> \E k \in DOMAIN p.groups[g].nodes : p.groups[g].nodes[k] = m
  BY DEF ToSet
<1> QED
  BY <1>1 DEF NodesOf, At

\* Where two nodes of a plan are, of which the first comes before the second.
LEMMA OrderPlaces ==
  ASSUME NEW p \in Plans
  PROVE  /\ Order(p) \in Seq(DOMAIN p.node)
         /\ ToSet(Order(p)) = NodesOf(p)
         /\ \A i, j \in 1..Len(Order(p)) :
               i < j => \E g, k, h, l : /\ At(p, Order(p)[i], g, k) /\ At(p, Order(p)[j], h, l)
                                        /\ g \in Nat /\ h \in Nat /\ k \in Nat /\ l \in Nat
                                        /\ g < h \/ (g = h /\ k < l)
<1> DEFINE ss == [g \in DOMAIN p.groups |-> p.groups[g].nodes]
           G == Len(p.groups)
           O == Order(p)
<1>1. /\ ss \in Seq(Seq(DOMAIN p.node)) /\ Len(ss) = G /\ G \in Nat /\ DOMAIN p.groups = 1..G
      /\ \A g \in 1..G : ss[g] = p.groups[g].nodes /\ DOMAIN ss[g] = 1..Len(ss[g])
                         /\ Len(ss[g]) \in Nat
  <2>1. p.groups \in Seq([mode : {"sequence", "parallel"}, nodes : Seq(DOMAIN p.node)])
    BY PlanType
  <2>2. DOMAIN p.groups = 1..G /\ G \in Nat
    BY <2>1
  <2>3. \A g \in 1..G : p.groups[g].nodes \in Seq(DOMAIN p.node)
    <3> DEFINE R == [mode : {"sequence", "parallel"}, nodes : Seq(DOMAIN p.node)]
    <3>1. \A r \in R : r.nodes \in Seq(DOMAIN p.node)
      OBVIOUS
    <3>2. p.groups \in Seq(R)
      BY <2>1
    <3> HIDE DEF R
    <3>3. \A g \in 1..G : p.groups[g] \in R
      BY <2>2, <3>2
    <3> QED
      BY <3>1, <3>3
  <2>4. ss = [g \in 1..G |-> p.groups[g].nodes]
    BY <2>2
  <2>5. ss \in Seq(Seq(DOMAIN p.node)) /\ Len(ss) = G
    <3> DEFINE T == Seq(DOMAIN p.node)
    <3>1. \A g \in 1..G : p.groups[g].nodes \in T
      BY <2>3
    <3> HIDE DEF T, ss, G
    <3>2. ss \in [1..G -> T]
      BY <2>4, <3>1
    <3>3. ss \in Seq(T) /\ Len(ss) = G
      BY <2>2, <3>2
    <3> QED
      BY <3>3 DEF T
  <2>6. \A g \in 1..G : ss[g] = p.groups[g].nodes
    BY <2>4
  <2>7. \A s \in Seq(DOMAIN p.node) : DOMAIN s = 1..Len(s) /\ Len(s) \in Nat
    OBVIOUS
  <2> QED
    BY <2>2, <2>3, <2>5, <2>6, <2>7
<1>2. O = FlattenSeq(ss)
  BY DEF Order
<1> HIDE DEF ss, G, O
<1>3. O \in Seq(DOMAIN p.node) /\ Flattened(ss, O)
  BY <1>1, <1>2, FlattenPlaces
<1>4. ASSUME NEW g \in 1..G, NEW k \in 1..Len(ss[g]), NEW n, ss[g][k] = n
      PROVE  At(p, n, g, k) /\ g \in Nat /\ k \in Nat
  BY <1>1, <1>4 DEF At
<1>5. ASSUME NEW n \in ToSet(O) PROVE n \in NodesOf(p)
  <2>1. PICK i \in 1..Len(O) : O[i] = n
    BY <1>3 DEF ToSet
  <2>2. PICK g \in 1..G : \E k \in 1..Len(ss[g]) : O[i] = ss[g][k]
    BY <1>1, <1>3 DEF Flattened
  <2> QED
    BY <1>4, <2>1, <2>2, PlaceOfNode
<1>6. ASSUME NEW n \in NodesOf(p) PROVE n \in ToSet(O)
  <2>1. PICK g, k : At(p, n, g, k)
    BY PlaceOfNode
  <2>2. g \in 1..G /\ k \in 1..Len(ss[g]) /\ ss[g][k] = n
    BY <1>1, <2>1 DEF At
  <2>3. PICK i \in 1..Len(O) : O[i] = ss[g][k]
    BY <1>1, <1>3, <2>2 DEF Flattened
  <2> QED
    BY <1>3, <2>2, <2>3 DEF ToSet
<1>7. ASSUME NEW i \in 1..Len(O), NEW j \in 1..Len(O), i < j
      PROVE  \E g, k, h, l : /\ At(p, O[i], g, k) /\ At(p, O[j], h, l)
                             /\ g \in Nat /\ h \in Nat /\ k \in Nat /\ l \in Nat
                             /\ g < h \/ (g = h /\ k < l)
  <2>1. PICK g, h \in 1..G : \E k \in 1..Len(ss[g]), l \in 1..Len(ss[h]) :
            O[i] = ss[g][k] /\ O[j] = ss[h][l] /\ (g < h \/ (g = h /\ k < l))
    <3>1. \A x, y \in 1..Len(O) :
             x < y => \E g, h \in 1..Len(ss) : \E k \in 1..Len(ss[g]), l \in 1..Len(ss[h]) :
                         /\ O[x] = ss[g][k] /\ O[y] = ss[h][l]
                         /\ g < h \/ (g = h /\ k < l)
      BY <1>3 DEF Flattened
    <3>2. \E g, h \in 1..Len(ss) : \E k \in 1..Len(ss[g]), l \in 1..Len(ss[h]) :
                         /\ O[i] = ss[g][k] /\ O[j] = ss[h][l]
                         /\ g < h \/ (g = h /\ k < l)
      BY <1>7, <3>1
    <3> QED
      BY <1>1, <3>2
  <2>2. PICK k \in 1..Len(ss[g]), l \in 1..Len(ss[h]) :
            O[i] = ss[g][k] /\ O[j] = ss[h][l] /\ (g < h \/ (g = h /\ k < l))
    BY <2>1
  <2>3. At(p, O[i], g, k) /\ At(p, O[j], h, l) /\ g \in Nat /\ h \in Nat /\ k \in Nat /\ l \in Nat
    BY <1>4, <2>2
  <2> QED
    BY <2>2, <2>3
<1> QED
  BY <1>3, <1>5, <1>6, <1>7 DEF O

LEMMA OrderOnce ==
  ASSUME NEW p \in Plans, NEW i \in 1..Len(Order(p)), NEW j \in 1..Len(Order(p)), i # j
  PROVE  Order(p)[i] # Order(p)[j]
<1>1. \A x, y \in 1..Len(Order(p)) : x < y => Order(p)[x] # Order(p)[y]
  <2> TAKE x, y \in 1..Len(Order(p))
  <2> HAVE x < y
  <2>1. PICK g, k, h, l : /\ At(p, Order(p)[x], g, k) /\ At(p, Order(p)[y], h, l)
                          /\ g \in Nat /\ h \in Nat /\ k \in Nat /\ l \in Nat
                          /\ g < h \/ (g = h /\ k < l)
    BY OrderPlaces
  <2>2. ~(g = h /\ k = l)
    BY <2>1
  <2> QED
    BY <2>1, <2>2, PlaceUnique
<1>2. i \in Int /\ j \in Int
  BY OrderPlaces
<1>3. i < j \/ j < i
  BY <1>2
<1> QED
  BY <1>1, <1>3

\* A node that comes before another one is awaited first, or runs beside it.
LEMMA OrderBefore ==
  ASSUME plan \in Plans,
         NEW i \in 1..Len(Order(plan)), NEW j \in 1..Len(Order(plan)), i < j
  PROVE  \/ Order(plan)[i] \in Before(Order(plan)[j])
         \/ InParallel(plan, Order(plan)[i], Order(plan)[j])
<1> DEFINE n == Order(plan)[i]
           m == Order(plan)[j]
<1>1. PICK g, k, h, l : /\ At(plan, n, g, k) /\ At(plan, m, h, l)
                        /\ g \in Nat /\ h \in Nat /\ k \in Nat /\ l \in Nat
                        /\ g < h \/ (g = h /\ k < l)
  BY OrderPlaces
<1> HIDE DEF n, m
<1>2. n \in Nodes /\ m \in Nodes
  BY <1>1, PlaceOfNode DEF Nodes, NodesOf, Groups
<1>3. ASSUME NEW x, NEW f, NEW c, At(plan, x, f, c)
      PROVE  GroupOf(x) = f /\ Index(x) = c
  <2>1. \A d : d \in DOMAIN Groups /\ x \in ToSet(Groups[d].nodes) => d = f
    <3> TAKE d
    <3> HAVE d \in DOMAIN Groups /\ x \in ToSet(Groups[d].nodes)
    <3>1. PICK e \in DOMAIN Groups[d].nodes : Groups[d].nodes[e] = x
      BY DEF ToSet
    <3>2. At(plan, x, d, e)
      BY <3>1 DEF At, Groups
    <3> QED
      BY <1>3, <3>2, PlaceUnique
  <2>2. f \in DOMAIN Groups /\ x \in ToSet(Groups[f].nodes)
    BY <1>3 DEF At, ToSet, Groups
  <2>3. GroupOf(x) = f
    BY <2>1, <2>2 DEF GroupOf
  <2>4. \A e \in DOMAIN Groups[f].nodes : Groups[f].nodes[e] = x => e = c
    BY <1>3, PlaceUnique DEF At, Groups
  <2>5. c \in DOMAIN Groups[f].nodes /\ Groups[f].nodes[c] = x
    BY <1>3 DEF At, Groups
  <2>6. Index(x) = c
    BY <2>3, <2>4, <2>5 DEF Index
  <2> QED
    BY <2>3, <2>6
<1>4. GroupOf(n) = g /\ GroupOf(m) = h /\ Index(n) = k /\ Index(m) = l
  BY <1>1, <1>3
<1>5. CASE g < h
  BY <1>2, <1>4, <1>5 DEF Before, n, m
<1>6. CASE g = h /\ k < l /\ Groups[h].mode = "sequence"
  BY <1>2, <1>4, <1>6 DEF Before, n, m
<1>7. CASE g = h /\ Groups[h].mode # "sequence"
  <2>1. Groups[h].mode \in {"sequence", "parallel"} /\ h \in DOMAIN Groups
    <3>1. h \in DOMAIN plan.groups
      BY <1>1 DEF At
    <3>2. plan.groups \in Seq([mode : {"sequence", "parallel"}, nodes : Seq(DOMAIN plan.node)])
      BY PlanType
    <3> DEFINE R == [mode : {"sequence", "parallel"}, nodes : Seq(DOMAIN plan.node)]
    <3>3. \A r \in R : r.mode \in {"sequence", "parallel"}
      OBVIOUS
    <3>4. plan.groups \in Seq(R)
      BY <3>2
    <3> HIDE DEF R
    <3>5. plan.groups[h] \in R
      BY <3>1, <3>4
    <3> QED
      BY <3>1, <3>3, <3>5 DEF Groups
  <2>2. n \in ToSet(Groups[h].nodes) /\ m \in ToSet(Groups[h].nodes)
    BY <1>1, <1>7 DEF At, ToSet, Groups
  <2> QED
    BY <1>7, <2>1, <2>2 DEF InParallel, Groups, n, m
<1> QED
  BY <1>1, <1>5, <1>6, <1>7

-----------------------------------------------------------------------------
(* The data of the nodes run one after another.                            *)

\* f is the data after each of the first n nodes.
Follows(f, n, p, b, answers) ==
  f = [i \in 0..n |->
         IF i = 0 THEN b ELSE After(f[i - 1], p.node[Order(p)[i]], answers[Order(p)[i]])]

LEMMA FollowsExists ==
  ASSUME NEW p, NEW b, NEW answers, NEW n \in Nat
  PROVE  \E f : Follows(f, n, p, b, answers)
<1> DEFINE S == {k \in Nat : \E f : Follows(f, k, p, b, answers)}
           Next1(x, i) == After(x, p.node[Order(p)[i]], answers[Order(p)[i]])
<1>1. 0 \in S
  <2> DEFINE g == [i \in 0..0 |-> b]
  <2>1. \A f : g = [i \in 0..0 |-> IF i = 0 THEN b ELSE Next1(f[i - 1], i)]
    OBVIOUS
  <2>2. Follows(g, 0, p, b, answers)
    BY <2>1 DEF Follows
  <2> QED
    BY <2>2
<1>2. ASSUME NEW k \in Nat, k \in S PROVE k + 1 \in S
  <2>1. PICK f : Follows(f, k, p, b, answers)
    BY <1>2
  <2>2. f = [i \in 0..k |-> IF i = 0 THEN b ELSE Next1(f[i - 1], i)]
    BY <2>1 DEF Follows
  <2> HIDE DEF Next1
  <2> DEFINE g == [i \in 0..k + 1 |-> IF i = k + 1 THEN Next1(f[k], i) ELSE f[i]]
             h == [i \in 0..k + 1 |-> IF i = 0 THEN b ELSE Next1(g[i - 1], i)]
  <2>3. ASSUME NEW i \in 0..k + 1 PROVE g[i] = h[i]
    <3>1. CASE i = 0
      <4>1. g[i] = f[0] /\ h[i] = b
        BY <3>1
      <4>2. f[0] = b
        BY <2>2
      <4> QED
        BY <4>1, <4>2
    <3>2. CASE i # 0 /\ i # k + 1
      <4>1. i \in 0..k /\ i - 1 \in 0..k + 1 /\ i - 1 # k + 1
        BY <3>2
      <4>2. g[i - 1] = f[i - 1] /\ g[i] = f[i] /\ h[i] = Next1(g[i - 1], i)
        BY <3>2, <4>1
      <4>3. f[i] = Next1(f[i - 1], i)
        BY <2>2, <3>2, <4>1
      <4> HIDE DEF g, h
      <4> QED
        BY <4>2, <4>3
    <3>3. CASE i = k + 1
      <4>1. i - 1 = k /\ k \in 0..k + 1 /\ k # k + 1 /\ i # 0
        BY <3>3
      <4>2. g[k] = f[k] /\ g[i] = Next1(f[k], i) /\ h[i] = Next1(g[i - 1], i)
        BY <3>3, <4>1
      <4> HIDE DEF g, h
      <4> QED
        BY <4>1, <4>2
    <3> QED
      BY <3>1, <3>2, <3>3
  <2>4. g = h
    BY <2>3
  <2>5. Follows(g, k + 1, p, b, answers)
    <3> HIDE DEF g
    <3> QED
      BY <2>4 DEF Follows, Next1
  <2> QED
    BY <2>5
<1>3. Nat \subseteq S
  <2> HIDE DEF S
  <2> QED
    BY <1>1, <1>2, Induction
<1> QED
  BY <1>3

LEMMA OneByOneAt ==
  ASSUME NEW p \in Plans, NEW b, NEW answers
  PROVE  /\ OneByOne(p, b, answers)[0] = b
         /\ \A i \in 1..Len(Order(p)) :
               OneByOne(p, b, answers)[i]
                 = After(OneByOne(p, b, answers)[i - 1], p.node[Order(p)[i]], answers[Order(p)[i]])
<1> DEFINE L == Len(Order(p))
           s == OneByOne(p, b, answers)
           Next1(x, i) == After(x, p.node[Order(p)[i]], answers[Order(p)[i]])
<1>1. L \in Nat
  BY OrderPlaces
<1>2. Follows(s, L, p, b, answers)
  <2>1. \E f : Follows(f, L, p, b, answers)
    BY <1>1, FollowsExists
  <2>2. s = CHOOSE f : Follows(f, L, p, b, answers)
    BY DEF OneByOne, Follows
  <2> QED
    BY <2>1, <2>2
<1>3. s = [i \in 0..L |-> IF i = 0 THEN b ELSE Next1(s[i - 1], i)]
  BY <1>2 DEF Follows
<1> HIDE DEF s, L, Next1
<1>4. s[0] = b
  BY <1>1, <1>3
<1>5. \A i \in 1..L : s[i] = Next1(s[i - 1], i)
  <2> TAKE i \in 1..L
  <2>1. i \in 0..L /\ i # 0
    BY <1>1
  <2> QED
    BY <1>3, <2>1
<1> QED
  BY <1>4, <1>5 DEF s, L, Next1

\* f is the data that may be there after each of the first n nodes.
Spreads(f, n, p, late) ==
  f = [i \in 0..n |->
         IF i = 0 THEN Bases(p)
         ELSE AllAfter(f[i - 1], p.node[Order(p)[i]], late \cup Answered(p.node[Order(p)[i]]))]

LEMMA SpreadsExists ==
  ASSUME NEW p, NEW late, NEW n \in Nat
  PROVE  \E f : Spreads(f, n, p, late)
<1> DEFINE S == {k \in Nat : \E f : Spreads(f, k, p, late)}
           Next1(x, i) == AllAfter(x, p.node[Order(p)[i]], late \cup Answered(p.node[Order(p)[i]]))
<1>1. 0 \in S
  <2> DEFINE g == [i \in 0..0 |-> Bases(p)]
  <2>1. \A f : g = [i \in 0..0 |-> IF i = 0 THEN Bases(p) ELSE Next1(f[i - 1], i)]
    OBVIOUS
  <2>2. Spreads(g, 0, p, late)
    BY <2>1 DEF Spreads
  <2> QED
    BY <2>2
<1>2. ASSUME NEW k \in Nat, k \in S PROVE k + 1 \in S
  <2>1. PICK f : Spreads(f, k, p, late)
    BY <1>2
  <2>2. f = [i \in 0..k |-> IF i = 0 THEN Bases(p) ELSE Next1(f[i - 1], i)]
    BY <2>1 DEF Spreads
  <2> HIDE DEF Next1
  <2> DEFINE g == [i \in 0..k + 1 |-> IF i = k + 1 THEN Next1(f[k], i) ELSE f[i]]
             h == [i \in 0..k + 1 |-> IF i = 0 THEN Bases(p) ELSE Next1(g[i - 1], i)]
  <2>3. ASSUME NEW i \in 0..k + 1 PROVE g[i] = h[i]
    <3>1. CASE i = 0
      <4>1. g[i] = f[0] /\ h[i] = Bases(p)
        BY <3>1
      <4>2. f[0] = Bases(p)
        BY <2>2
      <4> QED
        BY <4>1, <4>2
    <3>2. CASE i # 0 /\ i # k + 1
      <4>1. i \in 0..k /\ i - 1 \in 0..k + 1 /\ i - 1 # k + 1
        BY <3>2
      <4>2. g[i - 1] = f[i - 1] /\ g[i] = f[i] /\ h[i] = Next1(g[i - 1], i)
        BY <3>2, <4>1
      <4>3. f[i] = Next1(f[i - 1], i)
        BY <2>2, <3>2, <4>1
      <4> HIDE DEF g, h
      <4> QED
        BY <4>2, <4>3
    <3>3. CASE i = k + 1
      <4>1. i - 1 = k /\ k \in 0..k + 1 /\ k # k + 1 /\ i # 0
        BY <3>3
      <4>2. g[k] = f[k] /\ g[i] = Next1(f[k], i) /\ h[i] = Next1(g[i - 1], i)
        BY <3>3, <4>1
      <4> HIDE DEF g, h
      <4> QED
        BY <4>1, <4>2
    <3> QED
      BY <3>1, <3>2, <3>3
  <2>4. g = h
    BY <2>3
  <2>5. Spreads(g, k + 1, p, late)
    <3> HIDE DEF g
    <3> QED
      BY <2>4 DEF Spreads, Next1
  <2> QED
    BY <2>5
<1>3. Nat \subseteq S
  <2> HIDE DEF S
  <2> QED
    BY <1>1, <1>2, Induction
<1> QED
  BY <1>3

LEMMA ReachAt ==
  ASSUME NEW p \in Plans, NEW late
  PROVE  /\ ReachWith(p, late)[0] = Bases(p)
         /\ \A i \in 1..Len(Order(p)) :
               ReachWith(p, late)[i]
                 = AllAfter(ReachWith(p, late)[i - 1], p.node[Order(p)[i]],
                            late \cup Answered(p.node[Order(p)[i]]))
<1> DEFINE L == Len(Order(p))
           s == ReachWith(p, late)
           Next1(x, i) == AllAfter(x, p.node[Order(p)[i]], late \cup Answered(p.node[Order(p)[i]]))
<1>1. L \in Nat
  BY OrderPlaces
<1>2. Spreads(s, L, p, late)
  <2>1. \E f : Spreads(f, L, p, late)
    BY <1>1, SpreadsExists
  <2>2. s = CHOOSE f : Spreads(f, L, p, late)
    BY DEF ReachWith, Spreads
  <2> QED
    BY <2>1, <2>2
<1>3. s = [i \in 0..L |-> IF i = 0 THEN Bases(p) ELSE Next1(s[i - 1], i)]
  BY <1>2 DEF Spreads
<1> HIDE DEF s, L, Next1
<1>4. s[0] = Bases(p)
  BY <1>1, <1>3
<1>5. \A i \in 1..L : s[i] = Next1(s[i - 1], i)
  <2> TAKE i \in 1..L
  <2>1. i \in 0..L /\ i # 0
    BY <1>1
  <2> QED
    BY <1>3, <2>1
<1> QED
  BY <1>4, <1>5 DEF s, L, Next1

\* What the nodes may leave one after another is in reach.
LEMMA InReach ==
  ASSUME NEW p \in Plans, NEW late, NEW b \in Bases(p), NEW answers,
         \A n \in ToSet(Order(p)) : answers[n] \in late \cup Answered(p.node[n])
  PROVE  \A i \in 0..Len(Order(p)) : OneByOne(p, b, answers)[i] \in ReachWith(p, late)[i]
<1> DEFINE L == Len(Order(p))
           s == OneByOne(p, b, answers)
           S == {i \in Nat : i \in 0..L => s[i] \in ReachWith(p, late)[i]}
<1>1. L \in Nat
  BY OrderPlaces
<1>2. 0 \in S
  BY OneByOneAt, ReachAt
<1>3. ASSUME NEW i \in Nat, i \in S PROVE i + 1 \in S
  <2>1. SUFFICES ASSUME i + 1 \in 0..L PROVE s[i + 1] \in ReachWith(p, late)[i + 1]
    OBVIOUS
  <2>2. i + 1 \in 1..L /\ i \in 0..L /\ (i + 1) - 1 = i
    BY <1>1, <2>1
  <2> DEFINE n == Order(p)[i + 1]
  <2>3. s[i + 1] = After(s[i], p.node[n], answers[n])
    <3>1. \A k \in 1..L : s[k] = After(s[k - 1], p.node[Order(p)[k]], answers[Order(p)[k]])
      BY OneByOneAt
    <3> HIDE DEF s, L
    <3> QED
      BY <2>2, <3>1
  <2>4. ReachWith(p, late)[i + 1]
          = AllAfter(ReachWith(p, late)[i], p.node[n], late \cup Answered(p.node[n]))
    <3>1. \A k \in 1..L :
             ReachWith(p, late)[k]
               = AllAfter(ReachWith(p, late)[k - 1], p.node[Order(p)[k]],
                          late \cup Answered(p.node[Order(p)[k]]))
      BY ReachAt
    <3> HIDE DEF L
    <3> QED
      BY <2>2, <3>1
  <2>5. n \in ToSet(Order(p))
    BY <2>2, OrderPlaces DEF ToSet
  <2>6. s[i] \in ReachWith(p, late)[i]
    BY <1>3, <2>2
  <2> HIDE DEF s, n
  <2> QED
    BY <2>3, <2>4, <2>5, <2>6 DEF AllAfter
<1>4. Nat \subseteq S
  <2> HIDE DEF S
  <2> QED
    BY <1>2, <1>3, Induction
<1> QED
  BY <1>1, <1>4

LEMMA Distinct == NoAnswer # Waiting /\ Null # Waiting /\ Null # NoAnswer
<1>1. NoAnswer.kind = "none" /\ Waiting.kind = "waiting" /\ Null.kind = "null"
  BY DEF NoAnswer, Waiting, Null
<1> QED
  BY <1>1

LEMMA AfterWaiting == ASSUME NEW v, NEW node PROVE After(v, node, Waiting) = v
BY DEF After

LEMMA AfterFetch ==
  ASSUME NEW v, NEW node, node.kind # "flatten"
  PROVE  /\ After(v, node, NoAnswer) = v
         /\ \A a : a # NoAnswer /\ a # Waiting => After(v, node, a) = Merging(v, a)
BY Distinct DEF After

\* Nodes none of which changes the data leave it as it was.
LEMMA OneByOneStays ==
  ASSUME NEW p \in Plans, NEW b, NEW answers,
         \A n \in ToSet(Order(p)) : After(b, p.node[n], answers[n]) = b
  PROVE  \A i \in 0..Len(Order(p)) : OneByOne(p, b, answers)[i] = b
<1> DEFINE L == Len(Order(p))
           s == OneByOne(p, b, answers)
           S == {i \in Nat : i \in 0..L => s[i] = b}
<1>1. L \in Nat
  BY OrderPlaces
<1>2. 0 \in S
  BY OneByOneAt
<1>3. ASSUME NEW i \in Nat, i \in S PROVE i + 1 \in S
  <2>1. SUFFICES ASSUME i + 1 \in 0..L PROVE s[i + 1] = b
    OBVIOUS
  <2>2. i + 1 \in 1..L /\ i \in 0..L /\ (i + 1) - 1 = i
    BY <1>1, <2>1
  <2>3. \A k \in 1..L : s[k] = After(s[k - 1], p.node[Order(p)[k]], answers[Order(p)[k]])
    BY OneByOneAt
  <2>4. Order(p)[i + 1] \in ToSet(Order(p))
    BY <2>2, OrderPlaces DEF ToSet
  <2>5. s[i] = b
    BY <1>3, <2>2
  <2> HIDE DEF s, L
  <2> QED
    BY <2>2, <2>3, <2>4, <2>5
<1>4. Nat \subseteq S
  <2> HIDE DEF S
  <2> QED
    BY <1>2, <1>3, Induction
<1> QED
  BY <1>1, <1>4

\* What became of the first nodes decides the data that they leave.
LEMMA OneByOneAgree ==
  ASSUME NEW p \in Plans, NEW b, NEW how, NEW how1, NEW i \in 0..Len(Order(p)),
         \A j \in 1..i : how1[Order(p)[j]] = how[Order(p)[j]]
  PROVE  \A j \in 0..i : OneByOne(p, b, how1)[j] = OneByOne(p, b, how)[j]
<1> DEFINE L == Len(Order(p))
           s == OneByOne(p, b, how)
           t == OneByOne(p, b, how1)
           S == {j \in Nat : j \in 0..i => t[j] = s[j]}
<1>1. L \in Nat /\ i \in Nat /\ i <= L
  BY OrderPlaces
<1>2. 0 \in S
  BY OneByOneAt
<1>3. ASSUME NEW j \in Nat, j \in S PROVE j + 1 \in S
  <2>1. SUFFICES ASSUME j + 1 \in 0..i PROVE t[j + 1] = s[j + 1]
    OBVIOUS
  <2>2. j + 1 \in 1..L /\ j + 1 \in 1..i /\ j \in 0..i /\ (j + 1) - 1 = j
    BY <1>1, <2>1
  <2>3. \A k \in 1..L : s[k] = After(s[k - 1], p.node[Order(p)[k]], how[Order(p)[k]])
    BY OneByOneAt
  <2>4. \A k \in 1..L : t[k] = After(t[k - 1], p.node[Order(p)[k]], how1[Order(p)[k]])
    BY OneByOneAt
  <2>5. t[j] = s[j]
    BY <1>3, <2>2
  <2> HIDE DEF s, t, L
  <2> QED
    BY <2>2, <2>3, <2>4, <2>5
<1>4. Nat \subseteq S
  <2> HIDE DEF S
  <2> QED
    BY <1>2, <1>3, Induction
<1> QED
  BY <1>1, <1>4

-----------------------------------------------------------------------------
(* A node that is waiting while later ones have gone on may as well come    *)
(* last: the heart of the argument.                                        *)

\* What is known of each node of p.
Known(p, how) == \A n \in ToSet(Order(p)) : how[n] \in Outcomes(p.node[n])

\* Whatever has gone on after the i-th node runs beside it.
Beside(p, how, i) ==
  \A j \in 1..Len(Order(p)) :
     i < j => how[Order(p)[j]] = Waiting \/ InParallel(p, Order(p)[i], Order(p)[j])

LEMMA StepAt ==
  ASSUME NEW p \in Plans, NEW b \in Bases(p), NEW how, Known(p, how),
         NEW j \in Nat, j + 1 \in 1..Len(Order(p))
  PROVE  /\ OneByOne(p, b, how)[j + 1]
              = After(OneByOne(p, b, how)[j], p.node[Order(p)[j + 1]], how[Order(p)[j + 1]])
         /\ OneByOne(p, b, how)[j] \in Reach(p)[j]
         /\ how[Order(p)[j + 1]] \in Outcomes(p.node[Order(p)[j + 1]])
<1>1. Len(Order(p)) \in Nat
  BY OrderPlaces
<1>2. (j + 1) - 1 = j /\ j \in 0..Len(Order(p))
  BY <1>1
<1>3. OneByOne(p, b, how)[j + 1]
        = After(OneByOne(p, b, how)[j], p.node[Order(p)[j + 1]], how[Order(p)[j + 1]])
  BY <1>2, OneByOneAt
<1>4. \A n \in ToSet(Order(p)) : how[n] \in {Waiting} \cup Answered(p.node[n])
  BY DEF Known, Outcomes
<1>5. OneByOne(p, b, how)[j] \in Reach(p)[j]
  BY <1>2, <1>4, InReach DEF Reach
<1>6. Order(p)[j + 1] \in ToSet(Order(p))
  BY OrderPlaces DEF ToSet
<1> QED
  BY <1>3, <1>5, <1>6 DEF Known

\* Two nodes that run at once, of which m comes later.
LEMMA Commute ==
  ASSUME NEW p \in Plans, Independent(p),
         NEW i \in 1..Len(Order(p)), NEW j \in 1..Len(Order(p)), i < j,
         InParallel(p, Order(p)[i], Order(p)[j]),
         NEW x \in Reach(p)[j - 1],
         NEW a \in Outcomes(p.node[Order(p)[i]]), NEW c \in Outcomes(p.node[Order(p)[j]])
  PROVE  LET n == p.node[Order(p)[i]]
             m == p.node[Order(p)[j]]
         IN /\ After(After(x, n, a), m, c) = After(After(x, m, c), n, a)
            /\ n.kind = "flatten" => Reps(After(x, m, c), n) = Reps(x, n)
            /\ m.kind = "flatten" => Reps(After(x, n, a), m) = Reps(x, m)
<1>1. i \in DOMAIN Order(p) /\ j \in DOMAIN Order(p)
  BY OrderPlaces
<1> QED
  BY <1>1 DEF Independent

\* how1 says of the i-th node what has become of it, how that it is waiting.
LEMMA MovedBehind ==
  ASSUME NEW p \in Plans, Independent(p), NEW b \in Bases(p),
         NEW how, NEW how1, Known(p, how), Known(p, how1),
         NEW i \in 1..Len(Order(p)), how[Order(p)[i]] = Waiting, Beside(p, how, i),
         \A j \in 1..Len(Order(p)) : j # i => how1[Order(p)[j]] = how[Order(p)[j]]
  PROVE  /\ \A j \in 0..i - 1 : OneByOne(p, b, how1)[j] = OneByOne(p, b, how)[j]
         /\ \A j \in i..Len(Order(p)) :
               OneByOne(p, b, how1)[j]
                 = After(OneByOne(p, b, how)[j], p.node[Order(p)[i]], how1[Order(p)[i]])
<1> DEFINE L == Len(Order(p))
           O == Order(p)
           s == OneByOne(p, b, how)
           t == OneByOne(p, b, how1)
           node == p.node[O[i]]
           a == how1[O[i]]
           S == {j \in Nat : j \in i..L => t[j] = After(s[j], node, a)}
<1>1. L \in Nat /\ i \in Nat /\ i - 1 \in Nat /\ i - 1 \in 0..L /\ (i - 1) + 1 = i
  BY OrderPlaces
<1>2. \A j \in 0..i - 1 : t[j] = s[j]
  <2>1. \A j \in 1..i - 1 : how1[O[j]] = how[O[j]]
    <3>1. \A j \in 1..i - 1 : j \in 1..L /\ j # i
      BY <1>1
    <3> QED
      BY <3>1
  <2> QED
    BY <1>1, <2>1, OneByOneAgree
<1>3. t[i] = After(s[i], node, a)
  <2>1. s[i] = After(s[i - 1], node, Waiting)
    BY <1>1, OneByOneAt
  <2>2. t[i] = After(t[i - 1], node, a)
    BY <1>1, OneByOneAt
  <2>3. t[i - 1] = s[i - 1]
    <3>1. i - 1 \in 0..i - 1
      BY <1>1
    <3> QED
      BY <1>2, <3>1
  <2> HIDE DEF s, t, node, a
  <2> QED
    BY <2>1, <2>2, <2>3, AfterWaiting
<1>4. 0 \in S
  BY <1>1
<1>5. ASSUME NEW j \in Nat, j \in S PROVE j + 1 \in S
  <2>1. SUFFICES ASSUME j + 1 \in i..L PROVE t[j + 1] = After(s[j + 1], node, a)
    OBVIOUS
  <2>2. CASE j + 1 = i
    BY <1>3, <2>2
  <2>3. CASE j + 1 # i
    <3>1. j \in i..L /\ j + 1 \in 1..L /\ i < j + 1 /\ (j + 1) - 1 = j
      BY <1>1, <2>1, <2>3
    <3>2. t[j] = After(s[j], node, a)
      BY <1>5, <3>1
    <3> DEFINE m == p.node[O[j + 1]]
               c == how[O[j + 1]]
    <3>3. s[j + 1] = After(s[j], m, c) /\ s[j] \in Reach(p)[j] /\ c \in Outcomes(m)
      BY <3>1, StepAt
    <3>4. t[j + 1] = After(t[j], m, c)
      <4>1. t[j + 1] = After(t[j], m, how1[O[j + 1]])
        BY <3>1, StepAt
      <4>2. how1[O[j + 1]] = c
        BY <3>1
      <4> QED
        BY <4>1, <4>2
    <3>5. CASE c = Waiting
      <4> HIDE DEF s, t, m, c, node, a
      <4> QED
        BY <3>2, <3>3, <3>4, <3>5, AfterWaiting
    <3>6. CASE c # Waiting
      <4>1. InParallel(p, O[i], O[j + 1])
        BY <3>1, <3>6 DEF Beside
      <4>2. a \in Outcomes(node)
        <5>1. O[i] \in ToSet(O)
          BY OrderPlaces DEF ToSet
        <5> QED
          BY <5>1 DEF Known
      <4>3. After(After(s[j], node, a), m, c) = After(After(s[j], m, c), node, a)
        <5>1. s[j] \in Reach(p)[(j + 1) - 1] /\ j + 1 \in 1..L /\ i \in 1..L /\ i < j + 1
          BY <3>1, <3>3
        <5>2. c \in Outcomes(m)
          BY <3>3
        <5> HIDE DEF s, a, c
        <5> QED
          BY <4>1, <4>2, <5>1, <5>2, Commute
      <4> HIDE DEF s, t, m, c, node, a
      <4> QED
        BY <3>2, <3>3, <3>4, <4>3
    <3> QED
      BY <3>5, <3>6
  <2> QED
    BY <2>2, <2>3
<1>6. Nat \subseteq S
  <2> HIDE DEF S
  <2> QED
    BY <1>4, <1>5, Induction
<1>7. \A j \in i..L : t[j] = After(s[j], node, a)
  <2>1. \A j \in i..L : j \in Nat
    BY <1>1
  <2> QED
    BY <1>6, <2>1
<1> QED
  BY <1>2, <1>7

\* The nodes that have gone on leave the waiting one its entities.
LEMMA FindsTheSame ==
  ASSUME NEW p \in Plans, Independent(p), NEW b \in Bases(p), NEW how, Known(p, how),
         NEW i \in 1..Len(Order(p)), how[Order(p)[i]] = Waiting, Beside(p, how, i),
         p.node[Order(p)[i]].kind = "flatten"
  PROVE  Reps(OneByOne(p, b, how)[Len(Order(p))], p.node[Order(p)[i]])
           = Reps(OneByOne(p, b, how)[i - 1], p.node[Order(p)[i]])
<1> DEFINE L == Len(Order(p))
           O == Order(p)
           s == OneByOne(p, b, how)
           node == p.node[O[i]]
           S == {j \in Nat : j \in i - 1..L => Reps(s[j], node) = Reps(s[i - 1], node)}
<1>1. L \in Nat /\ i \in Nat /\ i - 1 \in Nat /\ (i - 1) + 1 = i /\ i <= L
  BY OrderPlaces
<1>2. 0 \in S
  BY <1>1
<1>3. ASSUME NEW j \in Nat, j \in S PROVE j + 1 \in S
  <2>1. SUFFICES ASSUME j + 1 \in i - 1..L, j + 1 # i - 1
                 PROVE  Reps(s[j + 1], node) = Reps(s[i - 1], node)
    OBVIOUS
  <2>2. j \in i - 1..L /\ j + 1 \in 1..L /\ i <= j + 1 /\ (j + 1) - 1 = j
    BY <1>1, <2>1
  <2>3. Reps(s[j], node) = Reps(s[i - 1], node)
    BY <1>3, <2>2
  <2> DEFINE m == p.node[O[j + 1]]
             c == how[O[j + 1]]
  <2>4. s[j + 1] = After(s[j], m, c) /\ s[j] \in Reach(p)[j] /\ c \in Outcomes(m)
    BY <2>2, StepAt
  <2>5. CASE c = Waiting
    <3> HIDE DEF s, m, c, node
    <3> QED
      BY <2>3, <2>4, <2>5, AfterWaiting
  <2>6. CASE c # Waiting
    <3>1. i < j + 1
      BY <1>1, <2>2, <2>6
    <3>2. InParallel(p, O[i], O[j + 1])
      BY <2>2, <2>6, <3>1 DEF Beside
    <3>3. Waiting \in Outcomes(node)
      BY DEF Outcomes
    <3>4. Reps(After(s[j], m, c), node) = Reps(s[j], node)
      <4>1. s[j] \in Reach(p)[(j + 1) - 1] /\ j + 1 \in 1..L /\ i \in 1..L
        BY <2>2, <2>4
      <4>2. c \in Outcomes(m)
        BY <2>4
      <4> HIDE DEF s, c
      <4> QED
        BY <3>1, <3>2, <3>3, <4>1, <4>2, Commute
    <3> HIDE DEF s, m, c, node
    <3> QED
      BY <2>3, <2>4, <3>4
  <2> QED
    BY <2>5, <2>6
<1>4. Nat \subseteq S
  <2> HIDE DEF S
  <2> QED
    BY <1>2, <1>3, Induction
<1>5. L \in Nat /\ L \in i - 1..L
  BY <1>1
<1> QED
  BY <1>4, <1>5

\* What becomes of the waiting node leaves the others their entities.
LEMMA LeavesTheirs ==
  ASSUME NEW p \in Plans, Independent(p), NEW b \in Bases(p),
         NEW how, NEW how1, Known(p, how), Known(p, how1),
         NEW i \in 1..Len(Order(p)), how[Order(p)[i]] = Waiting, Beside(p, how, i),
         \A j \in 1..Len(Order(p)) : j # i => how1[Order(p)[j]] = how[Order(p)[j]],
         NEW j \in 1..Len(Order(p)), j # i, how[Order(p)[j]] # Waiting,
         p.node[Order(p)[j]].kind = "flatten"
  PROVE  Reps(OneByOne(p, b, how1)[j - 1], p.node[Order(p)[j]])
           = Reps(OneByOne(p, b, how)[j - 1], p.node[Order(p)[j]])
<1> DEFINE L == Len(Order(p))
           O == Order(p)
           s == OneByOne(p, b, how)
           t == OneByOne(p, b, how1)
<1>1. L \in Nat /\ i \in Nat /\ j \in Nat /\ j - 1 \in Nat /\ (j - 1) + 1 = j
  BY OrderPlaces
<1>2. CASE j < i
  <2>1. j - 1 \in 0..i - 1
    BY <1>1, <1>2
  <2>2. t[j - 1] = s[j - 1]
    BY <2>1, MovedBehind
  <2> QED
    BY <2>2
<1>3. CASE i < j
  <2>1. j - 1 \in i..L
    BY <1>1, <1>3
  <2>2. t[j - 1] = After(s[j - 1], p.node[O[i]], how1[O[i]])
    BY <2>1, MovedBehind
  <2>3. s[j - 1] \in Reach(p)[j - 1] /\ how[O[j]] \in Outcomes(p.node[O[j]])
    BY <1>1, StepAt
  <2>4. InParallel(p, O[i], O[j])
    BY <1>3 DEF Beside
  <2>5. how1[O[i]] \in Outcomes(p.node[O[i]])
    <3>1. O[i] \in ToSet(O)
      BY OrderPlaces DEF ToSet
    <3> QED
      BY <3>1 DEF Known
  <2>6. Reps(After(s[j - 1], p.node[O[i]], how1[O[i]]), p.node[O[j]]) = Reps(s[j - 1], p.node[O[j]])
    <3> HIDE DEF s
    <3> QED
      BY <1>3, <2>3, <2>4, <2>5, Commute
  <2> QED
    BY <2>2, <2>6
<1> QED
  BY <1>1, <1>2, <1>3

-----------------------------------------------------------------------------
(* Types.                                                                  *)

TInv ==
  /\ TypeOK
  /\ asked = [n \in Nodes |-> asked[n]]
  /\ result = [n \in Nodes |-> result[n]]

LEMMA TypeInit == Init => TInv
<1> SUFFICES ASSUME Init PROVE TInv
  OBVIOUS
<1> USE DEF Init
<1>1. plan \in Plans /\ errors \in Seq(Nodes) /\ pushes \in 0..MaxPushes
  BY BoundAssumption
<1>2. state \in [Nodes -> {"waiting", "asked", "done"}]
  OBVIOUS
<1>3. \A n \in Nodes : asked[n] = <<>> /\ state[n] # "asked"
  OBVIOUS
<1>4. asked = [n \in Nodes |-> asked[n]] /\ result = [n \in Nodes |-> result[n]]
  OBVIOUS
<1> QED
  BY <1>1, <1>2, <1>3, <1>4 DEF TInv, TypeOK

\* Where a step of one node may leave the types.
LEMMA TypeOfStep ==
  ASSUME TInv, plan' = plan, pushes' = pushes, NEW n \in Nodes,
         errors' \in Seq(Nodes), NEW st \in {"waiting", "asked", "done"},
         state' = [state EXCEPT ![n] = st],
         NEW reps, asked' = [asked EXCEPT ![n] = reps] \/ (asked' = asked /\ reps = asked[n]),
         reps # <<>> <=> Node[n].kind = "flatten" /\ st = "asked",
         result' = result \/ \E a : result' = [result EXCEPT ![n] = a]
  PROVE  TInv'
<1>1. Nodes' = Nodes /\ Node' = Node
  BY DEF Nodes, Groups, Node
<1>2. TypeOK /\ asked = [m \in Nodes |-> asked[m]] /\ result = [m \in Nodes |-> result[m]]
  BY DEF TInv
<1>3. \A m \in Nodes : /\ asked'[m] = IF m = n THEN reps ELSE asked[m]
                       /\ state'[m] = IF m = n THEN st ELSE state[m]
  BY <1>2 DEF TypeOK
<1>4. asked' = [m \in Nodes |-> asked'[m]] /\ result' = [m \in Nodes |-> result'[m]]
  BY <1>2
<1>5. state' \in [Nodes -> {"waiting", "asked", "done"}]
  BY <1>2 DEF TypeOK
<1>6. \A m \in Nodes : asked'[m] # <<>> <=> Node[m].kind = "flatten" /\ state'[m] = "asked"
  BY <1>2, <1>3 DEF TypeOK
<1>7. plan' \in Plans /\ pushes' \in 0..MaxPushes
  BY <1>2 DEF TypeOK
<1> QED
  BY <1>1, <1>4, <1>5, <1>6, <1>7 DEF TInv, TypeOK

LEMMA TypeStep == TInv /\ [Next]_vars => TInv'
<1> SUFFICES ASSUME TInv, [Next]_vars PROVE TInv'
  OBVIOUS
<1>1. ASSUME UNCHANGED vars PROVE TInv'
  <2>1. /\ plan' = plan /\ errors' = errors /\ state' = state /\ asked' = asked
        /\ result' = result /\ pushes' = pushes
    BY <1>1 DEF vars
  <2>2. Nodes' = Nodes /\ Node' = Node
    BY <2>1 DEF Nodes, Groups, Node
  <2> QED
    BY <2>1, <2>2 DEF TInv, TypeOK
<1>2. errors \in Seq(Nodes)
  BY DEF TInv, TypeOK
<1>3. ASSUME NEW n \in Nodes, Introspect(n) PROVE TInv'
  <2>1. PICK v : Done(n, v)
    BY <1>3 DEF Introspect
  <2>2. "done" \in {"waiting", "asked", "done"}
    OBVIOUS
  <2> QED
    BY <1>2, <1>3, <2>1, <2>2, TypeOfStep DEF Introspect, Done
<1>4. ASSUME NEW n \in Nodes, StartFetch(n) PROVE TInv'
  <2>1. asked[n] = <<>>
    BY <1>4 DEF StartFetch, Turn, TInv, TypeOK
  <2> QED
    BY <1>2, <1>4, <2>1, TypeOfStep DEF StartFetch, Turn
<1>5. ASSUME NEW n \in Nodes, StartFlatten(n) PROVE TInv'
  <2> DEFINE r == Representing(data, Node[n].path, Node[n].prefix)
  <2>1. CASE r.reps = <<>>
    <3>1. Done(n, NoAnswer) /\ errors' = errors /\ plan' = plan /\ pushes' = pushes
      BY <1>5, <2>1 DEF StartFlatten
    <3> HIDE DEF r
    <3> QED
      BY <1>2, <3>1, TypeOfStep DEF Done
  <2>2. CASE r.reps # <<>>
    <3>1. /\ asked' = [asked EXCEPT ![n] = r.reps] /\ state' = [state EXCEPT ![n] = "asked"]
          /\ errors' = errors /\ plan' = plan /\ pushes' = pushes /\ result' = result
          /\ Node[n].kind = "flatten"
      BY <1>5, <2>2 DEF StartFlatten, Turn
    <3> HIDE DEF r
    <3> QED
      BY <1>2, <2>2, <3>1, TypeOfStep
  <2> QED
    BY <2>1, <2>2
<1>6. ASSUME NEW n \in Nodes, FetchAnswered(n) PROVE TInv'
  <2>1. PICK v : Done(n, v)
    BY <1>6 DEF FetchAnswered
  <2> QED
    BY <1>2, <1>6, <2>1, TypeOfStep DEF FetchAnswered, Done
<1>7. ASSUME NEW n \in Nodes, FetchFailed(n) PROVE TInv'
  <2>1. errors' \in Seq(Nodes)
    BY <1>2, <1>7 DEF FetchFailed
  <2> QED
    BY <1>7, <2>1, TypeOfStep DEF FetchFailed, Done
<1>8. ASSUME NEW n \in Nodes, FlattenAnswered(n) PROVE TInv'
  BY <1>2, <1>8, TypeOfStep DEF FlattenAnswered, Done
<1>9. ASSUME NEW n \in Nodes, FlattenIgnored(n) PROVE TInv'
  BY <1>2, <1>9, TypeOfStep DEF FlattenIgnored, Done
<1>10. ASSUME Push PROVE TInv'
  <2>1. Nodes' = Nodes /\ Node' = Node /\ plan' = plan
    BY <1>10 DEF Push, Nodes, Groups, Node
  <2>2. /\ errors' = <<>> /\ state' = [n \in Nodes |-> "waiting"]
        /\ asked' = [n \in Nodes |-> <<>>] /\ result' = [n \in Nodes |-> NoAnswer]
        /\ pushes' = pushes + 1 /\ pushes < MaxPushes
    BY <1>10 DEF Push
  <2>3. plan' \in Plans /\ pushes' \in 0..MaxPushes
    BY <2>1, <2>2, BoundAssumption DEF TInv, TypeOK
  <2> QED
    BY <2>1, <2>2, <2>3 DEF TInv, TypeOK
<1> QED
  BY <1>1, <1>3, <1>4, <1>5, <1>6, <1>7, <1>8, <1>9, <1>10 DEF Next, Run, Answer

\* Every node has one state, keys are kept for the flatten nodes that are fetching
\* and for no other, and whatever made an error is a node of the plan.
THEOREM TypeCorrect == Spec => []TypeOK
<1>1. Spec => []TInv
  BY TypeInit, TypeStep, PTL DEF Spec
<1>2. TInv => TypeOK
  BY DEF TInv
<1> QED
  BY <1>1, <1>2, PTL

-----------------------------------------------------------------------------
(* The data is at any time that of the nodes run one after another, those   *)
(* that have not been started left out.                                    *)

\* What became of each node so far.
Hows == [n \in Nodes |-> IF state[n] = "waiting" THEN Waiting ELSE result[n]]

SoFar == OneByOne(plan, base, Hows)

\* A node has not been started before those that it comes after are done.
InOrder == \A n \in Nodes : state[n] # "waiting" => \A m \in Before(n) : state[m] = "done"

Results ==
  \A n \in Nodes : /\ result[n] \in Answered(Node[n])
                   /\ state[n] # "done" => result[n] = NoAnswer

\* A flatten node that fetches has the entities it would have found alone.
AskedSoFar ==
  \A i \in 1..Len(Order(plan)) :
    LET n == Order(plan)[i]
    IN  Node[n].kind = "flatten" /\ state[n] = "asked" => asked[n] = Reps(SoFar[i - 1], Node[n])

IInv ==
  /\ TInv
  /\ InOrder
  /\ Results
  /\ base \in Bases(plan)
  /\ data = SoFar[Len(Order(plan))]
  /\ AskedSoFar

LEMMA NodesInOrder ==
  ASSUME plan \in Plans
  PROVE  /\ Nodes = ToSet(Order(plan))
         /\ \A n \in Nodes : \E i \in 1..Len(Order(plan)) : Order(plan)[i] = n
         /\ \A i \in 1..Len(Order(plan)) : Order(plan)[i] \in Nodes
         /\ \A n \in Nodes : n \in DOMAIN plan.node
<1>1. Nodes = ToSet(Order(plan))
  BY OrderPlaces DEF Nodes, NodesOf, Groups
<1>2. Order(plan) \in Seq(DOMAIN plan.node)
  BY OrderPlaces
<1> QED
  BY <1>1, <1>2 DEF ToSet

\* What may be said of n, whose turn it is or that is being waited for: it might
\* as well be the last one that goes on.
LEMMA MightComeLast ==
  ASSUME IInv, Independent(plan), NEW n \in Nodes, state[n] # "done",
         NEW how1, how1[n] \in Outcomes(Node[n]), \A m \in Nodes : m # n => how1[m] = Hows[m]
  PROVE  \E x \in Reach(plan)[Len(Order(plan))] :
           /\ data = After(x, Node[n], Hows[n])
           /\ OneByOne(plan, base, how1)[Len(Order(plan))] = After(x, Node[n], how1[n])
           /\ Node[n].kind = "flatten" /\ state[n] = "asked" => asked[n] = Reps(x, Node[n])
           /\ \A j \in 1..Len(Order(plan)) :
                LET m == Order(plan)[j]
                IN  Node[m].kind = "flatten" =>
                      /\ m = n => Reps(OneByOne(plan, base, how1)[j - 1], Node[m]) = Reps(x, Node[m])
                      /\ m # n /\ state[m] = "asked" =>
                            asked[m] = Reps(OneByOne(plan, base, how1)[j - 1], Node[m])
<1> DEFINE O == Order(plan)
           L == Len(O)
           how0 == [m \in Nodes |-> IF m = n THEN Waiting ELSE Hows[m]]
           s == OneByOne(plan, base, how0)
           x == s[L]
<1>1. plan \in Plans /\ base \in Bases(plan) /\ L \in Nat /\ Node = plan.node
  BY OrderPlaces DEF IInv, TInv, TypeOK, Node
<1>2. PICK i \in 1..L : O[i] = n
  BY <1>1, NodesInOrder
<1>3. \A m \in Nodes : Hows[m] \in Outcomes(Node[m])
  BY DEF IInv, Results, Hows, Outcomes
<1>4. Known(plan, how0) /\ Known(plan, how1) /\ Known(plan, Hows)
  <2>1. Nodes = ToSet(O)
    BY <1>1, NodesInOrder
  <2>2. \A m \in Nodes : how0[m] \in Outcomes(Node[m])
    BY <1>3 DEF Outcomes
  <2>3. \A m \in Nodes : how1[m] \in Outcomes(Node[m])
    BY <1>3
  <2> QED
    BY <1>1, <1>3, <2>1, <2>2, <2>3 DEF Known
<1>5. how0[O[i]] = Waiting
  BY <1>2
<1>6. \A j \in 1..L : j # i => /\ O[j] \in Nodes /\ O[j] # n
                               /\ how1[O[j]] = how0[O[j]] /\ Hows[O[j]] = how0[O[j]]
  <2> TAKE j \in 1..L
  <2> HAVE j # i
  <2>1. O[j] \in Nodes
    BY <1>1, NodesInOrder
  <2>2. O[j] # n
    BY <1>1, <1>2, OrderOnce
  <2> QED
    BY <2>1, <2>2
<1>7. Beside(plan, how0, i)
  <2>1. ASSUME NEW j \in 1..L, i < j
        PROVE  how0[O[j]] = Waiting \/ InParallel(plan, O[i], O[j])
    <3>1. j # i
      BY <1>1, <2>1
    <3>2. CASE state[O[j]] = "waiting"
      BY <1>6, <3>1, <3>2 DEF Hows
    <3>3. CASE state[O[j]] # "waiting"
      <4>1. O[i] \notin Before(O[j])
        <5>1. \A m \in Before(O[j]) : state[m] = "done"
          BY <1>6, <3>1, <3>3 DEF IInv, InOrder
        <5> QED
          BY <1>2, <5>1
      <4> QED
        BY <1>1, <2>1, <4>1, OrderBefore
    <3> QED
      BY <3>2, <3>3
  <2> QED
    BY <2>1 DEF Beside
<1> HIDE DEF how0
<1>8. x \in Reach(plan)[L]
  <2>1. \A m \in ToSet(O) : how0[m] \in {Waiting} \cup Answered(plan.node[m])
    BY <1>4 DEF Known, Outcomes
  <2>2. L \in 0..L
    BY <1>1
  <2> QED
    BY <1>1, <2>1, <2>2, InReach DEF Reach
<1>9. L \in i..L
  BY <1>1
<1>10. data = After(x, Node[n], Hows[n])
  <2>1. SoFar[L] = After(x, Node[n], Hows[n])
    BY <1>1, <1>2, <1>4, <1>5, <1>6, <1>7, <1>9, MovedBehind DEF SoFar
  <2> QED
    BY <2>1 DEF IInv
<1>11. OneByOne(plan, base, how1)[L] = After(x, Node[n], how1[n])
  BY <1>1, <1>2, <1>4, <1>5, <1>6, <1>7, <1>9, MovedBehind
<1>12. ASSUME Node[n].kind = "flatten"
       PROVE  /\ Reps(x, Node[n]) = Reps(SoFar[i - 1], Node[n])
              /\ Reps(x, Node[n]) = Reps(OneByOne(plan, base, how1)[i - 1], Node[n])
  <2>1. Reps(x, Node[n]) = Reps(s[i - 1], Node[n])
    BY <1>1, <1>2, <1>4, <1>5, <1>7, <1>12, FindsTheSame
  <2>2. i - 1 \in 0..i - 1
    BY <1>1
  <2>3. SoFar[i - 1] = s[i - 1]
    BY <1>1, <1>4, <1>5, <1>6, <1>7, <2>2, MovedBehind DEF SoFar
  <2>4. OneByOne(plan, base, how1)[i - 1] = s[i - 1]
    BY <1>1, <1>4, <1>5, <1>6, <1>7, <2>2, MovedBehind
  <2> QED
    BY <2>1, <2>3, <2>4
<1>13. Node[n].kind = "flatten" /\ state[n] = "asked" => asked[n] = Reps(x, Node[n])
  BY <1>2, <1>12 DEF IInv, AskedSoFar
<1>14. ASSUME NEW j \in 1..L, Node[O[j]].kind = "flatten", O[j] # n, state[O[j]] = "asked"
       PROVE  asked[O[j]] = Reps(OneByOne(plan, base, how1)[j - 1], Node[O[j]])
  <2>1. j # i
    BY <1>2, <1>14
  <2>2. how0[O[j]] # Waiting
    <3>1. Hows[O[j]] = NoAnswer
      BY <1>6, <1>14, <2>1 DEF IInv, Results, Hows
    <3> QED
      BY <1>6, <2>1, <3>1, Distinct
  <2>3. asked[O[j]] = Reps(SoFar[j - 1], Node[O[j]])
    BY <1>14 DEF IInv, AskedSoFar
  <2>4. Reps(SoFar[j - 1], Node[O[j]]) = Reps(s[j - 1], Node[O[j]])
    BY <1>1, <1>4, <1>5, <1>6, <1>7, <1>14, <2>1, <2>2, LeavesTheirs DEF SoFar
  <2>5. Reps(OneByOne(plan, base, how1)[j - 1], Node[O[j]]) = Reps(s[j - 1], Node[O[j]])
    BY <1>1, <1>4, <1>5, <1>6, <1>7, <1>14, <2>1, <2>2, LeavesTheirs
  <2> QED
    BY <2>3, <2>4, <2>5
<1>15. ASSUME NEW j \in 1..L, O[j] = n PROVE j = i
  BY <1>6, <1>15
<1> HIDE DEF s, O, L
<1> QED
  BY <1>8, <1>10, <1>11, <1>12, <1>13, <1>14, <1>15 DEF O, L

\* A step of n keeps the invariant when it does to the data what n would do last.
LEMMA NodeStep ==
  ASSUME IInv, TInv', Independent(plan), plan' = plan, base' = base,
         NEW n \in Nodes, state[n] # "done", \A m \in Before(n) : state[m] = "done",
         NEW a \in Answered(Node[n]), NEW st \in {"asked", "done"}, st = "asked" => a = NoAnswer,
         \A m \in Nodes : /\ state'[m] = IF m = n THEN st ELSE state[m]
                          /\ result'[m] = IF m = n THEN a ELSE result[m]
                          /\ m # n => asked'[m] = asked[m],
         \A x \in Reach(plan)[Len(Order(plan))] :
            /\ data = After(x, Node[n], Hows[n])
            /\ Node[n].kind = "flatten" /\ state[n] = "asked" => asked[n] = Reps(x, Node[n])
            => /\ data' = After(x, Node[n], a)
               /\ Node[n].kind = "flatten" /\ st = "asked" => asked'[n] = Reps(x, Node[n])
  PROVE  IInv'
<1> DEFINE O == Order(plan)
           L == Len(O)
<1>1. plan \in Plans /\ Nodes' = Nodes /\ Node' = Node
  BY DEF IInv, TInv, TypeOK, Nodes, Groups, Node
<1>2. \A m \in Nodes : Hows'[m] = IF m = n THEN a ELSE Hows[m]
  <2>1. Hows' = [m \in Nodes |-> IF state'[m] = "waiting" THEN Waiting ELSE result'[m]]
    BY <1>1 DEF Hows
  <2> QED
    BY <2>1 DEF Hows
<1>3. Hows'[n] = a /\ Hows'[n] \in Outcomes(Node[n]) /\ \A m \in Nodes : m # n => Hows'[m] = Hows[m]
  BY <1>2 DEF Outcomes
<1>4. PICK x \in Reach(plan)[L] :
        /\ data = After(x, Node[n], Hows[n])
        /\ OneByOne(plan, base, Hows')[L] = After(x, Node[n], Hows'[n])
        /\ Node[n].kind = "flatten" /\ state[n] = "asked" => asked[n] = Reps(x, Node[n])
        /\ \A j \in 1..L :
             LET m == O[j]
             IN  Node[m].kind = "flatten" =>
                   /\ m = n => Reps(OneByOne(plan, base, Hows')[j - 1], Node[m]) = Reps(x, Node[m])
                   /\ m # n /\ state[m] = "asked" =>
                         asked[m] = Reps(OneByOne(plan, base, Hows')[j - 1], Node[m])
  BY <1>3, MightComeLast
<1>5. SoFar' = OneByOne(plan, base, Hows')
  BY DEF SoFar
<1>6. data' = SoFar'[L]
  BY <1>3, <1>4, <1>5
<1>7. AskedSoFar'
  <2>1. ASSUME NEW j \in 1..L, Node[O[j]].kind = "flatten", state'[O[j]] = "asked"
        PROVE  asked'[O[j]] = Reps(SoFar'[j - 1], Node[O[j]])
    <3>1. O[j] \in Nodes
      BY <1>1, NodesInOrder
    <3>2. CASE O[j] = n
      <4>1. st = "asked"
        BY <2>1, <3>1, <3>2
      <4>2. asked'[n] = Reps(x, Node[n])
        BY <1>4, <2>1, <3>2, <4>1
      <4>3. Reps(OneByOne(plan, base, Hows')[j - 1], Node[n]) = Reps(x, Node[n])
        BY <1>4, <2>1, <3>2
      <4> QED
        BY <1>5, <3>2, <4>2, <4>3
    <3>3. CASE O[j] # n
      <4>1. state[O[j]] = "asked" /\ asked'[O[j]] = asked[O[j]]
        BY <2>1, <3>1, <3>3
      <4>2. asked[O[j]] = Reps(OneByOne(plan, base, Hows')[j - 1], Node[O[j]])
        BY <1>4, <2>1, <3>3, <4>1
      <4> QED
        BY <1>5, <4>1, <4>2
    <3> QED
      BY <3>2, <3>3
  <2> QED
    BY <1>1, <2>1 DEF AskedSoFar
<1>8. Results'
  <2>1. \A m \in Nodes : /\ result'[m] \in Answered(Node[m])
                         /\ state'[m] # "done" => result'[m] = NoAnswer
    BY DEF IInv, Results
  <2> QED
    BY <1>1, <2>1 DEF Results
<1>9. InOrder'
  <2>1. \A m \in Nodes : Before(m)' = Before(m) /\ Before(m) \subseteq Nodes
    BY <1>1 DEF Before, GroupOf, Index, Groups
  <2>2. ASSUME NEW m \in Nodes, state'[m] # "waiting", NEW k \in Before(m)
        PROVE  state'[k] = "done"
    <3>1. k \in Nodes
      BY <2>1, <2>2
    <3>2. state[k] = "done"
      BY <2>2 DEF IInv, InOrder
    <3> QED
      BY <3>1, <3>2
  <2> QED
    BY <1>1, <2>1, <2>2 DEF InOrder
<1>10. base' \in Bases(plan')
  BY DEF IInv
<1> QED
  BY <1>6, <1>7, <1>8, <1>9, <1>10 DEF IInv

\* What an action of n that is about to be done or asked finds.
LEMMA BeforeStep ==
  ASSUME IInv, NEW n \in Nodes
  PROVE  /\ state[n] # "waiting" => \A m \in Before(n) : state[m] = "done"
         /\ state[n] = "waiting" => Hows[n] = Waiting
         /\ state[n] = "asked" => Hows[n] = NoAnswer /\ result[n] = NoAnswer
         /\ state[n] # "done" => result[n] = NoAnswer
BY DEF IInv, InOrder, Results, Hows

LEMMA PointwiseDone ==
  ASSUME TInv, NEW n \in Nodes, NEW a, Done(n, a)
  PROVE  \A m \in Nodes : /\ state'[m] = IF m = n THEN "done" ELSE state[m]
                          /\ result'[m] = IF m = n THEN a ELSE result[m]
                          /\ m # n => asked'[m] = asked[m]
<1>1. state \in [Nodes -> {"waiting", "asked", "done"}]
  BY DEF TInv, TypeOK
<1>2. asked = [m \in Nodes |-> asked[m]] /\ result = [m \in Nodes |-> result[m]]
  BY DEF TInv
<1> QED
  BY <1>1, <1>2 DEF Done

LEMMA AnswersDiffer ==
  ASSUME plan \in Plans, NEW n \in Nodes, Node[n].kind # "flatten", NEW v \in Answers(Node[n])
  PROVE  v # NoAnswer /\ v # Waiting /\ v \in Answered(Node[n])
<1>1. n \in DOMAIN plan.node
  BY NodesInOrder
<1> QED
  BY <1>1, AnswersAssumption DEF Answered, Node

LEMMA IntrospectKeeps ==
  ASSUME IInv, TInv', Independent(plan), NEW n \in Nodes, Introspect(n)
  PROVE  IInv'
<1>1. plan \in Plans /\ TInv
  BY DEF IInv, TInv, TypeOK
<1>2. PICK v \in Answers(Node[n]) : data' = Merging(data, v) /\ Done(n, v)
  BY DEF Introspect
<1>3. /\ plan' = plan /\ base' = base /\ state[n] = "waiting" /\ Node[n].kind = "introspection"
      /\ \A m \in Before(n) : state[m] = "done"
  BY DEF Introspect, Turn
<1>4. v # NoAnswer /\ v # Waiting /\ v \in Answered(Node[n])
  BY <1>1, <1>2, <1>3, AnswersDiffer
<1>5. \A x : data = After(x, Node[n], Hows[n]) => data' = After(x, Node[n], v)
  <2> TAKE x
  <2> HAVE data = After(x, Node[n], Hows[n])
  <2>1. data = x
    BY <1>3, BeforeStep, AfterWaiting
  <2>2. After(x, Node[n], v) = Merging(x, v)
    BY <1>3, <1>4, AfterFetch
  <2> QED
    BY <1>2, <2>1, <2>2
<1> QED
  BY <1>1, <1>2, <1>3, <1>4, <1>5, PointwiseDone, NodeStep

LEMMA StartFetchKeeps ==
  ASSUME IInv, TInv', Independent(plan), NEW n \in Nodes, StartFetch(n)
  PROVE  IInv'
<1>1. plan \in Plans /\ state \in [Nodes -> {"waiting", "asked", "done"}]
  BY DEF IInv, TInv, TypeOK
<1>2. /\ plan' = plan /\ base' = base /\ data' = data /\ asked' = asked /\ result' = result
      /\ state' = [state EXCEPT ![n] = "asked"] /\ state[n] = "waiting" /\ Node[n].kind = "fetch"
      /\ \A m \in Before(n) : state[m] = "done"
  BY DEF StartFetch, Turn
<1>3. result[n] = NoAnswer /\ NoAnswer \in Answered(Node[n])
  BY <1>2, BeforeStep DEF Answered
<1>4. \A x : data = After(x, Node[n], Hows[n]) => data' = After(x, Node[n], NoAnswer)
  BY <1>2, BeforeStep, AfterWaiting, AfterFetch
<1>5. \A m \in Nodes : /\ state'[m] = IF m = n THEN "asked" ELSE state[m]
                       /\ result'[m] = IF m = n THEN NoAnswer ELSE result[m]
                       /\ m # n => asked'[m] = asked[m]
  BY <1>1, <1>2, <1>3
<1> QED
  BY <1>2, <1>3, <1>4, <1>5, NodeStep

LEMMA FetchAnsweredKeeps ==
  ASSUME IInv, TInv', Independent(plan), NEW n \in Nodes, FetchAnswered(n)
  PROVE  IInv'
<1>1. plan \in Plans /\ TInv
  BY DEF IInv, TInv, TypeOK
<1>2. PICK v \in Answers(Node[n]) : data' = Merging(data, v) /\ Done(n, v)
  BY DEF FetchAnswered
<1>3. plan' = plan /\ base' = base /\ state[n] = "asked" /\ Node[n].kind = "fetch"
  BY DEF FetchAnswered
<1>4. v # NoAnswer /\ v # Waiting /\ v \in Answered(Node[n])
  BY <1>1, <1>2, <1>3, AnswersDiffer
<1>5. \A x : data = After(x, Node[n], Hows[n]) => data' = After(x, Node[n], v)
  BY <1>2, <1>3, <1>4, BeforeStep, AfterFetch
<1>6. \A m \in Before(n) : state[m] = "done"
  BY <1>3, BeforeStep
<1> QED
  BY <1>1, <1>2, <1>3, <1>4, <1>5, <1>6, PointwiseDone, NodeStep

\* A fetch that fails, and a flatten node whose answer is of no use.
LEMMA GivenUpKeeps ==
  ASSUME IInv, TInv', Independent(plan), NEW n \in Nodes, state[n] = "asked",
         plan' = plan, base' = base, data' = data, Done(n, NoAnswer)
  PROVE  IInv'
<1>1. TInv /\ NoAnswer \in Answered(Node[n])
  BY DEF IInv, Answered
<1>2. \A x : data = After(x, Node[n], Hows[n]) => data' = After(x, Node[n], NoAnswer)
  BY BeforeStep
<1>3. \A m \in Before(n) : state[m] = "done"
  BY BeforeStep
<1> QED
  BY <1>1, <1>2, <1>3, PointwiseDone, NodeStep

\* What RightAlone says of a flatten node of the plan.
LEMMA AloneRight ==
  ASSUME plan \in Plans, RightAlone(plan), NEW n \in Nodes, Node[n].kind = "flatten",
         NEW x \in Reach(plan)[Len(Order(plan))]
  PROVE  LET node == Node[n]
             r == Representing(x, node.path, node.prefix)
         IN  /\ r.value = After(x, node, NoAnswer)
             /\ Typed(r.reps) =>
                    PuttingBack(r.value, node.path, r.reps, Entities(node, r.reps)) = After(x, node, Null)
<1>1. n \in ToSet(Order(plan)) /\ Node[n] = plan.node[n]
  BY NodesInOrder DEF Node
<1> QED
  BY <1>1 DEF RightAlone

LEMMA StartFlattenKeeps ==
  ASSUME IInv, TInv', Independent(plan), RightAlone(plan), NEW n \in Nodes, StartFlatten(n)
  PROVE  IInv'
<1> DEFINE r == Representing(data, Node[n].path, Node[n].prefix)
<1>1. plan \in Plans /\ TInv /\ state \in [Nodes -> {"waiting", "asked", "done"}]
  BY DEF IInv, TInv, TypeOK
<1>2. /\ plan' = plan /\ base' = base /\ state[n] = "waiting" /\ Node[n].kind = "flatten"
      /\ data' = r.value /\ \A m \in Before(n) : state[m] = "done"
  BY DEF StartFlatten, Turn
<1>3. result[n] = NoAnswer /\ NoAnswer \in Answered(Node[n]) /\ Hows[n] = Waiting
  BY <1>2, BeforeStep DEF Answered
<1>4. \A x \in Reach(plan)[Len(Order(plan))] :
         data = After(x, Node[n], Hows[n]) =>
            data' = After(x, Node[n], NoAnswer) /\ r.reps = Reps(x, Node[n])
  <2> TAKE x \in Reach(plan)[Len(Order(plan))]
  <2> HAVE data = After(x, Node[n], Hows[n])
  <2>1. data = x
    BY <1>3, AfterWaiting
  <2> QED
    BY <1>1, <1>2, <2>1, AloneRight DEF Reps
<1>5. CASE r.reps = <<>>
  <2>1. Done(n, NoAnswer)
    BY <1>5 DEF StartFlatten
  <2> HIDE DEF r
  <2> QED
    BY <1>1, <1>2, <1>3, <1>4, <2>1, PointwiseDone, NodeStep
<1>6. CASE r.reps # <<>>
  <2>1. /\ asked' = [asked EXCEPT ![n] = r.reps] /\ state' = [state EXCEPT ![n] = "asked"]
        /\ result' = result
    BY <1>6 DEF StartFlatten
  <2> HIDE DEF r
  <2>2. asked = [m \in Nodes |-> asked[m]]
    BY <1>1 DEF TInv
  <2>3. /\ asked'[n] = r.reps
        /\ \A m \in Nodes : /\ state'[m] = IF m = n THEN "asked" ELSE state[m]
                            /\ result'[m] = IF m = n THEN NoAnswer ELSE result[m]
                            /\ m # n => asked'[m] = asked[m]
    BY <1>1, <1>3, <2>1, <2>2
  <2> QED
    BY <1>2, <1>3, <1>4, <2>3, NodeStep
<1> QED
  BY <1>5, <1>6

LEMMA FlattenAnsweredKeeps ==
  ASSUME IInv, TInv', Independent(plan), RightAlone(plan), NEW n \in Nodes, FlattenAnswered(n)
  PROVE  IInv'
<1>1. plan \in Plans /\ TInv
  BY DEF IInv, TInv, TypeOK
<1>2. /\ plan' = plan /\ base' = base /\ state[n] = "asked" /\ Node[n].kind = "flatten"
      /\ data' = PuttingBack(data, Node[n].path, asked[n], Entities(Node[n], asked[n]))
      /\ Typed(asked[n]) /\ Done(n, Null)
  BY DEF FlattenAnswered
<1>3. Null \in Answered(Node[n]) /\ Hows[n] = NoAnswer /\ \A m \in Before(n) : state[m] = "done"
  BY <1>2, BeforeStep DEF Answered
<1>4. \A x \in Reach(plan)[Len(Order(plan))] :
         data = After(x, Node[n], Hows[n]) /\ asked[n] = Reps(x, Node[n]) =>
            data' = After(x, Node[n], Null)
  <2> TAKE x \in Reach(plan)[Len(Order(plan))]
  <2> HAVE data = After(x, Node[n], Hows[n]) /\ asked[n] = Reps(x, Node[n])
  <2> DEFINE r == Representing(x, Node[n].path, Node[n].prefix)
  <2>1. data = r.value /\ asked[n] = r.reps
    BY <1>1, <1>2, <1>3, AloneRight DEF Reps
  <2>2. Typed(r.reps) =>
           PuttingBack(r.value, Node[n].path, r.reps, Entities(Node[n], r.reps)) = After(x, Node[n], Null)
    BY <1>1, <1>2, AloneRight
  <2> HIDE DEF r
  <2> QED
    BY <1>2, <2>1, <2>2
<1> QED
  BY <1>1, <1>2, <1>3, <1>4, PointwiseDone, NodeStep

\* The state that a plan or a push begins in.
LEMMA Begins ==
  ASSUME TInv, base \in Bases(plan), data = base,
         \A n \in Nodes : /\ result[n] = NoAnswer /\ state[n] # "asked"
                          /\ state[n] = "waiting" \/ After(base, Node[n], NoAnswer) = base,
         (\A n \in Nodes : state[n] = "waiting") \/ (\A n \in Nodes : state[n] = "done")
  PROVE  IInv
<1>1. plan \in Plans /\ Node = plan.node
  BY DEF TInv, TypeOK, Node
<1>2. \A n \in ToSet(Order(plan)) : After(base, plan.node[n], Hows[n]) = base
  <2> TAKE n \in ToSet(Order(plan))
  <2>1. n \in Nodes
    BY <1>1, NodesInOrder
  <2> QED
    BY <1>1, <2>1, AfterWaiting DEF Hows
<1>3. data = SoFar[Len(Order(plan))]
  <2>1. Len(Order(plan)) \in 0..Len(Order(plan))
    BY <1>1, OrderPlaces
  <2> QED
    BY <1>1, <1>2, <2>1, OneByOneStays DEF SoFar
<1>4. AskedSoFar
  BY <1>1, NodesInOrder DEF AskedSoFar
<1>5. InOrder
  BY DEF InOrder, Before
<1>6. Results
  BY DEF Results, Answered
<1> QED
  BY <1>3, <1>4, <1>5, <1>6 DEF IInv

LEMMA SerialInit == Init /\ (\A p \in Plans : RightAlone(p)) => IInv
<1> SUFFICES ASSUME Init, \A p \in Plans : RightAlone(p) PROVE IInv
  OBVIOUS
<1>1. TInv
  BY TypeInit
<1>2. plan \in Plans /\ RightAlone(plan) /\ base = Null /\ data = Null
  BY DEF Init
<1>3. base \in Bases(plan)
  BY <1>2 DEF Bases
<1>4. ASSUME NEW n \in Nodes PROVE After(Null, Node[n], NoAnswer) = Null
  <2>1. n \in ToSet(Order(plan)) /\ Node[n] = plan.node[n]
    BY <1>2, <1>4, NodesInOrder DEF Node
  <2>2. CASE Node[n].kind = "flatten"
    BY <1>2, <2>1, <2>2 DEF RightAlone
  <2>3. CASE Node[n].kind # "flatten"
    BY <2>3, AfterFetch
  <2> QED
    BY <2>2, <2>3
<1>5. \A n \in Nodes : /\ result[n] = NoAnswer
                       /\ state[n] = IF plan.kind = "query" THEN "waiting" ELSE "done"
  BY DEF Init
<1> QED
  BY <1>1, <1>2, <1>3, <1>4, <1>5, Begins

AllWaiting == data = base /\ \A n \in Nodes : state[n] = "waiting" /\ result[n] = NoAnswer

LEMMA BeginsWaiting == TInv /\ base \in Bases(plan) /\ AllWaiting => IInv
BY Begins DEF AllWaiting

LEMMA PushKeeps ==
  ASSUME IInv, TInv', Push
  PROVE  IInv'
<1>1. plan \in Plans /\ Nodes' = Nodes /\ plan' = plan /\ plan.kind = "subscription"
  BY DEF IInv, TInv, TypeOK, Push, Nodes, Groups
<1>2. data' = base' /\ base' \in Bases(plan')
  BY <1>1 DEF Push, Bases
<1>3. \A n \in Nodes' : state'[n] = "waiting" /\ result'[n] = NoAnswer
  BY <1>1 DEF Push
<1>4. AllWaiting'
  BY <1>2, <1>3 DEF AllWaiting
<1>5. (TInv /\ base \in Bases(plan) /\ AllWaiting)' => IInv'
  BY BeginsWaiting, PTL
<1> QED
  BY <1>2, <1>4, <1>5

LEMMA SerialStep ==
  ASSUME \A p \in Plans : Independent(p) /\ RightAlone(p)
  PROVE  IInv /\ [Next]_vars => IInv'
<1> SUFFICES ASSUME IInv, [Next]_vars PROVE IInv'
  OBVIOUS
<1>1. Independent(plan) /\ RightAlone(plan)
  BY DEF IInv, TInv, TypeOK
<1>2. TInv'
  BY TypeStep DEF IInv
<1>3. ASSUME UNCHANGED vars PROVE IInv'
  <2>1. /\ plan' = plan /\ data' = data /\ state' = state /\ asked' = asked
        /\ base' = base /\ result' = result
    BY <1>3 DEF vars
  <2>2. Nodes' = Nodes /\ Node' = Node
    BY <2>1 DEF Nodes, Groups, Node
  <2>3. Hows' = Hows /\ \A n : Before(n)' = Before(n)
    BY <2>1, <2>2 DEF Hows, Before, GroupOf, Index, Groups
  <2>4. SoFar' = SoFar
    BY <2>1, <2>3 DEF SoFar
  <2>5. InOrder' /\ Results' /\ AskedSoFar'
    BY <2>1, <2>2, <2>3, <2>4 DEF IInv, InOrder, Results, AskedSoFar
  <2> QED
    BY <1>2, <2>1, <2>4, <2>5 DEF IInv
<1>4. ASSUME NEW n \in Nodes, Run(n) PROVE IInv'
  BY <1>1, <1>2, <1>4, IntrospectKeeps, StartFetchKeeps, StartFlattenKeeps DEF Run
<1>5. ASSUME NEW n \in Nodes, Answer(n) PROVE IInv'
  <2>1. CASE FetchAnswered(n)
    BY <1>1, <1>2, <2>1, FetchAnsweredKeeps
  <2>2. CASE FetchFailed(n)
    BY <1>1, <1>2, <2>2, GivenUpKeeps DEF FetchFailed
  <2>3. CASE FlattenAnswered(n)
    BY <1>1, <1>2, <2>3, FlattenAnsweredKeeps
  <2>4. CASE FlattenIgnored(n)
    BY <1>1, <1>2, <2>4, GivenUpKeeps DEF FlattenIgnored
  <2> QED
    BY <1>5, <2>1, <2>2, <2>3, <2>4 DEF Answer
<1>6. ASSUME Push PROVE IInv'
  BY <1>2, <1>6, PushKeeps
<1> QED
  BY <1>3, <1>4, <1>5, <1>6 DEF Next

\* With all nodes done the data so far is that of all of them.
LEMMA DoneSerial ==
  ASSUME IInv, AllDone
  PROVE  data = Expected /\ \A n \in ToSet(Order(plan)) : result[n] \in Answered(plan.node[n])
<1>1. plan \in Plans /\ Node = plan.node /\ Nodes = ToSet(Order(plan))
  BY NodesInOrder DEF IInv, TInv, TypeOK, Node
<1>2. Len(Order(plan)) \in 0..Len(Order(plan))
  BY <1>1, OrderPlaces
<1>3. \A j \in 1..Len(Order(plan)) : Hows[Order(plan)[j]] = result[Order(plan)[j]]
  <2> TAKE j \in 1..Len(Order(plan))
  <2>1. Order(plan)[j] \in Nodes
    BY <1>1, NodesInOrder
  <2> QED
    BY <2>1 DEF AllDone, Hows
<1>4. SoFar[Len(Order(plan))] = Expected
  BY <1>1, <1>2, <1>3, OneByOneAgree DEF SoFar, Expected
<1> QED
  BY <1>1, <1>4 DEF IInv, Results

\* However the answers of the nodes of a parallel group interleave and whichever of
\* them fail, the data is that of the nodes run one after another: for any plans
\* and data that keep the laws.
THEOREM Serial ==
  ASSUME \A p \in Plans : Independent(p) /\ RightAlone(p)
  PROVE  Spec => []SerialResult
<1>1. Init => IInv
  BY SerialInit
<1>2. IInv /\ [Next]_vars => IInv'
  BY SerialStep
<1>3. IInv => SerialResult
  BY DoneSerial DEF SerialResult
<1> QED
  BY <1>1, <1>2, <1>3, PTL DEF Spec

\* When nodes that run one after another leave no keys of the planner's, nothing
\* that interleaves and no fetch that fails makes the executor leave any.
THEOREM NoKeys ==
  ASSUME \A p \in Plans : Independent(p) /\ RightAlone(p) /\ CleanAlone(p)
  PROVE  Spec => []NoKeysLeft
<1>1. Init => IInv
  BY SerialInit
<1>2. IInv /\ [Next]_vars => IInv'
  BY SerialStep
<1>3. IInv => NoKeysLeft
  <2> SUFFICES ASSUME IInv, AllDone PROVE KeyFree(data)
    BY DEF NoKeysLeft
  <2>1. plan \in Plans /\ CleanAlone(plan) /\ base \in Bases(plan)
    BY DEF IInv, TInv, TypeOK
  <2>2. data = OneByOne(plan, base, result)[Len(Order(plan))]
    BY DoneSerial DEF Expected
  <2>3. \A n \in ToSet(Order(plan)) : result[n] \in {} \cup Answered(plan.node[n])
    BY DoneSerial
  <2>4. Len(Order(plan)) \in 0..Len(Order(plan))
    BY <2>1, OrderPlaces
  <2>5. data \in ReachDone(plan)[Len(Order(plan))]
    BY <2>1, <2>2, <2>3, <2>4, InReach DEF ReachDone
  <2> QED
    BY <2>1, <2>5 DEF CleanAlone
<1> QED
  BY <1>1, <1>2, <1>3, PTL DEF Spec
=============================================================================
