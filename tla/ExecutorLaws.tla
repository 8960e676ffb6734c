---------------------------- MODULE ExecutorLaws ----------------------------
(***************************************************************************)
(* What the executor relies on of the data and the plans.  It does nothing  *)
(* to make the nodes of a parallel group independent: it takes the keys of  *)
(* one node while others are under way, and merges answers in the order in  *)
(* which they come.  The laws say of nodes that run one after another, with *)
(* nothing in between, what has to hold for that to be harmless.            *)
(***************************************************************************)
EXTENDS Executor

\* What may become of a node that has been started.
Answered(node) == {NoAnswer} \cup (IF node.kind = "flatten" THEN {Null} ELSE Answers(node))

\* The data that a plan begins with.
Bases(p) == {Null} \cup (IF p.kind = "subscription" THEN Pushes(p) ELSE {})

\* What may be left of the data xs after a node.
AllAfter(xs, node, answers) == {After(x, node, answer) : x \in xs, answer \in answers}

\* The data after the first i nodes, each with an answer or what late has in place of it.
ReachWith(p, late) ==
    LET reach[i \in 0..Len(Order(p))] ==
            IF i = 0 THEN Bases(p)
            ELSE AllAfter(reach[i - 1], p.node[Order(p)[i]],
                          late \cup Answered(p.node[Order(p)[i]]))
    IN reach

Reach(p) == ReachWith(p, {Waiting})
ReachDone(p) == ReachWith(p, {})

Outcomes(node) == {Waiting} \cup Answered(node)

Reps(v, node) == Representing(v, node.path, node.prefix).reps

InParallel(p, n, m) ==
    \E g \in DOMAIN p.groups :
        p.groups[g].mode = "parallel" /\ {n, m} \subseteq ToSet(p.groups[g].nodes)

\* Two nodes that run at once: it is the same which is first, and neither changes
\* which entities the other finds.
Independent(p) ==
    \A i, j \in DOMAIN Order(p) :
        LET n == p.node[Order(p)[i]]
            m == p.node[Order(p)[j]]
        IN i < j /\ InParallel(p, Order(p)[i], Order(p)[j]) =>
               \A x \in Reach(p)[j - 1], a \in Outcomes(n), b \in Outcomes(m) :
                   /\ After(After(x, n, a), m, b) = After(After(x, m, b), n, a)
                   /\ n.kind = "flatten" => Reps(After(x, m, b), n) = Reps(x, n)
                   /\ m.kind = "flatten" => Reps(After(x, n, a), m) = Reps(x, m)

\* A flatten node that nothing runs between: keys that are taken out and not used
\* are gone, and entities that are put back are where their keys were.
RightAlone(p) ==
    \A n \in ToSet(Order(p)) :
        LET node == p.node[n]
        IN node.kind = "flatten" =>
               /\ After(Null, node, NoAnswer) = Null
               /\ \A x \in Reach(p)[Len(Order(p))] :
                      LET r == Representing(x, node.path, node.prefix)
                      IN /\ r.value = After(x, node, NoAnswer)
                         /\ Typed(r.reps) =>
                                PuttingBack(r.value, node.path, r.reps, Entities(node, r.reps))
                                    = After(x, node, Null)

\* Nodes that run one after another leave no keys.
CleanAlone(p) == \A x \in ReachDone(p)[Len(Order(p))] : KeyFree(x)
=============================================================================
