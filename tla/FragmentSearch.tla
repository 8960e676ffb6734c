--------------------------- MODULE FragmentSearch ---------------------------
(***************************************************************************)
(* The searches of the validator's rules from fragment to fragment, in any  *)
(* graph: spreads is a function from nodes to the nodes spread there, in    *)
(* the order of the document.  A search is a function of what it knows,     *)
(* with the nodes it has yet to look at in next.                           *)
(***************************************************************************)
EXTENDS Integers, SequencesExt

-----------------------------------------------------------------------------
(* Cycles of fragments (validation/rules/no_fragment_cycles.rs).           *)

\* What a CycleDetector may know; path is the keys of path_indices.
Detector(spreads) ==
    [visited : SUBSET DOMAIN spreads, path : SUBSET DOMAIN spreads,
     errors : SUBSET DOMAIN spreads, next : Seq(DOMAIN spreads)]

\* Mutant: what has been on the path stays on it.
StaysOnPath(s, from) == s

LeavesPath(s, from) == [s EXCEPT !.path = @ \ {from}]

Enters(spreads, s, from) ==
    [s EXCEPT !.visited = @ \cup {from}, !.path = @ \cup {from}, !.next = spreads[from]]

\* The nodes in next are looked at one by one; detect goes through those that are
\* spread in one that has not been visited.
LookAt(spreads, detect, s) ==
    LET name == Head(s.next)
        found == IF name \in s.path THEN [s EXCEPT !.errors = @ \cup {name}]
                 ELSE IF name \in s.visited THEN s
                 ELSE LeavesPath(detect[Enters(spreads, s, name)], name)
    IN [found EXCEPT !.next = Tail(s.next)]

Detect(spreads) ==
    LET detect[s \in Detector(spreads)] ==
            IF s.next = <<>> THEN s ELSE detect[LookAt(spreads, detect, s)]
    IN detect

\* The errors of a search through all fragments, in the order of a HashMap.
CyclesFrom(spreads, order) ==
    Detect(spreads)[[visited |-> {}, path |-> {}, errors |-> {}, next |-> order]].errors

\* Nodes among which each spreads one of them.
Cyclic(spreads) ==
    \E S \in SUBSET DOMAIN spreads : S # {} /\ \A f \in S : S \cap ToSet(spreads[f]) # {}

-----------------------------------------------------------------------------
(* What is reached through spreads (find_reachable_fragments,               *)
(* find_undef_vars, find_used_vars and collect_incorrect_usages).          *)

Finder(spreads) == [visited : SUBSET DOMAIN spreads, next : Seq(DOMAIN spreads)]

\* A node that has been visited is passed over.
GoTo(spreads, reach, s) ==
    LET name == Head(s.next)
        found == IF name \in s.visited THEN s
                 ELSE reach[[visited |-> s.visited \cup {name}, next |-> spreads[name]]]
    IN [found EXCEPT !.next = Tail(s.next)]

Reach(spreads) ==
    LET reach[s \in Finder(spreads)] ==
            IF s.next = <<>> THEN s ELSE reach[GoTo(spreads, reach, s)]
    IN reach

ReachedFrom(spreads, node) == Reach(spreads)[[visited |-> {}, next |-> <<node>>]].visited

Closed(spreads, S) == \A f \in S : ToSet(spreads[f]) \subseteq S
=============================================================================
