---------------------------- MODULE Multiplexer -----------------------------
(***************************************************************************)
(* What the controller task of a session promises: the subscriptions of    *)
(* many ids to many services share one connection per service.  A          *)
(* subscription joins once, an id leaves with all its services at once, a  *)
(* connection is there exactly while someone uses it, and all of them go   *)
(* together when the task ends.                                            *)
(***************************************************************************)
CONSTANTS Services, Ids

VARIABLES alive,  \* is the task running?
          subs,   \* the subscriptions: pairs of an id and a service
          conns   \* the services that are connected

vars == <<alive, subs, conns>>

Init ==
    /\ alive = TRUE
    /\ subs = {}
    /\ conns = {}

Join(i, s) ==
    /\ alive
    /\ <<i, s>> \notin subs
    /\ subs' = subs \cup {<<i, s>>}
    /\ conns' = conns \cup {s}
    /\ UNCHANGED alive

Leave(i) ==
    /\ alive
    /\ subs' = {p \in subs : p[1] # i}
    /\ conns' = {s \in conns : \E p \in subs' : p[2] = s}
    /\ UNCHANGED alive

Die ==
    /\ alive
    /\ alive' = FALSE
    /\ subs' = {}
    /\ conns' = {}

Next ==
    \/ \E i \in Ids, s \in Services : Join(i, s)
    \/ \E i \in Ids : Leave(i)
    \/ Die

Spec == Init /\ [][Next]_vars
=============================================================================
