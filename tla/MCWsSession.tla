---------------------------- MODULE MCWsSession -----------------------------
(* Instances of WsSession for TLC.                                         *)
EXTENDS WsSession

CONSTANTS s1, s2, o1, o2

Subscribes(R, T, n) == [kind |-> "subscribe", root |-> R, then |-> T, most |-> n]
Queries(R, n) == [kind |-> "query", root |-> R, then |-> {}, most |-> n]
Bad == [kind |-> "bad", root |-> {}, then |-> {}, most |-> 0]

SafePlans ==
    { \* Two subscriptions that share a connection.
      o1 :> Subscribes({s1, s2}, {}, 0) @@ o2 :> Subscribes({s1}, {}, 0),
      \* A subscription whose responses are completed by a fetch, beside another.
      o1 :> Subscribes({s1}, {s2}, 1) @@ o2 :> Subscribes({s2}, {}, 0),
      \* A query over two services, beside a request that cannot be planned.
      o1 :> Queries({s1, s2}, 2) @@ o2 :> Bad }

LivePlans ==
    { \* A subscription and a query, each on a service of its own.
      o1 :> Subscribes({s1}, {}, 0) @@ o2 :> Queries({s2}, 1),
      \* A subscription over two services.
      o1 :> Subscribes({s1, s2}, {}, 0) @@ o2 :> Bad }

\* Two queries at once, of services of their own.
QueriesApart == { o1 :> Queries({s1}, 1) @@ o2 :> Queries({s2}, 1) }

\* Two queries at once, of one service.
TwoQueries == { o1 :> Queries({s1}, 1) @@ o2 :> Queries({s1}, 1) }
=============================================================================
