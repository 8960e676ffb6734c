------------------------ MODULE MCSharedRouteTable --------------------------
(* Instances of SharedRouteTable for TLC.                                  *)
EXTENDS SharedRouteTable

CONSTANTS a, b, x, y, v1, v2, junk

\* A table of two services, one that keeps a name but moves it to the other
\* source, and one without services.
MCTables == {a :> x @@ b :> y, a :> y, <<>>}

\* Both services may not publish v2 at once.
MCComposable ==
    UNION {[DOMAIN t -> {v1, v2}] : t \in MCTables} \ {a :> v2 @@ b :> v2}
=============================================================================
