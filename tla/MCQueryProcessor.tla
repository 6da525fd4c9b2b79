-------------------------- MODULE MCQueryProcessor --------------------------
(***************************************************************************)
(* Small graphs for TLC: a query that waits for one of two others, and a   *)
(* table split over two shards.                                            *)
(***************************************************************************)
EXTENDS QueryProcessor, TLC

CONSTANTS a, b, z, s, t, u, j

Chan(src, sport, dst, dport) ==
  [source |-> src, sport |-> sport, target |-> dst, tport |-> dport]

\* The query a is split by the transition s over the shards t and u, whose results
\* the transition j joins again.
ShardExecs == {a, s, t, u, j}
ShardIn == a :> {} @@ s :> {"a"} @@ t :> {"a"} @@ u :> {"a"} @@ j :> {"1", "2"}
ShardOut == a :> <<"">> @@ s :> <<"1", "2">> @@ t :> <<"">> @@ u :> <<"">> @@ j :> <<"">>
ShardChannels ==
  {Chan(a, "", s, "a"), Chan(s, "1", t, "a"), Chan(s, "2", u, "a"),
   Chan(t, "", j, "1"), Chan(u, "", j, "2")}
ShardOrders == {<<a, s, t, u, j>>, <<j, u, t, s, a>>, <<t, a, j, u, s>>}

\* z waits for the query a; b is a query of its own.
LateExecs == {a, b, z}
LateOut == [e \in LateExecs |-> <<"">>]
LateIn == a :> {} @@ b :> {} @@ z :> {"a"}
LateChannels == {Chan(a, "", z, "a")}

AllOrders(S) == {o \in [1..Cardinality(S) -> S] : Range(o) = S}
LateOrders == AllOrders(LateExecs)

AllOptions == [disableCache : BOOLEAN, dontExecute : BOOLEAN]
Run == {[disableCache |-> FALSE, dontExecute |-> FALSE]}
=============================================================================
