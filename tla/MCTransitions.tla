--------------------------- MODULE MCTransitions ---------------------------
\* Three queries in databases of one to three shards, one of them bound to a shard, and the
\* ways they can depend on each other.
EXTENDS Transitions

MCDigest == (1 :> 6) @@ (2 :> 3) @@ (3 :> 9) @@ (-1 :> 4) @@ (-2 :> 7) @@ (NoNumber :> 5)

DepsOfSecond ==
  {<<>>, <<[source |-> 1, shard |-> 0]>>, <<[source |-> 1, shard |-> 1]>>,
   <<[source |-> 1, shard |-> 2]>>,
   <<[source |-> 1, shard |-> 0], [source |-> 1, shard |-> 0]>>}
DepsOfThird ==
  {<<>>, <<[source |-> 1, shard |-> 0]>>, <<[source |-> 2, shard |-> 0]>>,
   <<[source |-> 2, shard |-> 0], [source |-> 1, shard |-> 0]>>}

MCStrategies ==
  {("d1" :> <<[name |-> "explicit", shardCol |-> "id"]>>)
     @@ ("d2" :> <<[name |-> "md5", shardCol |-> "other"], [name |-> "modulo", shardCol |-> "id"]>>),
   ("d1" :> <<[name |-> "md5", shardCol |-> "id"]>>) @@ ("d2" :> <<>>)}

ThreeDatabases == {"d1", "d2", "d3"}
On(s, k) == [source |-> s, shard |-> k]

\* Two queries of one text name the same sources: none.  The keys and the strategies vary
\* only where rows can be split, and then not the shards that are named.
TwoDatabases ==
  {c \in {[database |-> db, size |-> size @@ ("d3" :> 1), own |-> <<own, 0, 0>>, text |-> text,
    deps |-> <<<<>>, d2, d3>>, strategies |-> st @@ ("d3" :> <<>>), columns |-> {"name", "id"}, keys |-> keys] :
     db \in {"d1", "d2"} \X {"d1", "d2"} \X {"d1", "d2"}, size \in [{"d1", "d2"} -> 1 .. 3],
     own \in 0 .. 2, text \in {<<"a", "b", "c">>, <<"a", "a", "c">>},
     d2 \in DepsOfSecond, d3 \in DepsOfThird, st \in MCStrategies,
     keys \in {<<1, 2, 1>>, <<2, 3, -1>>, <<2, -2>>, <<2, NoNumber>>}} :
   /\ c.text[1] = c.text[2] => c.deps[2] = <<>> /\ c.own[1] = 0
   /\ \/ c.own[1] = 0 /\ \A d \in ToSet(c.deps[2]) : d.shard = 0
      \/ c.keys = <<1, 2, 1>> /\ c.strategies["d2"] = <<>>}

\* A source of one shard for targets of different sizes, named once or in two ways.
Varied(sizes, deps2, deps3) ==
  {[database |-> <<"d1", "d2", "d3">>, size |-> size, own |-> <<own, 0, 0>>, text |-> <<"a", "b", "c">>,
    deps |-> <<<<>>, d2, d3>>, strategies |-> [db \in ThreeDatabases |-> <<>>], columns |-> {"id"},
    keys |-> <<1, 2>>] : size \in sizes, own \in 0 .. 2, d2 \in deps2, d3 \in deps3}

ThreeSizes ==
  Varied([ThreeDatabases -> 1 .. 3],
         {<<On(1, 0)>>, <<On(1, 0), On(1, 1)>>, <<On(1, 2), On(1, 0)>>, <<On(3, 0)>>},
         {<<On(1, 0)>>, <<On(1, 1)>>, <<On(1, 2)>>})

\* And queries that depend on later ones, or on themselves.
Cycles ==
  {[c EXCEPT !.deps[1] = d1] : d1 \in {<<On(2, 0)>>, <<On(3, 0), On(2, 0)>>, <<On(1, 0)>>},
     c \in Varied([ThreeDatabases -> 1 .. 2], {<<>>, <<On(3, 0)>>, <<On(1, 0)>>}, {<<>>, <<On(2, 0)>>})}

MCConfigurations == TwoDatabases \cup ThreeSizes \cup Cycles
=============================================================================
