---------------------------- MODULE Transitions ----------------------------
(***************************************************************************)
(* How QueryProcessor::prepare() builds the graph that process() runs: one *)
(* execution per url of a query, channels and transitions per dependency,  *)
(* and an id per execution, the key of its cached results.  The user may   *)
(* edit the text of one query and run the program again.                   *)
(*                                                                         *)
(* A query is its number.  A name is [of, shard, no]: the query, the shard *)
(* after its $ and the number after its _, each 0 if there is none.        *)
(***************************************************************************)
EXTENDS Sharding, FiniteSets, FiniteSetsExt

CONSTANTS
  Queries,         \* 1 .. n, in the order of the parser
  Databases,
  Configurations,  \* what the registry and the queries say; see below
  NewText          \* the text the user writes

ASSUME QueriesAssumption ==
  Queries # {} /\ IsFiniteSet(Queries) /\ Queries = 1 .. Cardinality(Queries)

(***************************************************************************)
(* A configuration: by query its database, the shard it is bound to, or 0, *)
(* its text and the [source, shard] the text names, in their order, to     *)
(* which the parser has given their queries: any, later ones and itself    *)
(* too.  By database its number of shards and its sharding strategies.     *)
(* And what the rows of every table have: their columns, and their keys.   *)
(***************************************************************************)
StrategyNames == {"md5", "explicit", "modulo"}
Keys == DOMAIN Digest
ConfigurationsOf(texts) ==
  [database : [Queries -> Databases], own : [Queries -> Nat], text : [Queries -> texts],
   deps : [Queries -> Seq([source : Queries, shard : Nat])], size : [Databases -> Nat],
   strategies : [Databases -> Seq([name : StrategyNames, shardCol : STRING])],
   columns : SUBSET STRING, keys : Seq(Keys)]

ASSUME ConfigurationAssumption ==
  /\ Configurations \subseteq ConfigurationsOf(STRING)
  /\ NewText \in STRING /\ NewText # "query"
  /\ \A c \in Configurations : \A q \in Queries : c.text[q] # NewText

\* A row is named after the url and the text it comes from.
Tables == [columns : SUBSET STRING, rows : Seq([of : (Databases \X Nat) \X STRING, key : Keys])]

ASSUME OutcomesAssumption ==
  \A outcome \in {Throws, Undefined} : outcome \notin Int /\ outcome \notin Tables /\ outcome \notin Seq(Tables)

VARIABLES
  conf,      \* the configuration of this run
  edited,    \* the query whose text was changed since the first run, or 0
  earlier,   \* the ids of the first run
  phase,     \* "urls", "transitions", "ids", "done" or "failed"
  at,        \* the query and the dependency that is next
  execs,     \* the executions of each query: [url, sql, name, ports]
  nodes,     \* the transitions: [kind, id, url, name, ports, strategies, count]
  channels,  \* [source, sourcePort, target, targetPort]
  ids        \* by node; a query's executions are the nodes <<query, number>>

vars == <<conf, edited, earlier, phase, at, execs, nodes, channels, ids>>
graph == <<execs, nodes, channels>>

Zero == 0
QName(q, shard) == [of |-> q, shard |-> shard, no |-> Zero]
Numbered(k) == [of |-> Zero, shard |-> Zero, no |-> k]  \* to_string(k)
Default == Numbered(Zero)                               \* the port ""

QueryNodes == UNION {{<<q, i>> : i \in DOMAIN execs[q]} : q \in Queries}
TransitionNodes == {<<Zero, i>> : i \in DOMAIN nodes}
Node(n) == IF n[1] = Zero THEN nodes[n[2]] ELSE execs[n[1]][n[2]]

Starts(c) ==
  /\ conf' = c /\ phase' = "urls" /\ at' = <<1, 1>>
  /\ execs' = [q \in Queries |-> <<>>] /\ nodes' = <<>> /\ channels' = <<>>
  /\ ids' = <<>>

Init ==
  /\ conf \in Configurations /\ edited = Zero /\ earlier = <<>> /\ phase = "urls"
  /\ at = <<1, 1>> /\ execs = [q \in Queries |-> <<>>] /\ nodes = <<>>
  /\ channels = <<>> /\ ids = <<>>

-----------------------------------------------------------------------------
(***************************************************************************)
(* populateUrls2(): the urls of the query's database, or the one of its    *)
(* own shard, and an execution for each.                                   *)
(***************************************************************************)
Urls(q) ==
  LET db == conf.database[q]
  IN  CASE conf.own[q] = Zero -> [i \in 1 .. conf.size[db] |-> <<db, i>>]
        [] conf.own[q] \in 1 .. conf.size[db] -> <<<<db, conf.own[q]>>>>
        [] conf.own[q] > conf.size[db] -> <<>>

ExecName(q, i, n) == [of |-> q, shard |-> conf.own[q], no |-> IF n > 1 THEN i ELSE Zero]

Executions(q) ==
  [i \in DOMAIN Urls(q) |->
     [url |-> Urls(q)[i], sql |-> conf.text[q], name |-> ExecName(q, i, Len(Urls(q))),
      ports |-> [d \in DOMAIN conf.deps[q] |->
                   QName(conf.deps[q][d].source, conf.deps[q][d].shard)]]]

NextQuery == IF at[1] = Len(conf.text) THEN <<"transitions", 1>> ELSE <<"urls", at[1] + 1>>

PopulateUrls ==
  /\ phase = "urls" /\ Urls(at[1]) # <<>>
  /\ execs' = [execs EXCEPT ![at[1]] = Executions(at[1])]
  /\ phase' = NextQuery[1] /\ at' = <<NextQuery[2], 1>>
  /\ UNCHANGED <<conf, edited, earlier, nodes, channels, ids>>

NoUrlFound ==
  /\ phase = "urls" /\ Urls(at[1]) = <<>> /\ phase' = "failed"
  /\ UNCHANGED <<conf, edited, earlier, at, graph, ids>>

-----------------------------------------------------------------------------
(***************************************************************************)
(* populateTransitions(): one dependency.                                  *)
(***************************************************************************)
Pending == phase = "transitions" /\ at[2] <= Len(conf.deps[at[1]])
Dep == conf.deps[at[1]][at[2]]
Source == Dep.source
Target == at[1]

\* The executions of the source that the dependency names.
Selected(dep) ==
  LET all == DOMAIN execs[dep.source]
  IN  CASE dep.shard = Zero -> [i \in all |-> i]
        [] dep.shard \in all -> <<dep.shard>>
        [] dep.shard \notin all \cup {Zero} -> <<>>
SrcSize == Len(Selected(Dep))
DstSize == Len(execs[Target])

From(source, port, target, targetPort) ==
  [source |-> source, sourcePort |-> port, target |-> target, targetPort |-> targetPort]

Advance ==
  /\ at' = <<at[1], at[2] + 1>>
  /\ UNCHANGED <<conf, edited, earlier, phase, execs, ids>>

OneToOne ==
  /\ Pending /\ DstSize = 1 /\ SrcSize = 1 /\ Advance /\ UNCHANGED nodes
  /\ channels' = Append(channels,
       From(<<Source, Selected(Dep)[1]>>, Default, <<Target, 1>>, QName(Source, Dep.shard)))

ManyToManyUnsharded ==
  /\ Pending /\ DstSize > 1 /\ DstSize = SrcSize
  /\ conf.database[Source] = conf.database[Target] /\ Advance /\ UNCHANGED nodes
  /\ channels' = channels \o [i \in 1 .. DstSize |->
       From(<<Source, i>>, Default, <<Target, i>>, QName(Source, Zero))]

NewNode == <<Zero, Len(nodes) + 1>>
Strategies == conf.strategies[conf.database[Target]]
Resolved == \A i \in DOMAIN Strategies : AcceptsCount(Strategies[i], DstSize)

\* The transition is never initialised: it has no in ports and no out ports.
ManyToManySharded ==
  /\ Pending /\ DstSize > 1 /\ DstSize = SrcSize
  /\ conf.database[Source] # conf.database[Target] /\ Resolved /\ Advance
  /\ nodes' = Append(nodes, [kind |-> "m2m", id |-> <<>>, url |-> <<>>, name |-> Default,
       ports |-> <<>>, strategies |-> Strategies, count |-> DstSize])
  /\ channels' = channels
       \o [i \in 1 .. SrcSize |-> From(<<Source, i>>, Numbered(i), NewNode, Numbered(i))]
       \o [i \in 1 .. DstSize |-> From(NewNode, Numbered(i), <<Target, i>>, Numbered(i))]

\* The node with an id, or 0.
Existing(id) == SelectInSeq(nodes, LAMBDA n : n.id = id)
Text(n) == <<Node(n).url, Node(n).sql>>

JoinedId(q) == <<[i \in DOMAIN execs[q] |-> Text(<<q, i>>)], "joined">>

\* Mutant: the ports of the transition are counted from one, its channels from zero.
CollectFromZero(q, node) ==
  [i \in DOMAIN execs[q] |-> From(<<q, i>>, Default, node, Numbered(i - 1))]

Collect(q, node) == [i \in DOMAIN execs[q] |-> From(<<q, i>>, Default, node, Numbered(i))]

ManyToOne ==
  LET id == JoinedId(Source)
      known == Existing(id)
      node == IF known # 0 THEN <<Zero, known>> ELSE NewNode
  IN  /\ Pending /\ DstSize = 1 /\ SrcSize > 1 /\ Advance
      /\ nodes' = IF known # 0 THEN nodes ELSE Append(nodes,
           [kind |-> "joined", id |-> id, url |-> execs[Target][1].url, name |-> QName(Source, Zero),
            ports |-> [i \in 1 .. SrcSize |-> Numbered(i)], strategies |-> <<>>, count |-> 1])
      /\ channels' = channels
           \o (IF known # 0 THEN <<>> ELSE Collect(Source, node))
           \o <<From(node, Default, <<Target, 1>>, QName(Source, Zero))>>

\* Mutant: the port is named after the query alone.
SourceNameOfQuery == QName(Source, Zero)

\* The first execution of the source is taken here and below, whichever was selected.
SourceName == execs[Source][1].name

OneToManyUnsharded ==
  /\ Pending /\ DstSize > 1 /\ SrcSize = 1 /\ conf.own[Source] # Zero
  /\ Advance /\ UNCHANGED nodes
  /\ channels' = channels \o [i \in 1 .. DstSize |->
       From(<<Source, 1>>, Default, <<Target, i>>, SourceName)]

SplittedId(q) == <<<<Text(<<q, 1>>)>>, "splitted">>

OneToMany ==
  LET id == SplittedId(Source)
      known == Existing(id)
      node == IF known # 0 THEN <<Zero, known>> ELSE NewNode
  IN  /\ Pending /\ DstSize > 1 /\ SrcSize = 1 /\ conf.own[Source] = Zero /\ Resolved /\ Advance
      /\ nodes' = IF known # 0 THEN nodes ELSE Append(nodes,
           [kind |-> "splitted", id |-> id, url |-> execs[Source][1].url, name |-> SourceName,
            ports |-> <<SourceName>>, strategies |-> Strategies, count |-> DstSize])
      /\ channels' = channels
           \o (IF known # 0 THEN <<>> ELSE <<From(<<Source, 1>>, Default, node, SourceName)>>)
           \o [i \in 1 .. DstSize |-> From(node, Numbered(i), <<Target, i>>, SourceName)]

\* A strategy refuses the number of shards.
StrategyRefuses ==
  /\ Pending /\ DstSize > 1 /\ ~Resolved
  /\ \/ SrcSize = 1 /\ conf.own[Source] = Zero
     \/ SrcSize = DstSize /\ conf.database[Source] # conf.database[Target]
  /\ phase' = "failed" /\ UNCHANGED <<conf, edited, earlier, at, graph, ids>>

\* Every other pair of sizes gets no channel.
NoTransition ==
  /\ Pending
  /\ \/ SrcSize = 0
     \/ SrcSize > 1 /\ DstSize > 1 /\ SrcSize # DstSize
  /\ Advance /\ UNCHANGED <<nodes, channels>>

NextTarget ==
  /\ phase = "transitions" /\ at[2] > Len(conf.deps[at[1]])
  /\ phase' = IF at[1] = Len(conf.text) THEN "ids" ELSE "transitions"
  /\ at' = IF at[1] = Len(conf.text) THEN <<1, 1>> ELSE <<at[1] + 1, 1>>
  /\ UNCHANGED <<conf, edited, earlier, graph, ids>>

-----------------------------------------------------------------------------
(***************************************************************************)
(* calculateExecutionIds(): md5 is taken to be injective, so an id is what *)
(* it is the sum of: the url and text of the execution, and those of all   *)
(* it depends on, with their multiplicity, sorted.  A ManyToMany has no    *)
(* url, and asking for it ends the process.                                *)
(***************************************************************************)
TextOf(n) == IF n[1] = Zero THEN <<Node(n).url, "query">> ELSE Text(n)

\* ExecutionGraph::getDependencies: a sequence, with repetitions.  No path without a
\* cycle is longer than there are nodes, and that bounds the recursion here.
Dependencies(n) ==
  LET bound == Cardinality(QueryNodes) + Len(nodes)
      deps[depth \in 0 .. bound] ==
        [m \in QueryNodes \cup TransitionNodes |->
           IF depth = 0 THEN <<>> ELSE FlattenSeq([i \in DOMAIN channels |->
             IF channels[i].target # m THEN <<>>
             ELSE <<channels[i].source>> \o deps[depth - 1][channels[i].source]])]
  IN  deps[bound][n]

Counts(s) == [x \in ToSet(s) |-> Cardinality({i \in DOMAIN s : s[i] = x})]

\* Mutant: only the direct dependencies go into an id.
ExecutionIdDirect(n) ==
  LET into == {i \in DOMAIN channels : channels[i].target = n}
  IN  <<TextOf(n), [x \in {TextOf(channels[i].source) : i \in into} |->
         Cardinality({i \in into : TextOf(channels[i].source) = x})]>>

\* Mutant: every execution goes into an id.
ExecutionIdOfAll(n) == <<TextOf(n), {TextOf(m) : m \in QueryNodes \cup TransitionNodes}>>

ExecutionId(n) ==
  <<TextOf(n), Counts([i \in DOMAIN Dependencies(n) |-> TextOf(Dependencies(n)[i])])>>

Uninitialised == \E i \in DOMAIN nodes : nodes[i].kind = "m2m"

Cyclic == \E n \in QueryNodes : n \in ToSet(Dependencies(n))

CalculateIds ==
  /\ phase = "ids" /\ ~Uninitialised /\ ~Cyclic /\ phase' = "done"
  /\ ids' = [n \in QueryNodes \cup TransitionNodes |-> ExecutionId(n)]
  /\ UNCHANGED <<conf, edited, earlier, at, graph>>

NoUrlOfTransition ==
  /\ phase = "ids" /\ Uninitialised /\ phase' = "failed"
  /\ UNCHANGED <<conf, edited, earlier, at, graph, ids>>

\* The recursion has no end, and the stack has one.
EndlessDependencies ==
  /\ phase = "ids" /\ ~Uninitialised /\ Cyclic /\ phase' = "failed"
  /\ UNCHANGED <<conf, edited, earlier, at, graph, ids>>

\* The user changes the text of one query and runs the program again.
Edit(q) ==
  /\ phase = "done" /\ edited = Zero /\ edited' = q /\ earlier' = ids
  /\ Starts([conf EXCEPT !.text[q] = NewText])

Done == phase \in {"done", "failed"} /\ UNCHANGED vars

Next ==
  \/ PopulateUrls \/ NoUrlFound
  \/ OneToOne \/ ManyToManyUnsharded \/ ManyToManySharded \/ ManyToOne
  \/ OneToManyUnsharded \/ OneToMany \/ StrategyRefuses \/ NoTransition \/ NextTarget
  \/ CalculateIds \/ NoUrlOfTransition \/ EndlessDependencies
  \/ \E q \in Queries : Edit(q)
  \/ Done

Spec == Init /\ [][Next]_vars

-----------------------------------------------------------------------------
(***************************************************************************)
(* What arrives where.  The result of an execution is a table of the rows  *)
(* its text has at its url, one for each of the keys.                      *)
(***************************************************************************)
Table(n) ==
  [columns |-> conf.columns, rows |-> [i \in DOMAIN conf.keys |-> [of |-> Text(n), key |-> conf.keys[i]]]]

OutPorts(n) ==
  CASE n[1] # Zero -> {Default}
    [] n[1] = Zero /\ Node(n).kind = "joined" -> {Default}
    [] n[1] = Zero /\ Node(n).kind = "splitted" -> {Numbered(k) : k \in 1 .. Node(n).count}
    [] n[1] = Zero /\ Node(n).kind = "m2m" -> {}

\* The channels to a port, and the one if there is no other.
Arriving(n, port) ==
  {i \in DOMAIN channels : channels[i].target = n /\ channels[i].targetPort = port}
Arrival(n, port) == channels[CHOOSE i \in Arriving(n, port) : TRUE]

\* What a transition has received, in the order of its ports.
Received(n) == [p \in DOMAIN Node(n).ports |-> Table(Arrival(n, Node(n).ports[p]).source)]

Result(n, port) ==
  CASE n[1] # Zero -> Table(n)
    [] n[1] = Zero /\ Node(n).kind = "joined" -> Join(Received(n))
    [] n[1] = Zero /\ Node(n).kind = "splitted" ->
         LET parts == Split(Node(n).strategies, Node(n).count, Received(n)[1])
         IN  IF parts \in {Throws, Undefined} THEN parts ELSE parts[port.no]

IsSingle(S) == \E x \in S : S = {x}

\* receive() fills the last port of a name, so a port that is declared twice stays empty.
Fed(n, port) ==
  /\ IsSingle({p \in DOMAIN Node(n).ports : Node(n).ports[p] = port})
  /\ IsSingle(Arriving(n, port))
  /\ Arrival(n, port).sourcePort \in OutPorts(Arrival(n, port).source)

Once(q, dep) == IsSingle({j \in DOMAIN conf.deps[q] : conf.deps[q][j] = dep})

Splits(q, dep) == Len(execs[q]) > 1 /\ Len(Selected(dep)) = 1 /\ conf.own[dep.source] = Zero

\* The query for which the rows of this source were split first.
FirstSplit(dep) ==
  Min({q \in Queries : \E d \in ToSet(conf.deps[q]) :
         Splits(q, d) /\ SplittedId(d.source) = SplittedId(dep.source)})

\* The dependencies of a query that select the only execution a source has.
SelectOnly(q, source) ==
  {j \in DOMAIN conf.deps[q] : conf.deps[q][j].source = source /\ conf.deps[q][j].shard \in {0, 1}}

\* The dependencies that the graph serves, for the i-th execution of a query.
Served(q, dep, i) ==
  LET src == Len(Selected(dep))
      all == Len(execs[dep.source])
      dst == Len(execs[q])
  IN  /\ Once(q, dep)
      /\ \/ dst = 1 /\ src > 0
         \/ dst > 1 /\ src = dst /\ conf.database[dep.source] = conf.database[q]
         \/ /\ dst > 1 /\ all = 1 /\ dep.shard = conf.own[dep.source]
            /\ IsSingle(SelectOnly(q, dep.source))
            /\ conf.own[dep.source] = Zero => Len(execs[FirstSplit(dep)]) >= i

\* Each port of a target is fed by one channel that starts at a port there is, and the
\* target can run, exactly if its dependencies are served: not by a source of another
\* number of shards, not if it names one shard of many where it has many itself, not if it
\* names a source twice, nor an only execution in two ways, and not by a split that was made
\* for a target with fewer shards.
PortsFit ==
  phase = "done" => \A q \in Queries : \A dep \in ToSet(conf.deps[q]) : \A i \in DOMAIN execs[q] :
    Fed(<<q, i>>, QName(dep.source, dep.shard)) <=> Served(q, dep, i)

AllServed ==
  \A q \in Queries : \A dep \in ToSet(conf.deps[q]) : \A i \in DOMAIN execs[q] : Served(q, dep, i)

\* If every dependency is served the graph is one that can be run to its end: a channel
\* joins an out port and a port of nodes there are, and every port of every node, also of
\* the transitions that several queries share, is fed by one channel.
GraphFits ==
  phase = "done" /\ AllServed =>
    /\ \A i \in DOMAIN channels :
         LET c == channels[i]
         IN  /\ {c.source, c.target} \subseteq QueryNodes \cup TransitionNodes
             /\ c.sourcePort \in OutPorts(c.source) /\ c.targetPort \in ToSet(Node(c.target).ports)
    /\ \A n \in QueryNodes \cup TransitionNodes : \A port \in ToSet(Node(n).ports) : Fed(n, port)

-----------------------------------------------------------------------------
\* The shard of a key, said without the strategies.  The md5 strategy takes a number of
\* shards that is no power of two, and then leaves some of them empty.
Power[bits \in 0 .. Bits] == IF bits = 0 THEN 1 ELSE 2 * Power[bits - 1]
PowersOfTwo == {Power[bits] : bits \in 0 .. Bits}
Belongs(strategy, key, shard, count) ==
  CASE strategy.name = "md5" /\ count \in PowersOfTwo -> (Digest[key] - (shard - 1)) % count = 0
    [] strategy.name = "md5" /\ count \notin PowersOfTwo -> Md5ShardId(key, count) = shard
    [] strategy.name # "md5" /\ key = NoNumber -> FALSE
    [] strategy.name = "explicit" /\ key # NoNumber -> key = shard
    [] strategy.name = "modulo" /\ key # NoNumber ->
         (key - (shard - 1)) % count = 0 /\ (key >= 0 \/ shard = 1)

KeyColumn(q) ==
  {i \in DOMAIN conf.strategies[conf.database[q]] :
     conf.strategies[conf.database[q]][i].shardCol \in conf.columns}

Distributed(q, dep) == Splits(q, dep) /\ KeyColumn(q) # {}

BelongsTo(q, row, i) ==
  Belongs(conf.strategies[conf.database[q]][Min(KeyColumn(q))], row.key, i, Len(execs[q]))

\* The executions a dependency means: a source that is bound to the shard has one.
Meant(dep) ==
  IF dep.shard = conf.own[dep.source] THEN [i \in DOMAIN execs[dep.source] |-> i] ELSE Selected(dep)

RowsFor(q, dep, i) ==
  LET rows == [m \in DOMAIN Meant(dep) |-> Table(<<dep.source, Meant(dep)[m]>>).rows]
  IN  CASE Distributed(q, dep) -> Keep(rows[1], LAMBDA row : BelongsTo(q, row, i))
        [] ~Distributed(q, dep) /\ Len(execs[q]) > 1 /\ Len(rows) > 1 -> rows[i]
        [] ~Distributed(q, dep) /\ ~(Len(execs[q]) > 1 /\ Len(rows) > 1) -> FlattenSeq(rows)

HasShard(q, row) == \E i \in DOMAIN execs[q] : BelongsTo(q, row, i)

\* Every target receives the rows that belong to it, in their order, none lost and none
\* twice, if every row belongs to a shard, and no row arrives anywhere otherwise, wherever
\* it can run and the split was not made for another database.
RowsArrive ==
  phase = "done" => \A q \in Queries : \A dep \in ToSet(conf.deps[q]) : \A i \in DOMAIN execs[q] :
    Served(q, dep, i) /\ (Splits(q, dep) => conf.database[FirstSplit(dep)] = conf.database[q]) =>
      LET c == Arrival(<<q, i>>, QName(dep.source, dep.shard))
          result == Result(c.source, c.sourcePort)
      IN  IF Distributed(q, dep) /\ \E row \in ToSet(Table(<<dep.source, 1>>).rows) : ~HasShard(q, row)
          THEN result \in {Throws, Undefined}
          ELSE result \notin {Throws, Undefined} /\ result.rows = RowsFor(q, dep, i)

-----------------------------------------------------------------------------
\* No cached result is used again that is out of date: where the text of a query was edited,
\* its own id is a new one and that of every query that depends on it, however far away.
EditInvalidates ==
  phase = "done" /\ edited # Zero => \A n \in QueryNodes :
    (\E m \in {n} \cup ToSet(Dependencies(n)) : m[1] = edited) => ids[n] # earlier[n]

\* And no other is lost, where no two executions had the same url and text: such ones share
\* their transitions, and an edit that parts them moves one to another url.
EditSpares ==
  phase = "done" /\ edited # Zero /\ (\A n, m \in QueryNodes : n # m => earlier[n][1] # earlier[m][1])
  => \A n \in QueryNodes :
       (\A m \in {n} \cup ToSet(Dependencies(n)) : m[1] # edited) => ids[n] = earlier[n]
=============================================================================
