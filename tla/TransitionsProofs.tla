------------------------- MODULE TransitionsProofs -------------------------
(***************************************************************************)
(* Proofs about Transitions, for every registry, every number of queries   *)
(* and whatever they depend on: which dependencies the graph serves, that  *)
(* it then fits together and brings every target the rows that belong to   *)
(* it, and that an edit invalidates what depends on it and nothing else.   *)
(***************************************************************************)
EXTENDS Transitions, FlattenSeqTheorems, FiniteSetTheorems

-----------------------------------------------------------------------------
\* The types of what the graph is made of; a ManyToMany has neither an id nor a url.
Url == Databases \X Nat
UrlType == Url \cup {<<>>}
TextType == UrlType \X STRING
PortType == [of : Nat, shard : Nat, no : Nat]
NodeType == Nat \X Nat
IdType == {<<>>} \cup (Seq(TextType) \X {"joined", "splitted"})
ExecutionType == [url : Url, sql : STRING, name : PortType, ports : Seq(PortType)]
StrategyType == [name : StrategyNames, shardCol : STRING]
TransitionType ==
  [kind : {"m2m", "joined", "splitted"}, id : IdType, url : UrlType, name : PortType,
   ports : Seq(PortType), strategies : Seq(StrategyType), count : Nat]
ChannelType ==
  [source : NodeType, sourcePort : PortType, target : NodeType, targetPort : PortType]

TypeOK ==
  /\ conf \in ConfigurationsOf(STRING) /\ edited \in Queries \cup {Zero}
  /\ phase \in {"urls", "transitions", "ids", "done", "failed"}
  /\ at \in Queries \X (Nat \ {0})
  /\ nodes \in Seq(TransitionType) /\ channels \in Seq(ChannelType)

-----------------------------------------------------------------------------
\* First the queries get their executions, one after the other.
Populating ==
  /\ execs = [q \in Queries |-> IF q < at[1] THEN Executions(q) ELSE <<>>]
  /\ \A q \in Queries : q < at[1] => Urls(q) # <<>>
  /\ nodes = <<>> /\ channels = <<>>

Populated ==
  /\ execs = [q \in Queries |-> Executions(q)]
  /\ \A q \in Queries : Urls(q) # <<>>

\* The channels into a transition: one to each of its ports, from the executions of s.
Feed(k, s, p) == From(<<s, p>>, Default, <<Zero, k>>, nodes[k].ports[p])
Feeds(k, s) ==
  /\ \A c \in DOMAIN channels : channels[c].target = <<Zero, k>> =>
       \E p \in DOMAIN nodes[k].ports : channels[c] = Feed(k, s, p)
  /\ \A p \in DOMAIN nodes[k].ports :
       IsSingle({c \in DOMAIN channels : channels[c] = Feed(k, s, p)})

IsJoined(node, s) ==
  /\ node.kind = "joined" /\ node.id = JoinedId(s)
  /\ node.ports = [i \in DOMAIN execs[s] |-> Numbered(i)]

\* For q the rows of s are split.
SplitsFor(q, s) == \E dep \in ToSet(conf.deps[q]) : Splits(q, dep) /\ SplittedId(dep.source) = SplittedId(s)

\* The transition is made for the first of these queries.
IsSplitted(node, s) ==
  /\ node.kind = "splitted" /\ node.id = SplittedId(s) /\ node.ports = <<execs[s][1].name>>
  /\ \E t \in Queries :
       /\ SplitsFor(t, s) /\ \A q \in Queries : SplitsFor(q, s) => t <= q
       /\ node.strategies = conf.strategies[conf.database[t]] /\ node.count = Len(execs[t])

NodesFit ==
  \A k \in DOMAIN nodes : \E s \in Queries :
    (IsJoined(nodes[k], s) \/ IsSplitted(nodes[k], s)) /\ Feeds(k, s)

-----------------------------------------------------------------------------
(***************************************************************************)
(* A dependency that is linked has one channel to each execution of its    *)
(* query, and there are no other channels to executions.                   *)
(***************************************************************************)
IsOneToOne(q, dep) == Len(execs[q]) = 1 /\ Len(Selected(dep)) = 1
IsManyToMany(q, dep) ==
  /\ Len(execs[q]) > 1 /\ Len(Selected(dep)) = Len(execs[q])
  /\ conf.database[dep.source] = conf.database[q]
IsManyToOne(q, dep) == Len(execs[q]) = 1 /\ Len(Selected(dep)) > 1
IsUnsharded(q, dep) == Len(execs[q]) > 1 /\ Len(Selected(dep)) = 1 /\ conf.own[dep.source] # Zero

Linked(q, dep) ==
  \/ IsOneToOne(q, dep) \/ IsManyToMany(q, dep) \/ IsManyToOne(q, dep)
  \/ IsUnsharded(q, dep) \/ Splits(q, dep)

\* The channel to the i-th execution of the query.
IsLink(c, q, i, dep) ==
  \/ IsOneToOne(q, dep) /\ c = From(<<dep.source, Selected(dep)[1]>>, Default, <<q, i>>, QName(dep.source, dep.shard))
  \/ IsManyToMany(q, dep) /\ c = From(<<dep.source, i>>, Default, <<q, i>>, QName(dep.source, Zero))
  \/ /\ IsManyToOne(q, dep)
     /\ \E k \in DOMAIN nodes : nodes[k].kind = "joined" /\ nodes[k].id = JoinedId(dep.source)
          /\ c = From(<<Zero, k>>, Default, <<q, i>>, QName(dep.source, Zero))
  \/ IsUnsharded(q, dep) /\ c = From(<<dep.source, 1>>, Default, <<q, i>>, execs[dep.source][1].name)
  \/ /\ Splits(q, dep)
     /\ \E k \in DOMAIN nodes : nodes[k].kind = "splitted" /\ nodes[k].id = SplittedId(dep.source)
          /\ c = From(<<Zero, k>>, Numbered(i), <<q, i>>, execs[dep.source][1].name)

Processed(q, j) == phase \in {"ids", "done"} \/ q < at[1] \/ (q = at[1] /\ j < at[2])

\* f tells the dependency that a channel was made for.
LinksFit(f) ==
  /\ \A c \in DOMAIN channels : channels[c].target \notin TransitionNodes =>
       \E q \in Queries : \E i \in DOMAIN execs[q] :
         /\ channels[c].target = <<q, i>> /\ f[c] \in DOMAIN conf.deps[q] /\ Processed(q, f[c])
         /\ IsLink(channels[c], q, i, conf.deps[q][f[c]])
  /\ \A c, d \in DOMAIN channels :
       channels[c].target \notin TransitionNodes /\ channels[c].target = channels[d].target /\ f[c] = f[d] => c = d
  /\ \A q \in Queries : \A j \in DOMAIN conf.deps[q] : \A i \in DOMAIN execs[q] :
       Processed(q, j) /\ Linked(q, conf.deps[q][j]) =>
         \E c \in DOMAIN channels : channels[c].target = <<q, i>> /\ f[c] = j

DepNumbers == UNION {DOMAIN conf.deps[q] : q \in Queries}
Linking == \E f \in [DOMAIN channels -> DepNumbers] : LinksFit(f)

-----------------------------------------------------------------------------
\* The ids of a run in which no text is the new one.
IsClean(id) == id[1][2] # NewText /\ \A text \in DOMAIN id[2] : text[2] # NewText

IdsFit ==
  /\ edited = Zero => \A q \in Queries : conf.text[q] # NewText
  /\ edited # Zero => /\ conf.text[edited] = NewText
                      /\ \A q \in Queries : \A i \in DOMAIN Urls(q) : IsClean(earlier[<<q, i>>])
  /\ phase = "done" => ~Uninitialised /\ ids = [n \in QueryNodes \cup TransitionNodes |-> ExecutionId(n)]

GraphInv ==
  /\ phase = "urls" => Populating
  /\ phase \in {"transitions", "ids", "done"} => Populated /\ (~Uninitialised => NodesFit /\ Linking)
  /\ IdsFit

IInv == TypeOK /\ GraphInv

-----------------------------------------------------------------------------
USE DEF Zero

\* The queries are the first numbers.
LEMMA QueriesAreNumbers ==
  /\ Cardinality(Queries) \in Nat \ {0} /\ 1 \in Queries
  /\ Queries = 1 .. Cardinality(Queries) /\ Queries \subseteq Nat \ {0}
<1>1. Cardinality(Queries) \in Nat
  BY QueriesAssumption, FS_CardinalityType
<1>2. Queries = 1 .. Cardinality(Queries)
  BY QueriesAssumption
<1>3. Cardinality(Queries) # 0
  BY <1>1, <1>2, QueriesAssumption
<1>4. QED
  BY <1>1, <1>2, <1>3

\* What a configuration says, field by field.
LEMMA ConfigurationFields ==
  ASSUME NEW texts, NEW c \in ConfigurationsOf(texts)
  PROVE  /\ DOMAIN c.text = Queries /\ \A q \in Queries : c.text[q] \in texts
         /\ \A q \in Queries : c.database[q] \in Databases /\ c.own[q] \in Nat
         /\ \A q \in Queries : c.deps[q] \in Seq([source : Queries, shard : Nat])
         /\ \A db \in Databases : c.size[db] \in Nat /\ c.strategies[db] \in Seq(StrategyType)
         /\ c.columns \subseteq STRING /\ c.keys \in Seq(Keys)
BY DEF ConfigurationsOf, StrategyType

\* A dependency is one of the queries, and a shard of it or none.
LEMMA DependencyFields ==
  ASSUME conf \in ConfigurationsOf(STRING), NEW q \in Queries, NEW dep \in ToSet(conf.deps[q])
  PROVE  dep.source \in Queries /\ dep.shard \in Nat
<1>1. conf.deps[q] \in Seq([source : Queries, shard : Nat])
  BY ConfigurationFields
<1>2. PICK j \in DOMAIN conf.deps[q] : dep = conf.deps[q][j]
  BY DEF ToSet
<1>3. dep \in [source : Queries, shard : Nat]
  BY <1>1, <1>2, ElementOfSeq, LenProperties
<1>4. QED
  BY <1>3

\* The last query is the one with the number of all.
LEMMA NumberOfTexts ==
  ASSUME conf \in ConfigurationsOf(STRING)
  PROVE  Len(conf.text) = Cardinality(Queries)
<1>1. conf.text \in [1 .. Cardinality(Queries) -> STRING]
  <2>1. conf.text \in [Queries -> STRING]
    BY DEF ConfigurationsOf
  <2>2. QED
    BY <2>1, QueriesAreNumbers
<1>2. QED
  BY <1>1, QueriesAreNumbers

-----------------------------------------------------------------------------
\* A query has the urls of all shards of its database, or the one it is bound to.
LEMMA UrlsOfQuery ==
  ASSUME conf \in ConfigurationsOf(STRING), NEW q \in Queries
  PROVE  /\ Urls(q) \in Seq(Url) /\ Len(Urls(q)) \in Nat /\ DOMAIN Urls(q) = 1 .. Len(Urls(q))
         /\ conf.own[q] = Zero => Len(Urls(q)) = conf.size[conf.database[q]]
         /\ conf.own[q] # Zero => Len(Urls(q)) <= 1
<1>1. conf.database[q] \in Databases /\ conf.own[q] \in Nat /\ conf.size[conf.database[q]] \in Nat
  BY ConfigurationFields
<1> DEFINE db == conf.database[q]
<1>2. CASE conf.own[q] = Zero
  <2>1. Urls(q) = [i \in 1 .. conf.size[db] |-> <<db, i>>]
    BY <1>1, <1>2 DEF Urls
  <2>2. \A i \in 1 .. conf.size[db] : <<db, i>> \in Url
    BY <1>1 DEF Url
  <2>3. QED
    BY <1>1, <1>2, <2>1, <2>2
<1>3. CASE conf.own[q] # Zero /\ conf.own[q] \in 1 .. conf.size[db]
  <2>1. Urls(q) = <<<<db, conf.own[q]>>>>
    BY <1>1, <1>3 DEF Urls
  <2>2. <<db, conf.own[q]>> \in Url
    BY <1>1 DEF Url
  <2>3. QED
    BY <1>1, <1>3, <2>1, <2>2
<1>4. CASE conf.own[q] # Zero /\ conf.own[q] > conf.size[db]
  <2>1. Urls(q) = <<>>
    BY <1>1, <1>4 DEF Urls
  <2>2. QED
    BY <1>4, <2>1
<1>5. QED
  BY <1>1, <1>2, <1>3, <1>4

\* The executions of a query: one for each of its urls.
LEMMA ExecutionsOfQuery ==
  ASSUME conf \in ConfigurationsOf(STRING), NEW q \in Queries
  PROVE  /\ Executions(q) \in Seq(ExecutionType) /\ Len(Executions(q)) = Len(Urls(q))
         /\ DOMAIN Executions(q) = 1 .. Len(Urls(q))
         /\ \A i \in DOMAIN Urls(q) :
              /\ Executions(q)[i].url = Urls(q)[i] /\ Executions(q)[i].sql = conf.text[q]
              /\ Executions(q)[i].name = ExecName(q, i, Len(Urls(q)))
              /\ DOMAIN Executions(q)[i].ports = DOMAIN conf.deps[q]
              /\ \A j \in DOMAIN conf.deps[q] : Executions(q)[i].ports[j] =
                   QName(conf.deps[q][j].source, conf.deps[q][j].shard)
<1> DEFINE ports == [j \in DOMAIN conf.deps[q] |-> QName(conf.deps[q][j].source, conf.deps[q][j].shard)]
           exec(i) == [url |-> Urls(q)[i], sql |-> conf.text[q], name |-> ExecName(q, i, Len(Urls(q))), ports |-> ports]
<1>1. Urls(q) \in Seq(Url) /\ Len(Urls(q)) \in Nat /\ DOMAIN Urls(q) = 1 .. Len(Urls(q))
  BY UrlsOfQuery
<1>2. q \in Nat /\ conf.own[q] \in Nat /\ conf.text[q] \in STRING
  BY ConfigurationFields, QueriesAreNumbers
<1>3. ports \in Seq(PortType)
  <2>1. conf.deps[q] \in Seq([source : Queries, shard : Nat])
    BY ConfigurationFields
  <2>2. ASSUME NEW j \in DOMAIN conf.deps[q]
        PROVE  QName(conf.deps[q][j].source, conf.deps[q][j].shard) \in PortType
    <3>1. conf.deps[q][j] \in [source : Queries, shard : Nat]
      BY <2>1, ElementOfSeq, LenProperties
    <3>2. conf.deps[q][j].source \in Nat /\ conf.deps[q][j].shard \in Nat
      BY <3>1, QueriesAreNumbers
    <3>3. QED
      BY <3>2 DEF QName, PortType
  <2>3. ports \in [1 .. Len(conf.deps[q]) -> PortType] /\ Len(conf.deps[q]) \in Nat
    BY <2>1, <2>2, LenProperties
  <2> HIDE DEF ports
  <2>4. QED
    BY <2>3
<1>4. Executions(q) = [i \in 1 .. Len(Urls(q)) |-> exec(i)]
  BY <1>1 DEF Executions
<1> HIDE DEF ports
<1>5. ASSUME NEW i \in 1 .. Len(Urls(q)) PROVE exec(i) \in ExecutionType
  <2>1. Urls(q)[i] \in Url
    BY <1>1, ElementOfSeq
  <2>2. ExecName(q, i, Len(Urls(q))) \in PortType
    BY <1>1, <1>2 DEF ExecName, PortType
  <2>3. QED
    BY <1>2, <1>3, <2>1, <2>2 DEF ExecutionType
<1> HIDE DEF exec
<1>6. Executions(q) \in Seq(ExecutionType) /\ Len(Executions(q)) = Len(Urls(q))
  BY <1>1, <1>4, <1>5
<1>7. \A i \in 1 .. Len(Urls(q)) : Executions(q)[i] = exec(i)
  BY <1>4
<1>8. DOMAIN ports = DOMAIN conf.deps[q] /\ \A j \in DOMAIN conf.deps[q] : ports[j] =
        QName(conf.deps[q][j].source, conf.deps[q][j].shard)
  BY DEF ports
<1>9. \A i : exec(i).url = Urls(q)[i] /\ exec(i).sql = conf.text[q] /\ exec(i).ports = ports
             /\ exec(i).name = ExecName(q, i, Len(Urls(q)))
  BY DEF exec
<1>10. QED
  BY <1>1, <1>4, <1>6, <1>7, <1>8, <1>9

\* Once all have been made.
LEMMA ExecutionsMade ==
  ASSUME conf \in ConfigurationsOf(STRING), Populated, NEW q \in Queries
  PROVE  /\ execs[q] \in Seq(ExecutionType) /\ Len(execs[q]) \in Nat \ {0}
         /\ DOMAIN execs[q] = 1 .. Len(execs[q]) /\ DOMAIN execs[q] = DOMAIN Urls(q)
         /\ conf.own[q] = Zero => Len(execs[q]) = conf.size[conf.database[q]]
         /\ conf.own[q] # Zero => Len(execs[q]) = 1
         /\ \A i \in DOMAIN execs[q] :
              /\ execs[q][i].url \in Url /\ execs[q][i].sql = conf.text[q]
              /\ execs[q][i].name = ExecName(q, i, Len(execs[q])) /\ execs[q][i].name \in PortType
              /\ DOMAIN execs[q][i].ports = DOMAIN conf.deps[q]
              /\ \A j \in DOMAIN conf.deps[q] : execs[q][i].ports[j] =
                   QName(conf.deps[q][j].source, conf.deps[q][j].shard)
<1>1. execs[q] = Executions(q) /\ Urls(q) # <<>>
  BY DEF Populated
<1>2. Len(Urls(q)) \in Nat \ {0} /\ DOMAIN Urls(q) = 1 .. Len(Urls(q))
  <2>1. Urls(q) \in Seq(Url)
    BY UrlsOfQuery
  <2>2. QED
    BY <1>1, <2>1, EmptySeq, LenProperties
<1>3. execs[q] \in Seq(ExecutionType) /\ Len(execs[q]) = Len(Urls(q)) /\ DOMAIN execs[q] = 1 .. Len(execs[q])
  BY <1>1, ExecutionsOfQuery
<1>4. ASSUME NEW i \in DOMAIN execs[q] PROVE execs[q][i].url \in Url /\ execs[q][i].name \in PortType
  <2>1. execs[q][i] \in ExecutionType
    BY <1>3, ElementOfSeq
  <2>2. QED
    BY <2>1 DEF ExecutionType
<1>5. \A i \in DOMAIN execs[q] :
        /\ execs[q][i].sql = conf.text[q]
        /\ execs[q][i].name = ExecName(q, i, Len(execs[q]))
        /\ DOMAIN execs[q][i].ports = DOMAIN conf.deps[q]
        /\ \A j \in DOMAIN conf.deps[q] : execs[q][i].ports[j] =
                   QName(conf.deps[q][j].source, conf.deps[q][j].shard)
  BY <1>1, <1>2, <1>3, ExecutionsOfQuery
<1>6. (conf.own[q] = Zero => Len(Urls(q)) = conf.size[conf.database[q]]) /\ (conf.own[q] # Zero => Len(Urls(q)) <= 1)
  BY UrlsOfQuery
<1>7. QED
  BY <1>2, <1>3, <1>4, <1>5, <1>6

\* The executions that a dependency selects.
LEMMA SelectedExecutions ==
  ASSUME conf \in ConfigurationsOf(STRING), Populated, NEW dep, dep.source \in Queries, dep.shard \in Nat
  PROVE  /\ Selected(dep) \in Seq(Nat) /\ Len(Selected(dep)) \in Nat
         /\ DOMAIN Selected(dep) = 1 .. Len(Selected(dep))
         /\ \A i \in DOMAIN Selected(dep) : Selected(dep)[i] \in DOMAIN execs[dep.source]
         /\ dep.shard = Zero => /\ Len(Selected(dep)) = Len(execs[dep.source])
                                /\ \A i \in DOMAIN Selected(dep) : Selected(dep)[i] = i
         /\ dep.shard \in DOMAIN execs[dep.source] => Selected(dep) = <<dep.shard>> /\ Len(Selected(dep)) = 1
         /\ dep.shard \notin {Zero} \cup DOMAIN execs[dep.source] => Len(Selected(dep)) = 0
<1> DEFINE all == DOMAIN execs[dep.source]
           n == Len(execs[dep.source])
<1>1. n \in Nat /\ all = 1 .. n
  BY ExecutionsMade
<1>2. CASE dep.shard = Zero
  <2>1. Selected(dep) = [i \in 1 .. n |-> i]
    BY <1>1, <1>2 DEF Selected
  <2>2. QED
    BY <1>1, <1>2, <2>1
<1>3. CASE dep.shard \in all
  <2>1. Selected(dep) = <<dep.shard>>
    BY <1>1, <1>3 DEF Selected
  <2>2. QED
    BY <1>1, <1>3, <2>1
<1>4. CASE dep.shard \notin {Zero} \cup all
  <2>1. Selected(dep) = <<>>
    BY <1>1, <1>4 DEF Selected
  <2>2. QED
    BY <1>1, <1>4, <2>1
<1>5. QED
  BY <1>2, <1>3, <1>4

-----------------------------------------------------------------------------
\* A set of numbers that is not empty has its minimum.
LEMMA MinOfNumbers ==
  ASSUME NEW S, S \subseteq Nat, S # {}
  PROVE  Min(S) \in S /\ \A x \in S : Min(S) <= x
<1>1. PICK x \in S : \A y \in S : ~(y < x)
  BY LeastOf
<1>2. \A y \in S : x <= y
  BY <1>1
<1>3. QED
  BY <1>2 DEF Min

\* exists() and getQueryExecution(): the transition with an id, if there is one.
LEMMA ExistingTransition ==
  ASSUME nodes \in Seq(TransitionType), NEW id
  PROVE  /\ Existing(id) = 0 => \A k \in DOMAIN nodes : nodes[k].id # id
         /\ Existing(id) # 0 => Existing(id) \in DOMAIN nodes /\ nodes[Existing(id)].id = id
<1> DEFINE I == {k \in 1 .. Len(nodes) : nodes[k].id = id}
<1>1. Existing(id) = IF I # {} THEN Min(I) ELSE 0
  BY DEF Existing, SelectInSeq
<1>2. Len(nodes) \in Nat /\ DOMAIN nodes = 1 .. Len(nodes)
  BY LenProperties
<1>3. CASE I = {}
  <2>1. Existing(id) = 0
    BY <1>1, <1>3
  <2>2. QED
    BY <1>2, <1>3, <2>1
<1>4. CASE I # {}
  <2>1. Min(I) \in I
    <3>1. I \subseteq Nat
      BY <1>2
    <3> HIDE DEF I
    <3>2. QED
      BY <1>4, <3>1, MinOfNumbers
  <2>2. QED
    BY <1>1, <1>2, <1>4, <2>1
<1>5. QED
  BY <1>3, <1>4

\* The text of an execution, and the ids of the transitions that are made for a query.
LEMMA TransitionIds ==
  ASSUME conf \in ConfigurationsOf(STRING), Populated, NEW q \in Queries
  PROVE  /\ \A i \in DOMAIN execs[q] : Text(<<q, i>>) = <<execs[q][i].url, conf.text[q]>> /\ Text(<<q, i>>) \in TextType
         /\ JoinedId(q) \in IdType /\ SplittedId(q) \in IdType /\ JoinedId(q)[2] = "joined" /\ SplittedId(q)[2] = "splitted"
         /\ JoinedId(q) # <<>> /\ SplittedId(q) # <<>>
         /\ Len(JoinedId(q)[1]) = Len(execs[q])
         /\ \A i \in DOMAIN execs[q] : JoinedId(q)[1][i] = Text(<<q, i>>)
<1>1. q # 0 /\ q \in Nat /\ conf.text[q] \in STRING
  BY QueriesAreNumbers, ConfigurationFields
<1>2. Len(execs[q]) \in Nat \ {0} /\ DOMAIN execs[q] = 1 .. Len(execs[q])
      /\ \A i \in DOMAIN execs[q] : execs[q][i].url \in Url /\ execs[q][i].sql = conf.text[q]
  BY ExecutionsMade
<1>3. ASSUME NEW i \in DOMAIN execs[q] PROVE Text(<<q, i>>) = <<execs[q][i].url, conf.text[q]>> /\ Text(<<q, i>>) \in TextType
  <2>1. Node(<<q, i>>) = execs[q][i]
    BY <1>1 DEF Node
  <2>2. Text(<<q, i>>) = <<execs[q][i].url, conf.text[q]>>
    BY <1>2, <2>1 DEF Text
  <2>3. execs[q][i].url \in UrlType
    BY <1>2 DEF UrlType
  <2>4. QED
    BY <1>1, <2>2, <2>3 DEF TextType
<1> DEFINE texts == [i \in 1 .. Len(execs[q]) |-> Text(<<q, i>>)]
<1>4. texts \in Seq(TextType) /\ Len(texts) = Len(execs[q]) /\ \A i \in DOMAIN execs[q] : texts[i] = Text(<<q, i>>)
  BY <1>2, <1>3
<1>5. JoinedId(q) = <<texts, "joined">>
  BY <1>2 DEF JoinedId
<1>6. SplittedId(q) = <<<<Text(<<q, 1>>)>>, "splitted">>
  BY DEF SplittedId
<1>7. <<Text(<<q, 1>>)>> \in Seq(TextType)
  BY <1>2, <1>3
<1> HIDE DEF texts
<1>8. JoinedId(q) \in IdType /\ SplittedId(q) \in IdType
  <2>1. <<texts, "joined">> \in Seq(TextType) \X {"joined", "splitted"}
    BY <1>4
  <2>2. <<<<Text(<<q, 1>>)>>, "splitted">> \in Seq(TextType) \X {"joined", "splitted"}
    BY <1>7
  <2>3. QED
    BY <1>5, <1>6, <2>1, <2>2 DEF IdType
<1>9. JoinedId(q) # <<>> /\ SplittedId(q) # <<>>
  BY <1>5, <1>6
<1>10. QED
  BY <1>3, <1>4, <1>5, <1>6, <1>8, <1>9

-----------------------------------------------------------------------------
(***************************************************************************)
(* The graph only grows: what was said of its nodes and channels stays     *)
(* true when channels are appended and the nodes there are stay.           *)
(***************************************************************************)
Grows(more) ==
  /\ UNCHANGED <<conf, execs>> /\ channels' = channels \o more
  /\ \A k \in DOMAIN nodes : k \in DOMAIN nodes' /\ nodes'[k] = nodes[k]

\* The places of two sequences in the one they make together.
Appends(u, s, t) ==
  /\ Len(s) \in Nat /\ Len(t) \in Nat /\ DOMAIN u = 1 .. Len(s) + Len(t)
  /\ DOMAIN s = 1 .. Len(s) /\ DOMAIN t = 1 .. Len(t)
  /\ \A c \in DOMAIN s : c \in DOMAIN u /\ u[c] = s[c]
  /\ \A m \in DOMAIN t : Len(s) + m \in DOMAIN u /\ u[Len(s) + m] = t[m]
  /\ \A c \in DOMAIN u : c \in DOMAIN s \/ \E m \in DOMAIN t : c = Len(s) + m /\ u[c] = t[m]

LEMMA Appended ==
  ASSUME NEW S, NEW s \in Seq(S), NEW t \in Seq(S)
  PROVE  s \o t \in Seq(S) /\ Appends(s \o t, s, t)
<1> DEFINE u == s \o t
<1>1. Len(s) \in Nat /\ Len(t) \in Nat /\ DOMAIN s = 1 .. Len(s) /\ DOMAIN t = 1 .. Len(t)
  BY LenProperties
<1>2. /\ u \in Seq(S) /\ Len(u) = Len(s) + Len(t)
      /\ \A i \in 1 .. Len(s) + Len(t) : u[i] = IF i <= Len(s) THEN s[i] ELSE t[i - Len(s)]
  BY ConcatProperties
<1> HIDE DEF u
<1>3. DOMAIN u = 1 .. Len(s) + Len(t)
  BY <1>2, LenProperties
<1>4. ASSUME NEW c \in DOMAIN u, c \notin DOMAIN s PROVE \E m \in DOMAIN t : c = Len(s) + m /\ u[c] = t[m]
  <2>1. c - Len(s) \in DOMAIN t /\ c = Len(s) + (c - Len(s)) /\ u[c] = t[c - Len(s)]
    BY <1>1, <1>2, <1>3, <1>4
  <2>2. QED
    BY <2>1
<1>5. \A c \in DOMAIN s : c \in DOMAIN u /\ u[c] = s[c]
  BY <1>1, <1>2, <1>3
<1>6. \A m \in DOMAIN t : Len(s) + m \in DOMAIN u /\ u[Len(s) + m] = t[m]
  BY <1>1, <1>2, <1>3
<1>7. Appends(u, s, t)
  BY <1>1, <1>3, <1>4, <1>5, <1>6 DEF Appends
<1>8. QED
  BY <1>2, <1>7 DEF u

\* What the texts of the queries say does not change with the transitions.
LEMMA TextsStay ==
  ASSUME conf \in ConfigurationsOf(STRING), UNCHANGED <<conf, execs>>
  PROVE  /\ \A q \in Queries : JoinedId(q)' = JoinedId(q) /\ SplittedId(q)' = SplittedId(q)
         /\ \A q, s \in Queries : SplitsFor(q, s)' = SplitsFor(q, s)
<1>1. ASSUME NEW q \in Queries, NEW i PROVE Text(<<q, i>>)' = Text(<<q, i>>)
  <2>1. q # 0
    BY QueriesAreNumbers
  <2>2. QED
    BY <2>1 DEF Text, Node
<1>2. \A q \in Queries : JoinedId(q)' = JoinedId(q) /\ SplittedId(q)' = SplittedId(q)
  BY <1>1 DEF JoinedId, SplittedId
<1>3. ASSUME NEW q \in Queries, NEW s \in Queries PROVE SplitsFor(q, s)' = SplitsFor(q, s)
  <2>1. \A dep \in ToSet(conf.deps[q]) : dep.source \in Queries
    BY DependencyFields
  <2>2. \A dep : Splits(q, dep)' = Splits(q, dep)
    BY DEF Splits, Selected
  <2>3. \A dep \in ToSet(conf.deps[q]) : SplittedId(dep.source)' = SplittedId(dep.source)
    BY <1>2, <2>1
  <2>4. QED
    BY <1>2, <2>2, <2>3 DEF SplitsFor
<1>4. QED
  BY <1>2, <1>3

LEMMA KindsStay ==
  ASSUME conf \in ConfigurationsOf(STRING), UNCHANGED <<conf, execs>>, NEW node, NEW s \in Queries
  PROVE  IsJoined(node, s)' = IsJoined(node, s) /\ IsSplitted(node, s)' = IsSplitted(node, s)
BY TextsStay DEF IsJoined, IsSplitted

LEMMA LinkStays ==
  ASSUME conf \in ConfigurationsOf(STRING), NEW more, Grows(more), NEW c, NEW q \in Queries, NEW i, NEW dep,
         dep.source \in Queries
  PROVE  /\ IsLink(c, q, i, dep) => IsLink(c, q, i, dep)'
         /\ Linked(q, dep)' = Linked(q, dep)
<1>1. UNCHANGED <<conf, execs>> /\ \A k \in DOMAIN nodes : k \in DOMAIN nodes' /\ nodes'[k] = nodes[k]
  BY DEF Grows
<1>2. Selected(dep)' = Selected(dep)
  BY <1>1 DEF Selected
<1>3. /\ IsOneToOne(q, dep)' = IsOneToOne(q, dep) /\ IsManyToMany(q, dep)' = IsManyToMany(q, dep)
      /\ IsManyToOne(q, dep)' = IsManyToOne(q, dep) /\ IsUnsharded(q, dep)' = IsUnsharded(q, dep)
      /\ Splits(q, dep)' = Splits(q, dep)
  BY <1>1, <1>2 DEF IsOneToOne, IsManyToMany, IsManyToOne, IsUnsharded, Splits
<1>4. JoinedId(dep.source)' = JoinedId(dep.source) /\ SplittedId(dep.source)' = SplittedId(dep.source)
  BY <1>1, TextsStay
<1>5. Linked(q, dep)' = Linked(q, dep)
  BY <1>3 DEF Linked
<1>6. ASSUME IsLink(c, q, i, dep) PROVE IsLink(c, q, i, dep)'
  <2>1. CASE IsOneToOne(q, dep) /\ c = From(<<dep.source, Selected(dep)[1]>>, Default, <<q, i>>, QName(dep.source, dep.shard))
    BY <1>1, <1>2, <1>3, <2>1 DEF IsLink
  <2>2. CASE IsManyToMany(q, dep) /\ c = From(<<dep.source, i>>, Default, <<q, i>>, QName(dep.source, Zero))
    BY <1>3, <2>2 DEF IsLink
  <2>3. CASE /\ IsManyToOne(q, dep)
             /\ \E k \in DOMAIN nodes : nodes[k].kind = "joined" /\ nodes[k].id = JoinedId(dep.source)
                  /\ c = From(<<Zero, k>>, Default, <<q, i>>, QName(dep.source, Zero))
    <3>1. \E k \in DOMAIN nodes' : nodes'[k].kind = "joined" /\ nodes'[k].id = JoinedId(dep.source)'
                  /\ c = From(<<Zero, k>>, Default, <<q, i>>, QName(dep.source, Zero))
      BY <1>1, <1>4, <2>3
    <3>2. QED
      BY <1>3, <2>3, <3>1 DEF IsLink
  <2>4. CASE IsUnsharded(q, dep) /\ c = From(<<dep.source, 1>>, Default, <<q, i>>, execs[dep.source][1].name)
    BY <1>1, <1>3, <2>4 DEF IsLink
  <2>5. CASE /\ Splits(q, dep)
             /\ \E k \in DOMAIN nodes : nodes[k].kind = "splitted" /\ nodes[k].id = SplittedId(dep.source)
                  /\ c = From(<<Zero, k>>, Numbered(i), <<q, i>>, execs[dep.source][1].name)
    <3>1. \E k \in DOMAIN nodes' : nodes'[k].kind = "splitted" /\ nodes'[k].id = SplittedId(dep.source)'
                  /\ c = From(<<Zero, k>>, Numbered(i), <<q, i>>, execs'[dep.source][1].name)
      BY <1>1, <1>4, <2>5
    <3>2. QED
      BY <1>3, <2>5, <3>1 DEF IsLink
  <2>6. QED
    BY <1>6, <2>1, <2>2, <2>3, <2>4, <2>5 DEF IsLink
<1>7. QED
  BY <1>5, <1>6

\* A transition keeps its channels, and gets no other from channels to other nodes.
LEMMA FeedsStay ==
  ASSUME channels \in Seq(ChannelType), NEW more \in Seq(ChannelType), Grows(more),
         NEW k \in DOMAIN nodes, NEW s, Feeds(k, s), \A m \in DOMAIN more : more[m].target # <<Zero, k>>
  PROVE  Feeds(k, s)'
<1>1. nodes'[k] = nodes[k] /\ channels' = channels \o more
  BY DEF Grows
<1>2. /\ \A c \in DOMAIN channels : c \in DOMAIN channels' /\ channels'[c] = channels[c]
      /\ \A c \in DOMAIN channels' : c \in DOMAIN channels \/ channels'[c].target # <<Zero, k>>
  <2>1. Appends(channels', channels, more)
    BY <1>1, Appended
  <2>2. QED
    BY <2>1 DEF Appends
<1>3. \A p : Feed(k, s, p)' = Feed(k, s, p) /\ Feed(k, s, p).target = <<Zero, k>>
  BY <1>1 DEF Feed, From
<1>4. \A p : {c \in DOMAIN channels' : channels'[c] = Feed(k, s, p)} = {c \in DOMAIN channels : channels[c] = Feed(k, s, p)}
  BY <1>2, <1>3
<1>5. \A c \in DOMAIN channels' : channels'[c].target = <<Zero, k>> =>
       \E p \in DOMAIN nodes'[k].ports : channels'[c] = Feed(k, s, p)'
  BY <1>1, <1>2, <1>3 DEF Feeds
<1>6. ASSUME NEW p \in DOMAIN nodes'[k].ports
      PROVE  IsSingle({c \in DOMAIN channels' : channels'[c] = Feed(k, s, p)'})
  <2>1. IsSingle({c \in DOMAIN channels : channels[c] = Feed(k, s, p)})
    BY <1>1 DEF Feeds
  <2>2. {c \in DOMAIN channels' : channels'[c] = Feed(k, s, p)'} = {c \in DOMAIN channels : channels[c] = Feed(k, s, p)}
    BY <1>3, <1>4
  <2>3. QED
    BY <2>1, <2>2
<1>7. QED
  BY <1>5, <1>6 DEF Feeds

LEMMA ChannelFields ==
  \A a, b, c, d : /\ From(a, b, c, d).source = a /\ From(a, b, c, d).sourcePort = b
                  /\ From(a, b, c, d).target = c /\ From(a, b, c, d).targetPort = d
BY DEF From

\* The channels that feed a new transition.
Made(feeds, s, k, ports) ==
  /\ DOMAIN feeds = DOMAIN ports
  /\ \A p \in DOMAIN feeds : feeds[p] = From(<<s, p>>, Default, <<Zero, k>>, ports[p])

LEMMA MadeFeeds ==
  ASSUME NEW feeds, NEW s, NEW k, nodes'[k] \in TransitionType, Made(feeds, s, k, nodes'[k].ports)
  PROVE  /\ DOMAIN nodes'[k].ports = DOMAIN feeds
         /\ \A p \in DOMAIN feeds : feeds[p] = Feed(k, s, p)' /\ feeds[p].target = <<Zero, k>>
BY ChannelFields DEF Made, Feed

\* A new transition is fed by the channels it is made with.
LEMMA FeedsMade ==
  ASSUME NEW feeds, NEW links, NEW more, Appends(channels', channels, more), Appends(more, feeds, links),
         NEW k, NEW s,
         \A c \in DOMAIN channels : channels[c].target # <<Zero, k>>,
         \A m \in DOMAIN links : links[m].target # <<Zero, k>>,
         nodes'[k] \in TransitionType, Made(feeds, s, k, nodes'[k].ports)
  PROVE  Feeds(k, s)'
<1> DEFINE n == Len(channels)
<1>0. /\ DOMAIN nodes'[k].ports = DOMAIN feeds
      /\ \A p \in DOMAIN feeds : feeds[p] = Feed(k, s, p)'
  BY MadeFeeds
<1>1. /\ \A p \in DOMAIN feeds : p \in DOMAIN more /\ more[p] = feeds[p]
      /\ \A m \in DOMAIN more : m \in DOMAIN feeds \/ more[m].target # <<Zero, k>>
  <2>1. /\ \A p \in DOMAIN feeds : p \in DOMAIN more /\ more[p] = feeds[p]
        /\ \A m \in DOMAIN more : m \in DOMAIN feeds \/ \E l \in DOMAIN links : more[m] = links[l]
    BY DEF Appends
  <2>2. QED
    BY <2>1
<1>3. /\ n \in Nat /\ \A m \in DOMAIN more : m \in Nat
      /\ \A c \in DOMAIN channels : c \in DOMAIN channels' /\ channels'[c] = channels[c]
      /\ \A m \in DOMAIN more : n + m \in DOMAIN channels' /\ channels'[n + m] = more[m]
      /\ \A c \in DOMAIN channels' : c \in DOMAIN channels
           \/ \E m \in DOMAIN more : c = n + m /\ channels'[c] = more[m]
  <2>1. Appends(channels', channels, more)
    OBVIOUS
  <2>2. n \in Nat /\ Len(more) \in Nat /\ DOMAIN more = 1 .. Len(more)
    BY <2>1 DEF Appends
  <2>3. \A m \in DOMAIN more : m \in Nat
    BY <2>2
  <2>4. \A m \in DOMAIN more : n + m \in DOMAIN channels' /\ channels'[n + m] = more[m]
    BY <2>1 DEF Appends
  <2>5. \A c \in DOMAIN channels' : c \in DOMAIN channels
           \/ \E m \in DOMAIN more : c = n + m /\ channels'[c] = more[m]
    BY <2>1 DEF Appends
  <2>6. \A c \in DOMAIN channels : c \in DOMAIN channels' /\ channels'[c] = channels[c]
    BY <2>1 DEF Appends
  <2>7. QED
    BY <2>2, <2>3, <2>4, <2>5, <2>6
<1> HIDE DEF n
<1>4. ASSUME NEW c \in DOMAIN channels', channels'[c].target = <<Zero, k>>
      PROVE  \E p \in DOMAIN feeds : c = n + p /\ channels'[c] = Feed(k, s, p)'
  <2>1. c \notin DOMAIN channels
    BY <1>3, <1>4
  <2>2. PICK m \in DOMAIN more : c = n + m /\ channels'[c] = more[m]
    BY <1>3, <2>1
  <2>3. m \in DOMAIN feeds
    BY <1>1, <1>4, <2>2
  <2>4. QED
    BY <1>0, <1>1, <2>2, <2>3
<1>5. \A p, r : Feed(k, s, p)' = Feed(k, s, r)' => p = r
  BY DEF Feed, From
<1>6. \A p : (Feed(k, s, p)').target = <<Zero, k>>
  BY DEF Feed, From
<1>7. ASSUME NEW p \in DOMAIN nodes'[k].ports
      PROVE  IsSingle({c \in DOMAIN channels' : channels'[c] = Feed(k, s, p)'})
  <2>0. p \in DOMAIN feeds
    BY <1>0
  <2>1. n + p \in DOMAIN channels' /\ channels'[n + p] = Feed(k, s, p)'
    BY <1>0, <1>1, <1>3, <2>0
  <2>2. ASSUME NEW c \in DOMAIN channels', channels'[c] = Feed(k, s, p)' PROVE c = n + p
    <3>1. channels'[c].target = <<Zero, k>>
      BY <1>6, <2>2
    <3>2. PICK r \in DOMAIN feeds : c = n + r /\ channels'[c] = Feed(k, s, r)'
      BY <1>4, <3>1
    <3>3. r = p
      BY <1>5, <2>2, <3>2
    <3>4. QED
      BY <3>2, <3>3
  <2>3. {c \in DOMAIN channels' : channels'[c] = Feed(k, s, p)'} = {n + p}
    BY <2>1, <2>2
  <2>4. QED
    BY <2>3 DEF IsSingle
<1>8. \A c \in DOMAIN channels' : channels'[c].target = <<Zero, k>> =>
        \E p \in DOMAIN nodes'[k].ports : channels'[c] = Feed(k, s, p)'
  BY <1>0, <1>4
<1>9. QED
  BY <1>7, <1>8 DEF Feeds

\* All transitions are fed if those that are new are.
LEMMA NodesStay ==
  ASSUME conf \in ConfigurationsOf(STRING), channels \in Seq(ChannelType), NEW more \in Seq(ChannelType), Grows(more),
         NodesFit, \A m \in DOMAIN more : \A k \in DOMAIN nodes : more[m].target # <<Zero, k>>,
         \A k \in DOMAIN nodes' \ DOMAIN nodes : \E s \in Queries :
           (IsJoined(nodes'[k], s) \/ IsSplitted(nodes'[k], s)) /\ Feeds(k, s)'
  PROVE  NodesFit'
<1>0. UNCHANGED <<conf, execs>> /\ \A k \in DOMAIN nodes : nodes'[k] = nodes[k]
  BY DEF Grows
<1>1. ASSUME NEW k \in DOMAIN nodes', NEW s \in Queries, Feeds(k, s)',
             IsJoined(nodes'[k], s) \/ IsSplitted(nodes'[k], s)
      PROVE  ((IsJoined(nodes[k], s) \/ IsSplitted(nodes[k], s)) /\ Feeds(k, s))'
  <2>1. IsJoined(nodes'[k], s) => IsJoined(nodes[k], s)'
    BY <1>0, TextsStay DEF IsJoined
  <2>2. IsSplitted(nodes'[k], s) => IsSplitted(nodes[k], s)'
    BY <1>0, TextsStay DEF IsSplitted
  <2>3. QED
    BY <1>1, <2>1, <2>2
<1>2. ASSUME NEW k \in DOMAIN nodes
      PROVE  \E s \in Queries : (IsJoined(nodes'[k], s) \/ IsSplitted(nodes'[k], s)) /\ Feeds(k, s)'
  <2>1. PICK s \in Queries : (IsJoined(nodes[k], s) \/ IsSplitted(nodes[k], s)) /\ Feeds(k, s)
    BY DEF NodesFit
  <2>2. Feeds(k, s)'
    BY <2>1, FeedsStay
  <2>3. QED
    BY <1>0, <2>1, <2>2
<1>3. QED
  BY <1>1, <1>2 DEF NodesFit

\* The channels that are made for a dependency, with those of the transition it may need.
Links(more, q, dep) ==
  /\ \A m \in DOMAIN more : more[m].target \notin TransitionNodes' =>
       \E i \in DOMAIN execs[q] : more[m].target = <<q, i>> /\ IsLink(more[m], q, i, dep)'
  /\ \A l, m \in DOMAIN more : more[l].target \notin TransitionNodes' /\ more[l].target = more[m].target => l = m
  /\ Linked(q, dep) => \A i \in DOMAIN execs[q] : \E m \in DOMAIN more : more[m].target = <<q, i>>

\* The dependency that is next, and what is processed with it.
LEMMA NextDependency ==
  ASSUME conf \in ConfigurationsOf(STRING), at \in Queries \X (Nat \ {0}), Pending
  PROVE  /\ Target \in Queries /\ Target \in Nat /\ at[2] \in Nat \ {0}
         /\ at[2] \in DOMAIN conf.deps[Target] /\ Dep = conf.deps[Target][at[2]]
         /\ Dep \in ToSet(conf.deps[Target]) /\ Dep.source \in Queries /\ Dep.shard \in Nat
         /\ at[2] \in DepNumbers
<1>1. Target \in Queries /\ Target \in Nat /\ at[2] \in Nat \ {0}
  BY QueriesAreNumbers DEF Target
<1>2. at[2] \in DOMAIN conf.deps[Target]
  <2>1. conf.deps[Target] \in Seq([source : Queries, shard : Nat])
    BY <1>1, ConfigurationFields
  <2>2. QED
    BY <1>1, <2>1, LenProperties DEF Pending, Target
<1>3. Dep = conf.deps[Target][at[2]]
  BY DEF Dep, Target
<1>4. Dep \in ToSet(conf.deps[Target])
  BY <1>2, <1>3 DEF ToSet
<1>5. QED
  BY <1>1, <1>2, <1>3, <1>4, DependencyFields DEF DepNumbers

LEMMA ProcessedNext ==
  ASSUME at \in Queries \X (Nat \ {0}), Pending, phase' = phase, at' = <<at[1], at[2] + 1>>
  PROVE  /\ \A q \in Queries, j \in Nat : Processed(q, j)' <=> Processed(q, j) \/ (q = Target /\ j = at[2])
         /\ ~Processed(Target, at[2])
<1>1. phase = "transitions" /\ at[1] \in Nat /\ at[2] \in Nat
  BY QueriesAreNumbers DEF Pending
<1>2. Queries \subseteq Nat
  BY QueriesAreNumbers
<1>3. QED
  BY <1>1, <1>2 DEF Processed, Target

LEMMA LinksGrow ==
  ASSUME conf \in ConfigurationsOf(STRING), at \in Queries \X (Nat \ {0}), Pending,
         phase' = phase, at' = <<at[1], at[2] + 1>>, channels \in Seq(ChannelType),
         NEW more \in Seq(ChannelType), Grows(more), NEW t, NEW dep, t = Target, dep = Dep,
         Links(more, t, dep), Linking
  PROVE  Linking'
<1> DEFINE n == Len(channels)
<1>1. Appends(channels', channels, more)
  BY Appended DEF Grows
<1>2. /\ UNCHANGED <<conf, execs>> /\ TransitionNodes \subseteq TransitionNodes'
      /\ DepNumbers' = DepNumbers
  BY DEF Grows, TransitionNodes, DepNumbers
<1>3. PICK f \in [DOMAIN channels -> DepNumbers] : LinksFit(f)
  BY DEF Linking
<1>3a. \A q \in Queries : \A j \in DOMAIN conf.deps[q] : \A i \in DOMAIN execs[q] :
        Processed(q, j) /\ Linked(q, conf.deps[q][j]) =>
          \E c \in DOMAIN channels : channels[c].target = <<q, i>> /\ f[c] = j
  BY <1>3 DEF LinksFit
<1>4. PICK g \in [DOMAIN channels' -> DepNumbers] :
        \A c \in DOMAIN channels' : g[c] = IF c \in DOMAIN channels THEN f[c] ELSE at[2]
  <2>1. \A c \in DOMAIN channels' : (IF c \in DOMAIN channels THEN f[c] ELSE at[2]) \in DepNumbers
    BY NextDependency
  <2>2. [c \in DOMAIN channels' |-> IF c \in DOMAIN channels THEN f[c] ELSE at[2]] \in [DOMAIN channels' -> DepNumbers]
    BY <2>1
  <2>3. QED
    BY <2>2
<1>5. \A c \in DOMAIN channels : c \in DOMAIN channels' /\ channels'[c] = channels[c] /\ g[c] = f[c]
  BY <1>1, <1>4 DEF Appends
<1>6. \A c \in DOMAIN channels' : c \in DOMAIN channels
        \/ (c \notin DOMAIN channels /\ g[c] = at[2] /\ \E m \in DOMAIN more : c = n + m /\ channels'[c] = more[m])
  BY <1>1, <1>4 DEF Appends
<1>7. \A m \in DOMAIN more : n + m \in DOMAIN channels' /\ n + m \notin DOMAIN channels /\ channels'[n + m] = more[m] /\ g[n + m] = at[2]
  <2>1. n \in Nat /\ DOMAIN channels = 1 .. n /\ Len(more) \in Nat /\ DOMAIN more = 1 .. Len(more)
    BY <1>1 DEF Appends
  <2>2. \A m \in DOMAIN more : n + m \in DOMAIN channels' /\ channels'[n + m] = more[m]
    BY <1>1 DEF Appends
  <2>3. \A m \in DOMAIN more : n + m \notin DOMAIN channels
    BY <2>1
  <2>4. QED
    BY <1>4, <2>2, <2>3
<1> HIDE DEF n
<1>8. \A q \in Queries : DOMAIN conf.deps[q] \subseteq Nat /\ \A j \in DOMAIN conf.deps[q] : conf.deps[q][j].source \in Queries
  <2>1. ASSUME NEW q \in Queries PROVE DOMAIN conf.deps[q] \subseteq Nat /\ \A j \in DOMAIN conf.deps[q] : conf.deps[q][j].source \in Queries
    <3>1. conf.deps[q] \in Seq([source : Queries, shard : Nat])
      BY ConfigurationFields
    <3>2. \A j \in DOMAIN conf.deps[q] : conf.deps[q][j] \in [source : Queries, shard : Nat]
      BY <3>1, ElementOfSeq, LenProperties
    <3>3. QED
      BY <3>1, <3>2, LenProperties
  <2>2. QED
    BY <2>1
<1>9. ASSUME NEW c \in DOMAIN channels, channels[c].target \notin TransitionNodes
      PROVE  \E q \in Queries : \E i \in DOMAIN execs[q] :
         /\ channels[c].target = <<q, i>> /\ g[c] \in DOMAIN conf.deps[q] /\ Processed(q, g[c])
         /\ IsLink(channels[c], q, i, conf.deps[q][g[c]])'
  <2>1. PICK q \in Queries : \E i \in DOMAIN execs[q] :
          /\ channels[c].target = <<q, i>> /\ f[c] \in DOMAIN conf.deps[q] /\ Processed(q, f[c])
          /\ IsLink(channels[c], q, i, conf.deps[q][f[c]])
    BY <1>3, <1>9 DEF LinksFit
  <2>2. PICK i \in DOMAIN execs[q] :
          /\ channels[c].target = <<q, i>> /\ f[c] \in DOMAIN conf.deps[q] /\ Processed(q, f[c])
          /\ IsLink(channels[c], q, i, conf.deps[q][f[c]])
    BY <2>1
  <2>3. channels'[c] = channels[c] /\ conf' = conf /\ g[c] = f[c] /\ conf.deps[q][g[c]].source \in Queries
    BY <1>2, <1>5, <1>8, <2>2
  <2>4. ASSUME NEW d, NEW e, d = channels[c], e = conf.deps[q][g[c]]
        PROVE  IsLink(channels[c], q, i, conf.deps[q][g[c]])'
    <3>1. IsLink(d, q, i, e) /\ e.source \in Queries
      BY <2>2, <2>3, <2>4
    <3>2. IsLink(d, q, i, e)'
      BY <3>1, LinkStays
    <3>3. (d = channels[c] /\ e = conf.deps[q][g[c]])'
      BY <2>3, <2>4
    <3>4. QED
      BY <3>2, <3>3
  <2>5. QED
    BY <2>2, <2>3, <2>4
<1>10. /\ t \in Queries /\ at[2] \in DOMAIN conf.deps[t] /\ dep = conf.deps[t][at[2]] /\ at[2] \in Nat
       /\ t \in Nat \ {0}
  BY NextDependency, QueriesAreNumbers
<1>11. /\ \A q \in Queries, j \in Nat : Processed(q, j)' <=> Processed(q, j) \/ (q = t /\ j = at[2])
       /\ ~Processed(t, at[2])
  BY ProcessedNext
<1>12. ASSUME NEW m \in DOMAIN more, more[m].target \notin TransitionNodes', NEW c, c = n + m
       PROVE  \E i \in DOMAIN execs[t] : more[m].target = <<t, i>> /\ IsLink(channels[c], t, i, conf.deps[t][g[c]])'
  <2>1. PICK i \in DOMAIN execs[t] : more[m].target = <<t, i>> /\ IsLink(more[m], t, i, dep)'
    BY <1>12 DEF Links
  <2>2. (channels[c] = more[m] /\ conf.deps[t][g[c]] = dep)'
    BY <1>2, <1>7, <1>10, <1>12
  <2>3. QED
    BY <2>1, <2>2
<1>13. ASSUME NEW c \in DOMAIN channels', channels'[c].target \notin TransitionNodes'
       PROVE  (\E q \in Queries : \E i \in DOMAIN execs[q] :
                /\ channels[c].target = <<q, i>> /\ g[c] \in DOMAIN conf.deps[q] /\ Processed(q, g[c])
                /\ IsLink(channels[c], q, i, conf.deps[q][g[c]]))'
  <2>1. CASE c \in DOMAIN channels
    <3>1. PICK q \in Queries : \E i \in DOMAIN execs[q] :
         /\ channels[c].target = <<q, i>> /\ g[c] \in DOMAIN conf.deps[q] /\ Processed(q, g[c])
         /\ IsLink(channels[c], q, i, conf.deps[q][g[c]])'
      BY <1>2, <1>5, <1>9, <1>13, <2>1
    <3>2. g[c] \in Nat
      BY <1>8, <3>1
    <3>3. QED
      BY <1>2, <1>5, <1>11, <2>1, <3>1, <3>2
  <2>2. CASE c \notin DOMAIN channels
    <3>1. PICK m \in DOMAIN more : c = n + m /\ channels'[c] = more[m] /\ g[c] = at[2]
      BY <1>6, <1>13, <2>2
    <3>2. PICK i \in DOMAIN execs[t] : more[m].target = <<t, i>> /\ IsLink(channels[c], t, i, conf.deps[t][g[c]])'
      BY <1>12, <1>13, <3>1
    <3>3. Processed(t, g[c])'
      BY <1>10, <1>11, <3>1
    <3>4. QED
      BY <1>2, <1>10, <3>1, <3>2, <3>3
  <2>3. QED
    BY <2>1, <2>2
<1>14. \A m \in DOMAIN more : more[m].target \notin TransitionNodes' => \E i \in DOMAIN execs[t] : more[m].target = <<t, i>>
  BY DEF Links
<1>15. ASSUME NEW c \in DOMAIN channels, channels[c].target \notin TransitionNodes, f[c] = at[2],
              NEW i, channels[c].target = <<t, i>>
       PROVE  FALSE
  <2>1. PICK q \in Queries : \E j \in DOMAIN execs[q] : channels[c].target = <<q, j>> /\ Processed(q, f[c])
    BY <1>3, <1>15 DEF LinksFit
  <2>2. q = t
    BY <1>15, <2>1
  <2>3. QED
    BY <1>11, <1>15, <2>1, <2>2
<1>16. ASSUME NEW c \in DOMAIN channels', NEW d \in DOMAIN channels', channels'[c].target \notin TransitionNodes',
              channels'[c].target = channels'[d].target, g[c] = g[d]
       PROVE  c = d
  <2>1. CASE c \in DOMAIN channels /\ d \in DOMAIN channels
    BY <1>2, <1>3, <1>5, <1>16, <2>1 DEF LinksFit
  <2>2. CASE c \in DOMAIN channels /\ d \notin DOMAIN channels
    <3>1. PICK m \in DOMAIN more : d = n + m /\ channels'[d] = more[m] /\ g[d] = at[2]
      BY <1>6, <2>2
    <3>2. PICK i \in DOMAIN execs[t] : more[m].target = <<t, i>>
      BY <1>14, <1>16, <3>1
    <3>3. channels[c].target = <<t, i>> /\ channels[c].target \notin TransitionNodes /\ f[c] = at[2]
      BY <1>2, <1>5, <1>16, <2>2, <3>1, <3>2
    <3>4. QED
      BY <1>15, <2>2, <3>3
  <2>3. CASE c \notin DOMAIN channels /\ d \in DOMAIN channels
    <3>1. PICK m \in DOMAIN more : c = n + m /\ channels'[c] = more[m] /\ g[c] = at[2]
      BY <1>6, <2>3
    <3>2. PICK i \in DOMAIN execs[t] : more[m].target = <<t, i>>
      BY <1>14, <1>16, <3>1
    <3>3. channels[d].target = <<t, i>> /\ channels[d].target \notin TransitionNodes /\ f[d] = at[2]
      BY <1>2, <1>5, <1>16, <2>3, <3>1, <3>2
    <3>4. QED
      BY <1>15, <2>3, <3>3
  <2>4. CASE c \notin DOMAIN channels /\ d \notin DOMAIN channels
    <3>1. PICK m \in DOMAIN more : c = n + m /\ channels'[c] = more[m]
      BY <1>6, <2>4
    <3>2. PICK l \in DOMAIN more : d = n + l /\ channels'[d] = more[l]
      BY <1>6, <2>4
    <3>3. m = l
      BY <1>16, <3>1, <3>2 DEF Links
    <3>4. QED
      BY <3>1, <3>2, <3>3
  <2>5. QED
    BY <2>1, <2>2, <2>3, <2>4
<1>17. ASSUME NEW q \in Queries, NEW j \in DOMAIN conf.deps[q], NEW i \in DOMAIN execs[q], Processed(q, j)',
              Linked(q, conf.deps[q][j])'
       PROVE  \E c \in DOMAIN channels' : channels'[c].target = <<q, i>> /\ g[c] = j
  <2>1. Linked(q, conf.deps[q][j])
    <3>1. ASSUME NEW e, e = conf.deps[q][j] PROVE Linked(q, e)
      <4>1. e.source \in Queries
        BY <1>8, <3>1
      <4>2. Linked(q, e)' = Linked(q, e)
        BY <4>1, LinkStays
      <4>3. (e = conf.deps[q][j])'
        BY <1>2, <3>1
      <4>4. QED
        BY <1>17, <4>2, <4>3
    <3>2. QED
      BY <3>1
  <2>2. CASE Processed(q, j)
    <3>1. PICK c \in DOMAIN channels : channels[c].target = <<q, i>> /\ f[c] = j
      BY <1>3a, <2>1, <2>2
    <3>2. QED
      BY <1>5, <3>1
  <2>3. CASE q = t /\ j = at[2]
    <3>1. PICK m \in DOMAIN more : more[m].target = <<t, i>>
      <4>1. \A l \in DOMAIN execs[t] : \E m \in DOMAIN more : more[m].target = <<t, l>>
        BY <1>10, <2>1, <2>3 DEF Links
      <4>2. QED
        BY <2>3, <4>1
    <3>2. n + m \in DOMAIN channels' /\ channels'[n + m].target = <<q, i>> /\ g[n + m] = j
      BY <1>7, <2>3, <3>1
    <3>3. QED
      BY <3>2
  <2>4. j \in Nat
    BY <1>8
  <2>5. QED
    BY <1>11, <1>17, <2>2, <2>3, <2>4
<1>18. LinksFit(g)'
  <2>1. (\A c \in DOMAIN channels : channels[c].target \notin TransitionNodes =>
       \E q \in Queries : \E i \in DOMAIN execs[q] :
         /\ channels[c].target = <<q, i>> /\ g[c] \in DOMAIN conf.deps[q] /\ Processed(q, g[c])
         /\ IsLink(channels[c], q, i, conf.deps[q][g[c]]))'
    BY <1>13
  <2>2. (\A q \in Queries : \A j \in DOMAIN conf.deps[q] : \A i \in DOMAIN execs[q] :
           Processed(q, j) /\ Linked(q, conf.deps[q][j]) =>
             \E c \in DOMAIN channels : channels[c].target = <<q, i>> /\ g[c] = j)'
    <3>1. \A q \in Queries : \A j \in DOMAIN conf.deps[q] : \A i \in DOMAIN execs[q] :
            Processed(q, j)' /\ Linked(q, conf.deps[q][j])' =>
              \E c \in DOMAIN channels' : channels'[c].target = <<q, i>> /\ g[c] = j
      BY <1>17
    <3>2. \A q \in Queries : \A j \in DOMAIN conf'.deps[q] : \A i \in DOMAIN execs'[q] :
            Processed(q, j)' /\ Linked(q, conf.deps[q][j])' =>
              \E c \in DOMAIN channels' : channels'[c].target = <<q, i>> /\ g[c] = j
      BY <1>2, <3>1
    <3>3. QED
      BY <3>2
  <2>3. QED
    BY <1>16, <2>1, <2>2 DEF LinksFit
<1>19. QED
  BY <1>2, <1>4, <1>18 DEF Linking

-----------------------------------------------------------------------------
(***************************************************************************)
(* The steps of populateTransitions().                                     *)
(***************************************************************************)
\* The urls and the executions are those of the configuration.
LEMMA ExecutionsStay ==
  ASSUME UNCHANGED conf
  PROVE  (\A q : Urls(q)' = Urls(q)) /\ (\A q : Executions(q)' = Executions(q))
BY DEF Urls, Executions, ExecName

\* One dependency, with the channels it gets.
LEMMA DependencyStep ==
  ASSUME TypeOK, GraphInv, Pending, Advance, NEW more \in Seq(ChannelType), Grows(more),
         nodes' \in Seq(TransitionType), NEW t, NEW dep, t = Target, dep = Dep,
         ~Uninitialised' => Links(more, t, dep) /\ NodesFit'
  PROVE  IInv'
<1>1. /\ conf \in ConfigurationsOf(STRING) /\ at \in Queries \X (Nat \ {0}) /\ phase = "transitions"
      /\ phase' = phase /\ at' = <<at[1], at[2] + 1>> /\ channels \in Seq(ChannelType)
      /\ UNCHANGED <<conf, edited, earlier, execs, ids>>
  BY DEF TypeOK, Pending, Advance
<1>2. TypeOK'
  <2>1. channels' \in Seq(ChannelType)
    BY <1>1, Appended DEF Grows
  <2>2. at' \in Queries \X (Nat \ {0})
    BY <1>1
  <2>3. QED
    BY <1>1, <2>1, <2>2 DEF TypeOK
<1>3. Populated /\ (~Uninitialised => NodesFit /\ Linking)
  BY <1>1 DEF GraphInv
<1>4. ~Uninitialised' => ~Uninitialised
  BY DEF Grows, Uninitialised
<1>5. Populated'
  BY <1>1, <1>3, ExecutionsStay DEF Populated
<1>6. ~Uninitialised' => Linking'
  BY <1>1, <1>3, <1>4, LinksGrow
<1>7. IdsFit'
  BY <1>1, ExecutionsStay DEF GraphInv, IdsFit
<1>8. QED
  BY <1>1, <1>2, <1>5, <1>6, <1>7 DEF IInv, GraphInv

\* Where each execution gets the channel of its number.
LEMMA LinksOfAll ==
  ASSUME NEW t, NEW dep, NEW links, DOMAIN links = DOMAIN execs[t],
         \A i \in DOMAIN links : links[i].target = <<t, i>> /\ IsLink(links[i], t, i, dep)'
  PROVE  Links(links, t, dep)
BY DEF Links

\* Without a new transition.
LEMMA LinkStep ==
  ASSUME TypeOK, GraphInv, Pending, Advance, UNCHANGED nodes, NEW links \in Seq(ChannelType),
         channels' = channels \o links, NEW t, NEW dep, t = Target, dep = Dep,
         DOMAIN links = DOMAIN execs[t],
         ~Uninitialised => \A i \in DOMAIN links : links[i].target = <<t, i>> /\ IsLink(links[i], t, i, dep)
  PROVE  IInv'
<1>1. Grows(links)
  BY DEF Grows, Advance
<1>2. /\ conf \in ConfigurationsOf(STRING) /\ at \in Queries \X (Nat \ {0}) /\ phase = "transitions"
      /\ nodes \in Seq(TransitionType) /\ channels \in Seq(ChannelType)
  BY DEF TypeOK, Pending
<1>3. t \in Queries /\ t \in Nat \ {0} /\ dep.source \in Queries
  BY <1>2, NextDependency, QueriesAreNumbers
<1>4. ASSUME ~Uninitialised' PROVE Links(links, t, dep) /\ NodesFit'
  <2>1. ~Uninitialised
    BY <1>4 DEF Uninitialised
  <2>2. \A i \in DOMAIN links : links[i].target = <<t, i>> /\ IsLink(links[i], t, i, dep)'
    BY <1>1, <1>2, <1>3, <2>1, LinkStays
  <2>3. Links(links, t, dep)
    BY <2>2, LinksOfAll
  <2>4. \A m \in DOMAIN links : \A k \in DOMAIN nodes : links[m].target # <<Zero, k>>
    BY <1>3, <2>2
  <2>5. NodesFit'
    BY <1>1, <1>2, <2>1, <2>4, NodesStay DEF GraphInv
  <2>6. QED
    BY <2>3, <2>5
<1>5. QED
  BY <1>1, <1>2, <1>4, DependencyStep

LEMMA Regrouped ==
  ASSUME NEW a \in Seq(ChannelType), NEW b \in Seq(ChannelType), NEW c \in Seq(ChannelType)
  PROVE  (a \o b) \o c = a \o (b \o c)
BY ConcatAssociative

\* With a new transition, its channels before those of the dependency.
LEMMA TransitionStep ==
  ASSUME TypeOK, GraphInv, Pending, Advance, NEW node \in TransitionType, nodes' = Append(nodes, node),
         NEW feeds \in Seq(ChannelType), NEW links \in Seq(ChannelType),
         channels' = (channels \o feeds) \o links, NEW t, NEW dep, t = Target, dep = Dep,
         NEW s \in Queries, NEW k, NewNode = <<Zero, k>>, Made(feeds, s, k, node.ports),
         DOMAIN links = DOMAIN execs[t], node.kind # "m2m",
         ~Uninitialised => /\ IsJoined(node, s) \/ IsSplitted(node, s)
                           /\ \A i \in DOMAIN links : links[i].target = <<t, i>> /\ IsLink(links[i], t, i, dep)'
  PROVE  IInv'
<1> DEFINE more == feeds \o links
<1>1. /\ conf \in ConfigurationsOf(STRING) /\ at \in Queries \X (Nat \ {0}) /\ phase = "transitions"
      /\ nodes \in Seq(TransitionType) /\ channels \in Seq(ChannelType)
  BY DEF TypeOK, Pending
<1>2. /\ nodes' \in Seq(TransitionType) /\ k \in Nat /\ nodes'[k] = node /\ DOMAIN nodes = 1 .. Len(nodes)
      /\ DOMAIN nodes' = 1 .. k /\ k \notin DOMAIN nodes
      /\ \A i \in DOMAIN nodes : i \in DOMAIN nodes' /\ nodes'[i] = nodes[i]
  <2>1. Len(nodes) \in Nat /\ DOMAIN nodes = 1 .. Len(nodes) /\ k = Len(nodes) + 1
    BY <1>1, LenProperties DEF NewNode
  <2>2. nodes' \in Seq(TransitionType) /\ Len(nodes') = k /\ nodes'[k] = node
        /\ \A i \in 1 .. Len(nodes) : nodes'[i] = nodes[i]
    BY <1>1, <2>1, AppendProperties
  <2>3. DOMAIN nodes' = 1 .. k
    BY <2>2, LenProperties
  <2>4. QED
    BY <2>1, <2>2, <2>3
<1>3. channels' = channels \o more /\ more \in Seq(ChannelType) /\ Appends(more, feeds, links)
  <2>1. (channels \o feeds) \o links = channels \o (feeds \o links)
    BY <1>1, Regrouped
  <2>2. channels' = channels \o more
    BY <2>1, Zenon
  <2>3. QED
    BY <2>2, Appended
<1>3a. Appends(channels', channels, more)
  BY <1>1, <1>3, Appended
<1> HIDE DEF more
<1>4. Grows(more)
  BY <1>2, <1>3 DEF Grows, Advance
<1>5. t \in Queries /\ t \in Nat \ {0} /\ dep.source \in Queries
  BY <1>1, NextDependency, QueriesAreNumbers
<1>6. /\ DOMAIN nodes'[k].ports = DOMAIN feeds
      /\ \A p \in DOMAIN feeds : feeds[p] = Feed(k, s, p)' /\ feeds[p].target = <<Zero, k>>
  <2>1. nodes'[k] \in TransitionType /\ Made(feeds, s, k, nodes'[k].ports)
    BY <1>2
  <2>2. QED
    BY <2>1, MadeFeeds
<1>7. <<Zero, k>> \in TransitionNodes' /\ <<Zero, k>> \notin TransitionNodes
  BY <1>2 DEF TransitionNodes
<1>8. ASSUME ~Uninitialised' PROVE Links(more, t, dep) /\ NodesFit'
  <2>1. ~Uninitialised
    BY <1>2, <1>8 DEF Uninitialised
  <2>2. Links(links, t, dep)
    BY <2>1, LinksOfAll
  <2>3. Links(more, t, dep)
    <3>1. /\ \A p \in DOMAIN feeds : p \in DOMAIN more /\ more[p] = feeds[p]
          /\ \A m \in DOMAIN links : Len(feeds) + m \in DOMAIN more /\ more[Len(feeds) + m] = links[m]
          /\ \A c \in DOMAIN more : c \in DOMAIN feeds \/ \E m \in DOMAIN links : c = Len(feeds) + m /\ more[c] = links[m]
      BY <1>3 DEF Appends
    <3>2. \A c \in DOMAIN more : more[c].target \notin TransitionNodes' =>
            \E m \in DOMAIN links : c = Len(feeds) + m /\ more[c] = links[m]
      BY <1>6, <1>7, <3>1
    <3>3. \A c \in DOMAIN more : more[c].target \notin TransitionNodes' =>
            \E i \in DOMAIN execs[t] : more[c].target = <<t, i>> /\ IsLink(more[c], t, i, dep)'
      BY <2>2, <3>2 DEF Links
    <3>4. ASSUME NEW c \in DOMAIN more, NEW d \in DOMAIN more, more[c].target \notin TransitionNodes',
                 more[c].target = more[d].target
          PROVE  c = d
      <4>1. PICK m \in DOMAIN links : c = Len(feeds) + m /\ more[c] = links[m]
        BY <3>2, <3>4
      <4>2. PICK l \in DOMAIN links : d = Len(feeds) + l /\ more[d] = links[l]
        BY <3>2, <3>4
      <4>3. m = l
        BY <2>2, <3>4, <4>1, <4>2 DEF Links
      <4>4. QED
        BY <4>1, <4>2, <4>3
    <3>5. ASSUME Linked(t, dep), NEW i \in DOMAIN execs[t] PROVE \E c \in DOMAIN more : more[c].target = <<t, i>>
      <4>1. PICK m \in DOMAIN links : links[m].target = <<t, i>>
        BY <2>2, <3>5 DEF Links
      <4>2. Len(feeds) + m \in DOMAIN more /\ more[Len(feeds) + m].target = <<t, i>>
        BY <3>1, <4>1
      <4>3. QED
        BY <4>2
    <3>6. QED
      BY <3>3, <3>4, <3>5 DEF Links
  <2>4. \A m \in DOMAIN links : links[m].target # <<Zero, k>>
    BY <1>5, <2>1
  <2>5. \A c \in DOMAIN channels : channels[c].target # <<Zero, k>>
    <3>1. PICK f \in [DOMAIN channels -> DepNumbers] : LinksFit(f)
      BY <1>1, <2>1 DEF GraphInv, Linking
    <3>2. \A c \in DOMAIN channels : channels[c].target \notin TransitionNodes =>
            \E q \in Queries : \E i \in DOMAIN execs[q] : channels[c].target = <<q, i>>
      BY <3>1 DEF LinksFit
    <3>3. \A q \in Queries : q # 0
      BY QueriesAreNumbers
    <3>4. SUFFICES ASSUME NEW c \in DOMAIN channels, channels[c].target = <<Zero, k>> PROVE FALSE
      OBVIOUS
    <3>5. PICK q \in Queries : \E i \in DOMAIN execs[q] : <<q, i>> = <<Zero, k>>
      BY <1>7, <3>2, <3>4
    <3>6. QED
      BY <3>3, <3>5
  <2>6. Feeds(k, s)'
    <3>1. nodes'[k] \in TransitionType /\ Made(feeds, s, k, nodes'[k].ports)
      BY <1>2
    <3>2. Appends(channels', channels, more) /\ Appends(more, feeds, links)
      BY <1>3, <1>3a
    <3>3. QED
      BY <2>4, <2>5, <3>1, <3>2, FeedsMade
  <2>7. \A m \in DOMAIN more : \A i \in DOMAIN nodes : more[m].target # <<Zero, i>>
    <3>1. \A i \in DOMAIN nodes : i # k
      BY <1>2
    <3>2. \A m \in DOMAIN more : more[m].target = <<Zero, k>> \/ \E i : more[m].target = <<t, i>>
      BY <1>3, <1>6, <2>1 DEF Appends
    <3>3. QED
      BY <1>5, <3>1, <3>2
  <2>8. \A i \in DOMAIN nodes' \ DOMAIN nodes : i = k
    BY <1>2
  <2>9. \A i \in DOMAIN nodes' \ DOMAIN nodes : \E r \in Queries :
           (IsJoined(nodes'[i], r) \/ IsSplitted(nodes'[i], r)) /\ Feeds(i, r)'
    <3>1. (IsJoined(nodes'[k], s) \/ IsSplitted(nodes'[k], s)) /\ Feeds(k, s)'
      BY <1>2, <2>1, <2>6
    <3>2. ASSUME NEW i, i = k PROVE (IsJoined(nodes'[i], s) \/ IsSplitted(nodes'[i], s)) /\ Feeds(i, s)'
      BY <3>1, <3>2
    <3>3. QED
      BY <2>8, <3>2
  <2>10. NodesFit'
    BY <1>1, <1>3, <1>4, <2>1, <2>7, <2>9, NodesStay DEF GraphInv
  <2>11. QED
    BY <2>3, <2>10
<1>9. QED
  BY <1>2, <1>3, <1>4, <1>8, DependencyStep

\* The parts of channels.
LEMMA PortTypes ==
  /\ \A q, k \in Nat : QName(q, k) \in PortType /\ <<q, k>> \in NodeType
  /\ \A k \in Nat : Numbered(k) \in PortType
  /\ Default \in PortType
  /\ \A a, c \in NodeType : \A b, d \in PortType : From(a, b, c, d) \in ChannelType
BY DEF QName, Numbered, Default, PortType, NodeType, From, ChannelType

\* What is known when a dependency is next.
LEMMA WhenPending ==
  ASSUME TypeOK, GraphInv, Pending
  PROVE  /\ conf \in ConfigurationsOf(STRING) /\ at \in Queries \X (Nat \ {0}) /\ Populated
         /\ nodes \in Seq(TransitionType) /\ channels \in Seq(ChannelType)
         /\ Target \in Queries /\ Target \in Nat /\ Dep.source \in Queries /\ Dep.source \in Nat /\ Dep.shard \in Nat
         /\ DstSize \in Nat \ {0} /\ DstSize = Len(execs[Target]) /\ DOMAIN execs[Target] = 1 .. DstSize
         /\ SrcSize \in Nat /\ SrcSize = Len(Selected(Dep)) /\ Source = Dep.source
<1>1. /\ conf \in ConfigurationsOf(STRING) /\ at \in Queries \X (Nat \ {0}) /\ Populated
      /\ nodes \in Seq(TransitionType) /\ channels \in Seq(ChannelType)
  BY DEF TypeOK, Pending, GraphInv
<1>2. Target \in Queries /\ Target \in Nat /\ Dep.source \in Queries /\ Dep.source \in Nat /\ Dep.shard \in Nat
  BY <1>1, NextDependency, QueriesAreNumbers
<1>3. DstSize \in Nat \ {0} /\ DstSize = Len(execs[Target]) /\ DOMAIN execs[Target] = 1 .. DstSize
  BY <1>1, <1>2, ExecutionsMade DEF DstSize
<1>4. SrcSize \in Nat /\ SrcSize = Len(Selected(Dep)) /\ Source = Dep.source
  BY <1>1, <1>2, SelectedExecutions DEF SrcSize, Source
<1>5. QED
  BY <1>1, <1>2, <1>3, <1>4

LEMMA OneToOneStep ==
  ASSUME TypeOK, GraphInv, OneToOne
  PROVE  IInv'
<1>1. Pending /\ DstSize = 1 /\ SrcSize = 1 /\ Advance /\ UNCHANGED nodes
  BY DEF OneToOne
<1>2. PICK t, dep : t = Target /\ dep = Dep
  OBVIOUS
<1>3. /\ conf \in ConfigurationsOf(STRING) /\ Populated /\ channels \in Seq(ChannelType)
      /\ t \in Queries /\ t \in Nat /\ dep.source \in Queries /\ dep.source \in Nat /\ dep.shard \in Nat
      /\ DOMAIN execs[t] = 1 .. 1 /\ Len(execs[t]) = 1 /\ Len(Selected(dep)) = 1
  BY <1>1, <1>2, WhenPending
<1>4. Selected(dep)[1] \in Nat
  BY <1>3, SelectedExecutions, ExecutionsMade
<1> DEFINE link == From(<<dep.source, Selected(dep)[1]>>, Default, <<t, 1>>, QName(dep.source, dep.shard))
<1>5. link \in ChannelType
  BY <1>3, <1>4, PortTypes
<1>6. link.target = <<t, 1>>
  BY ChannelFields
<1>7. IsLink(link, t, 1, dep)
  BY <1>3 DEF IsLink, IsOneToOne
<1>8. channels' = Append(channels, link)
  BY <1>2 DEF OneToOne, Source
<1> HIDE DEF link
<1>9. <<link>> \in Seq(ChannelType) /\ channels' = channels \o <<link>> /\ DOMAIN <<link>> = 1 .. 1 /\ <<link>>[1] = link
  BY <1>3, <1>5, <1>8, AppendIsConcat
<1>10. \A i \in DOMAIN <<link>> : <<link>>[i].target = <<t, i>> /\ IsLink(<<link>>[i], t, i, dep)
  BY <1>6, <1>7, <1>9
<1>11. PICK links : links = <<link>>
  OBVIOUS
<1>12. /\ links \in Seq(ChannelType) /\ channels' = channels \o links /\ DOMAIN links = DOMAIN execs[t]
       /\ \A i \in DOMAIN links : links[i].target = <<t, i>> /\ IsLink(links[i], t, i, dep)
  BY <1>3, <1>9, <1>10, <1>11
<1>13. QED
  BY <1>1, <1>2, <1>12, LinkStep

LEMMA ManyToManyUnshardedStep ==
  ASSUME TypeOK, GraphInv, ManyToManyUnsharded
  PROVE  IInv'
<1>1. Pending /\ DstSize > 1 /\ DstSize = SrcSize /\ Advance /\ UNCHANGED nodes
  BY DEF ManyToManyUnsharded
<1>2. PICK t, dep, n : t = Target /\ dep = Dep /\ n = DstSize
  OBVIOUS
<1>3. /\ t \in Queries /\ t \in Nat /\ dep.source \in Queries /\ dep.source \in Nat /\ n \in Nat /\ n > 1
      /\ DOMAIN execs[t] = 1 .. n /\ Len(execs[t]) = n /\ Len(Selected(dep)) = n
      /\ conf.database[dep.source] = conf.database[t]
  BY <1>1, <1>2, WhenPending DEF ManyToManyUnsharded
<1> DEFINE link(i) == From(<<dep.source, i>>, Default, <<t, i>>, QName(dep.source, Zero))
<1>4. \A i \in 1 .. n : link(i) \in ChannelType
  <2>1. QName(dep.source, Zero) \in PortType
    BY <1>3, PortTypes
  <2>2. QED
    BY <1>3, <2>1, PortTypes
<1>5. \A i \in 1 .. n : link(i).target = <<t, i>> /\ IsLink(link(i), t, i, dep)
  <2>1. \A i : link(i).target = <<t, i>>
    BY ChannelFields
  <2>2. IsManyToMany(t, dep)
    BY <1>3 DEF IsManyToMany
  <2>3. \A i \in 1 .. n : IsLink(link(i), t, i, dep)
    BY <2>2 DEF IsLink
  <2>4. QED
    BY <2>1, <2>3
<1>6. channels' = channels \o [i \in 1 .. n |-> link(i)]
  BY <1>2, <1>3, WhenPending DEF ManyToManyUnsharded
<1> HIDE DEF link
<1>7. PICK links : links = [i \in 1 .. n |-> link(i)]
  OBVIOUS
<1>8. /\ links \in Seq(ChannelType) /\ channels' = channels \o links /\ DOMAIN links = DOMAIN execs[t]
      /\ \A i \in DOMAIN links : links[i].target = <<t, i>> /\ IsLink(links[i], t, i, dep)
  <2>1. links \in Seq(ChannelType) /\ DOMAIN links = 1 .. n /\ \A i \in 1 .. n : links[i] = link(i)
    BY <1>3, <1>4, <1>7
  <2>2. channels' = channels \o links
    BY <1>6, <1>7
  <2>3. QED
    BY <1>3, <1>5, <2>1, <2>2
<1>9. QED
  BY <1>1, <1>2, <1>8, LinkStep

LEMMA OneToManyUnshardedStep ==
  ASSUME TypeOK, GraphInv, OneToManyUnsharded
  PROVE  IInv'
<1>1. Pending /\ DstSize > 1 /\ SrcSize = 1 /\ Advance /\ UNCHANGED nodes
  BY DEF OneToManyUnsharded
<1>2. PICK t, dep, n : t = Target /\ dep = Dep /\ n = DstSize
  OBVIOUS
<1>3. /\ t \in Queries /\ t \in Nat /\ dep.source \in Queries /\ dep.source \in Nat /\ n \in Nat /\ n > 1
      /\ DOMAIN execs[t] = 1 .. n /\ Len(execs[t]) = n /\ Len(Selected(dep)) = 1
      /\ conf.own[dep.source] # Zero
  BY <1>1, <1>2, WhenPending DEF OneToManyUnsharded
<1>4. execs[dep.source][1].name \in PortType
  BY <1>1, <1>3, WhenPending, ExecutionsMade
<1> DEFINE link(i) == From(<<dep.source, 1>>, Default, <<t, i>>, execs[dep.source][1].name)
<1>5. \A i \in 1 .. n : link(i) \in ChannelType
  BY <1>3, <1>4, PortTypes
<1>6. \A i \in 1 .. n : link(i).target = <<t, i>> /\ IsLink(link(i), t, i, dep)
  <2>1. \A i : link(i).target = <<t, i>>
    BY ChannelFields
  <2>2. IsUnsharded(t, dep)
    BY <1>3 DEF IsUnsharded
  <2>3. \A i \in 1 .. n : IsLink(link(i), t, i, dep)
    BY <2>2 DEF IsLink
  <2>4. QED
    BY <2>1, <2>3
<1>7. channels' = channels \o [i \in 1 .. n |-> link(i)]
  BY <1>2, <1>3 DEF OneToManyUnsharded, SourceName, Source
<1> HIDE DEF link
<1>8. PICK links : links = [i \in 1 .. n |-> link(i)]
  OBVIOUS
<1>9. /\ links \in Seq(ChannelType) /\ channels' = channels \o links /\ DOMAIN links = DOMAIN execs[t]
      /\ \A i \in DOMAIN links : links[i].target = <<t, i>> /\ IsLink(links[i], t, i, dep)
  BY <1>3, <1>5, <1>6, <1>7, <1>8
<1>10. QED
  BY <1>1, <1>2, <1>9, LinkStep

-----------------------------------------------------------------------------
\* The transitions of an id, if the ids are those of queries.
LEMMA KindOfId ==
  ASSUME conf \in ConfigurationsOf(STRING), Populated, NodesFit, NEW k \in DOMAIN nodes, NEW s \in Queries
  PROVE  /\ nodes[k].id = JoinedId(s) => nodes[k].kind = "joined"
         /\ nodes[k].id = SplittedId(s) => nodes[k].kind = "splitted"
<1>1. PICK r \in Queries : IsJoined(nodes[k], r) \/ IsSplitted(nodes[k], r)
  BY DEF NodesFit
<1>2. /\ JoinedId(s)[2] = "joined" /\ SplittedId(s)[2] = "splitted"
      /\ JoinedId(r)[2] = "joined" /\ SplittedId(r)[2] = "splitted"
  BY TransitionIds
<1>3. QED
  BY <1>1, <1>2 DEF IsJoined, IsSplitted

\* The channels from a transition, also from one that is made in this step.
LEMMA JoinedLink ==
  ASSUME conf \in ConfigurationsOf(STRING), UNCHANGED <<conf, execs>>, NEW t, NEW dep, dep.source \in Queries,
         IsManyToOne(t, dep), NEW k \in DOMAIN nodes', nodes'[k].kind = "joined", nodes'[k].id = JoinedId(dep.source),
         NEW c, NEW i, c = From(<<Zero, k>>, Default, <<t, i>>, QName(dep.source, Zero))
  PROVE  IsLink(c, t, i, dep)'
<1>1. JoinedId(dep.source)' = JoinedId(dep.source)
  BY TextsStay
<1>2. IsManyToOne(t, dep)'
  BY DEF IsManyToOne, Selected
<1>3. \E l \in DOMAIN nodes' : nodes'[l].kind = "joined" /\ nodes'[l].id = JoinedId(dep.source)'
                                /\ c = From(<<Zero, l>>, Default, <<t, i>>, QName(dep.source, Zero))
  BY <1>1
<1>4. QED
  BY <1>2, <1>3 DEF IsLink

LEMMA SplittedLink ==
  ASSUME conf \in ConfigurationsOf(STRING), UNCHANGED <<conf, execs>>, NEW t, NEW dep, dep.source \in Queries,
         Splits(t, dep), NEW k \in DOMAIN nodes', nodes'[k].kind = "splitted", nodes'[k].id = SplittedId(dep.source),
         NEW c, NEW i, c = From(<<Zero, k>>, Numbered(i), <<t, i>>, execs[dep.source][1].name)
  PROVE  IsLink(c, t, i, dep)'
<1>1. SplittedId(dep.source)' = SplittedId(dep.source)
  BY TextsStay
<1>2. Splits(t, dep)'
  BY DEF Splits, Selected
<1>3. \E l \in DOMAIN nodes' : nodes'[l].kind = "splitted" /\ nodes'[l].id = SplittedId(dep.source)'
                                /\ c = From(<<Zero, l>>, Numbered(i), <<t, i>>, execs'[dep.source][1].name)
  BY <1>1
<1>4. QED
  BY <1>2, <1>3 DEF IsLink

LEMMA NothingAppended ==
  ASSUME NEW S, NEW a \in Seq(S), NEW c
  PROVE  a \o <<>> \o c = a \o c
<1>1. a \o <<>> = a
  BY ConcatEmptySeq
<1>2. QED
  BY <1>1

\* The transition is there.
LEMMA ManyToOneAgain ==
  ASSUME TypeOK, GraphInv, ManyToOne, Existing(JoinedId(Source)) # 0
  PROVE  IInv'
<1>1. Pending /\ DstSize = 1 /\ SrcSize > 1 /\ Advance
  BY DEF ManyToOne
<1>2. PICK t, dep, k : t = Target /\ dep = Dep /\ k = Existing(JoinedId(Source))
  OBVIOUS
<1>3. /\ conf \in ConfigurationsOf(STRING) /\ Populated /\ channels \in Seq(ChannelType) /\ nodes \in Seq(TransitionType)
      /\ t \in Queries /\ t \in Nat /\ dep.source \in Queries /\ dep.source \in Nat
      /\ DOMAIN execs[t] = 1 .. 1 /\ Len(execs[t]) = 1 /\ Len(Selected(dep)) > 1 /\ Source = dep.source
  BY <1>1, <1>2, WhenPending
<1>4. k \in DOMAIN nodes /\ nodes[k].id = JoinedId(dep.source) /\ k \in Nat
  <2>1. k \in DOMAIN nodes /\ nodes[k].id = JoinedId(dep.source)
    BY <1>2, <1>3, ExistingTransition
  <2>2. QED
    BY <1>3, <2>1, LenProperties
<1> DEFINE link == From(<<Zero, k>>, Default, <<t, 1>>, QName(dep.source, Zero))
<1>5. link \in ChannelType
  <2>1. QName(dep.source, Zero) \in PortType /\ <<Zero, k>> \in NodeType
    BY <1>3, <1>4, PortTypes
  <2>2. QED
    BY <1>3, <2>1, PortTypes
<1>6. link.target = <<t, 1>>
  BY ChannelFields
<1>7. ASSUME ~Uninitialised PROVE IsLink(link, t, 1, dep)
  <2>1. nodes[k].kind = "joined"
    BY <1>1, <1>3, <1>4, <1>7, KindOfId DEF GraphInv, Pending
  <2>2. IsManyToOne(t, dep)
    BY <1>3 DEF IsManyToOne
  <2>3. QED
    BY <1>4, <2>1, <2>2 DEF IsLink
<1>8. UNCHANGED nodes /\ channels' = channels \o <<>> \o <<link>>
  BY <1>2, <1>3 DEF ManyToOne
<1> HIDE DEF link
<1>9. PICK links : links = <<link>>
  OBVIOUS
<1>10. links \in Seq(ChannelType) /\ DOMAIN links = 1 .. 1 /\ links[1] = link
  BY <1>5, <1>9
<1>11. channels' = channels \o links
  BY <1>3, <1>8, <1>9, NothingAppended
<1>12. /\ DOMAIN links = DOMAIN execs[t]
       /\ ~Uninitialised => \A i \in DOMAIN links : links[i].target = <<t, i>> /\ IsLink(links[i], t, i, dep)
  BY <1>3, <1>6, <1>7, <1>10
<1>13. QED
  BY <1>1, <1>2, <1>8, <1>10, <1>11, <1>12, LinkStep

\* The transition is made for this dependency.
LEMMA ManyToOneFirst ==
  ASSUME TypeOK, GraphInv, ManyToOne, Existing(JoinedId(Source)) = 0
  PROVE  IInv'
<1>1. Pending /\ DstSize = 1 /\ SrcSize > 1 /\ Advance
  BY DEF ManyToOne
<1>2. PICK t, dep, k, s, m : t = Target /\ dep = Dep /\ k = Len(nodes) + 1 /\ s = Source /\ m = SrcSize
  OBVIOUS
<1>3. /\ conf \in ConfigurationsOf(STRING) /\ Populated /\ channels \in Seq(ChannelType) /\ nodes \in Seq(TransitionType)
      /\ t \in Queries /\ t \in Nat /\ s = dep.source /\ s \in Queries /\ s \in Nat /\ dep.shard \in Nat
      /\ DOMAIN execs[t] = 1 .. 1 /\ Len(execs[t]) = 1 /\ m = Len(Selected(dep)) /\ m > 1 /\ m \in Nat
  BY <1>1, <1>2, WhenPending
<1>3a. m > 1 /\ m \in Nat
  BY <1>1, <1>2, WhenPending
<1>4. DOMAIN execs[s] = 1 .. m
  <2>1. /\ dep.shard = Zero => Len(Selected(dep)) = Len(execs[dep.source])
        /\ dep.shard \in DOMAIN execs[dep.source] => Len(Selected(dep)) = 1
        /\ dep.shard \notin {Zero} \cup DOMAIN execs[dep.source] => Len(Selected(dep)) = 0
    BY <1>3, SelectedExecutions
  <2>2. Len(Selected(dep)) # 1 /\ Len(Selected(dep)) # 0
    <3>1. m # 1 /\ m # 0
      BY <1>3a
    <3>2. m = Len(Selected(dep))
      BY <1>3
    <3>3. QED
      BY <3>1, <3>2
  <2>3. dep.shard = Zero /\ Len(Selected(dep)) = Len(execs[dep.source])
    BY <2>1, <2>2
  <2>4. QED
    BY <1>3, <2>3, ExecutionsMade
<1>5. k \in Nat /\ NewNode = <<Zero, k>>
  BY <1>2, <1>3, LenProperties DEF NewNode
<1> DEFINE ports == [i \in 1 .. m |-> Numbered(i)]
           node == [kind |-> "joined", id |-> JoinedId(s), url |-> execs[t][1].url, name |-> QName(s, Zero),
                    ports |-> ports, strategies |-> <<>>, count |-> 1]
           feed(i) == From(<<s, i>>, Default, <<Zero, k>>, Numbered(i))
           link == From(<<Zero, k>>, Default, <<t, 1>>, QName(s, Zero))
<1>6. QName(s, Zero) \in PortType /\ <<Zero, k>> \in NodeType /\ <<t, 1>> \in NodeType
  <2>1. Zero \in Nat /\ 1 \in Nat
    OBVIOUS
  <2>2. QED
    BY <1>3, <1>5, <2>1, PortTypes
<1>7. ports \in Seq(PortType) /\ DOMAIN ports = 1 .. m /\ \A i \in 1 .. m : ports[i] = Numbered(i)
  <2>1. \A i \in 1 .. m : Numbered(i) \in PortType
    BY <1>3, PortTypes
  <2>2. QED
    BY <1>3, <2>1
<1>8. ports = [i \in DOMAIN execs[s] |-> Numbered(i)]
  BY <1>4
<1> HIDE DEF ports
<1>9. node \in TransitionType
  <2>1. JoinedId(s) \in IdType
    BY <1>3, TransitionIds
  <2>2. execs[t][1].url \in UrlType
    BY <1>3, ExecutionsMade DEF UrlType
  <2>3. <<>> \in Seq(StrategyType)
    BY EmptySeq
  <2>4. QED
    BY <1>6, <1>7, <2>1, <2>2, <2>3 DEF TransitionType
<1>10. nodes' = Append(nodes, node)
  BY <1>2 DEF ManyToOne, ports
<1>11. node.kind = "joined" /\ node.id = JoinedId(s) /\ node.ports = ports
  OBVIOUS
<1>12. link \in ChannelType /\ link.target = <<t, 1>>
  BY <1>6, PortTypes, ChannelFields
<1>13. \A i \in 1 .. m : feed(i) \in ChannelType
  <2>1. \A i \in 1 .. m : Numbered(i) \in PortType /\ <<s, i>> \in NodeType
    BY <1>3, PortTypes
  <2>2. QED
    BY <1>6, <2>1, PortTypes
<1>14. channels' = channels \o [i \in 1 .. m |-> feed(i)] \o <<link>>
  BY <1>2, <1>4, <1>5 DEF ManyToOne, Collect
<1> HIDE DEF node
<1>15. k \in DOMAIN nodes' /\ nodes'[k] = node
  BY <1>2, <1>3, <1>9, <1>10, AppendProperties, LenProperties
<1>16. IsLink(link, t, 1, dep)'
  <2>1. IsManyToOne(t, dep)
    BY <1>3 DEF IsManyToOne
  <2>2. UNCHANGED <<conf, execs>>
    BY <1>1 DEF Advance
  <2>3. PICK l : l = link
    OBVIOUS
  <2>4. l = From(<<Zero, k>>, Default, <<t, 1>>, QName(dep.source, Zero))
    BY <1>3, <2>3
  <2>5. IsLink(l, t, 1, dep)'
    BY <1>3, <1>11, <1>15, <2>1, <2>2, <2>4, JoinedLink
  <2>6. QED
    BY <2>3, <2>5
<1> HIDE DEF link, feed
<1>17. PICK links, feeds : links = <<link>> /\ feeds = [i \in 1 .. m |-> feed(i)]
  OBVIOUS
<1>18. links \in Seq(ChannelType) /\ DOMAIN links = 1 .. 1 /\ links[1] = link
  BY <1>12, <1>17
<1>19. feeds \in Seq(ChannelType) /\ Made(feeds, s, k, node.ports)
  <2>1. DOMAIN feeds = 1 .. m /\ \A i \in 1 .. m : feeds[i] = feed(i)
    BY <1>17
  <2>2. feeds \in Seq(ChannelType)
    BY <1>3, <1>13, <1>17
  <2>3. QED
    BY <1>7, <1>11, <2>1, <2>2 DEF Made, feed
<1>20. channels' = (channels \o feeds) \o links
  BY <1>14, <1>17
<1>21. IsJoined(node, s)
  BY <1>8, <1>11 DEF IsJoined
<1>22. /\ DOMAIN links = DOMAIN execs[t] /\ node.kind # "m2m"
       /\ \A i \in DOMAIN links : links[i].target = <<t, i>> /\ IsLink(links[i], t, i, dep)'
  <2>1. ASSUME NEW i \in DOMAIN links PROVE links[i].target = <<t, i>> /\ IsLink(links[i], t, i, dep)'
    <3>1. i = 1 /\ links[i] = link
      BY <1>18
    <3>2. QED
      BY <1>12, <1>16, <3>1
  <2>2. QED
    BY <1>3, <1>11, <1>18, <2>1
<1>23. QED
  BY <1>1, <1>2, <1>3, <1>5, <1>9, <1>10, <1>18, <1>19, <1>20, <1>21, <1>22, TransitionStep

\* A dependency that splits has no other kind of link.
FromSplit(c, q, i, dep) ==
  \E k \in DOMAIN nodes : /\ nodes[k].kind = "splitted" /\ nodes[k].id = SplittedId(dep.source)
                          /\ c = From(<<Zero, k>>, Numbered(i), <<q, i>>, execs[dep.source][1].name)

LEMMA LinkOfSplit ==
  ASSUME NEW c, NEW q, NEW i, NEW dep, Splits(q, dep), IsLink(c, q, i, dep), Len(execs[q]) \in Nat
  PROVE  FromSplit(c, q, i, dep)
<1>1. Len(execs[q]) > 1 /\ Len(execs[q]) # 1 /\ Len(Selected(dep)) = 1 /\ ~(Len(Selected(dep)) > 1)
      /\ conf.own[dep.source] = Zero
  <2>1. PICK m, n : m = Len(execs[q]) /\ n = Len(Selected(dep))
    OBVIOUS
  <2>2. m \in Nat /\ m > 1 /\ n = 1
    BY <2>1 DEF Splits
  <2>3. m # 1 /\ ~(n > 1)
    BY <2>2
  <2>4. QED
    BY <2>1, <2>2, <2>3 DEF Splits
<1>2. ~IsOneToOne(q, dep) /\ ~IsManyToMany(q, dep) /\ ~IsManyToOne(q, dep) /\ ~IsUnsharded(q, dep)
  BY <1>1 DEF IsOneToOne, IsManyToMany, IsManyToOne, IsUnsharded
<1>3. QED
  BY <1>2 DEF IsLink, FromSplit

\* As long as no transition splits these rows, no query that is done needed it.
LEMMA NoSplitBefore ==
  ASSUME TypeOK, GraphInv, Pending, ~Uninitialised, NEW s \in Queries,
         \A k \in DOMAIN nodes : nodes[k].id # SplittedId(s), NEW q \in Queries, SplitsFor(q, s)
  PROVE  Target <= q
<1>1. Target \in Nat /\ q \in Nat /\ q # 0 /\ phase = "transitions" /\ Linking
      /\ conf \in ConfigurationsOf(STRING) /\ Populated
  BY WhenPending, QueriesAreNumbers DEF Pending, GraphInv
<1>2. SUFFICES ASSUME q < Target PROVE FALSE
  BY <1>1
<1>3. PICK dep \in ToSet(conf.deps[q]) : Splits(q, dep) /\ SplittedId(dep.source) = SplittedId(s)
  BY DEF SplitsFor
<1>4. PICK j \in DOMAIN conf.deps[q] : conf.deps[q][j] = dep
  BY DEF ToSet
<1>5. Len(execs[q]) \in Nat /\ 1 \in DOMAIN execs[q]
  BY <1>1, ExecutionsMade
<1>6. PICK f \in [DOMAIN channels -> DepNumbers] : LinksFit(f)
  BY <1>1 DEF Linking
<1>7. Processed(q, j) /\ Linked(q, dep)
  BY <1>2, <1>3 DEF Processed, Target, Linked
<1>8. PICK c \in DOMAIN channels : channels[c].target = <<q, 1>> /\ f[c] = j
  <2>1. \A i \in DOMAIN execs[q] : Processed(q, j) /\ Linked(q, conf.deps[q][j]) =>
          \E c \in DOMAIN channels : channels[c].target = <<q, i>> /\ f[c] = j
    BY <1>6 DEF LinksFit
  <2>2. QED
    BY <1>4, <1>5, <1>7, <2>1
<1>9. channels[c].target \notin TransitionNodes
  BY <1>1, <1>8 DEF TransitionNodes
<1>10. PICK r \in Queries : \E i \in DOMAIN execs[r] :
         channels[c].target = <<r, i>> /\ IsLink(channels[c], r, i, conf.deps[r][f[c]])
  BY <1>6, <1>9 DEF LinksFit
<1>11. PICK i \in DOMAIN execs[r] : channels[c].target = <<r, i>> /\ IsLink(channels[c], r, i, conf.deps[r][f[c]])
  BY <1>10
<1>12. r = q
  BY <1>8, <1>11
<1>13. IsLink(channels[c], q, i, dep)
  BY <1>4, <1>8, <1>11, <1>12
<1>14. \E k \in DOMAIN nodes : nodes[k].id = SplittedId(dep.source)
  <2>1. PICK d : d = channels[c]
    OBVIOUS
  <2>2. IsLink(d, q, i, dep) /\ Splits(q, dep) /\ Len(execs[q]) \in Nat
    BY <1>3, <1>5, <1>13, <2>1
  <2>3. QED
    BY <2>2, LinkOfSplit DEF FromSplit
<1>15. QED
  BY <1>3, <1>14

\* The rows are split already.
LEMMA OneToManyAgain ==
  ASSUME TypeOK, GraphInv, OneToMany, Existing(SplittedId(Source)) # 0
  PROVE  IInv'
<1>1. Pending /\ DstSize > 1 /\ SrcSize = 1 /\ Advance /\ conf.own[Source] = Zero
  BY DEF OneToMany
<1>2. PICK t, dep, k, n : t = Target /\ dep = Dep /\ k = Existing(SplittedId(Source)) /\ n = DstSize
  OBVIOUS
<1>3. /\ conf \in ConfigurationsOf(STRING) /\ Populated /\ channels \in Seq(ChannelType) /\ nodes \in Seq(TransitionType)
      /\ t \in Queries /\ t \in Nat /\ dep.source \in Queries /\ dep.source \in Nat /\ Source = dep.source
      /\ DOMAIN execs[t] = 1 .. n /\ Len(execs[t]) = n /\ Len(Selected(dep)) = 1 /\ conf.own[dep.source] = Zero
  BY <1>1, <1>2, WhenPending
<1>4. n \in Nat /\ n > 1
  BY <1>1, <1>2, WhenPending
<1>5. k \in DOMAIN nodes /\ nodes[k].id = SplittedId(dep.source) /\ k \in Nat
  <2>1. k \in DOMAIN nodes /\ nodes[k].id = SplittedId(dep.source)
    BY <1>2, <1>3, ExistingTransition
  <2>2. QED
    BY <1>3, <2>1, LenProperties
<1>6. execs[dep.source][1].name \in PortType
  BY <1>3, ExecutionsMade
<1> DEFINE link(i) == From(<<Zero, k>>, Numbered(i), <<t, i>>, execs[dep.source][1].name)
<1>7. \A i \in 1 .. n : link(i) \in ChannelType
  <2>1. <<Zero, k>> \in NodeType /\ \A i \in 1 .. n : Numbered(i) \in PortType /\ <<t, i>> \in NodeType
    BY <1>3, <1>4, <1>5, PortTypes
  <2>2. QED
    BY <1>6, <2>1, PortTypes
<1>8. \A i \in 1 .. n : link(i).target = <<t, i>> /\ (~Uninitialised => IsLink(link(i), t, i, dep))
  <2>1. \A i : link(i).target = <<t, i>>
    BY ChannelFields
  <2>2. Splits(t, dep)
    BY <1>3, <1>4 DEF Splits
  <2>3. ~Uninitialised => nodes[k].kind = "splitted"
    BY <1>1, <1>3, <1>5, KindOfId DEF GraphInv, Pending
  <2>4. ~Uninitialised => \A i : IsLink(link(i), t, i, dep)
    BY <1>5, <2>2, <2>3 DEF IsLink
  <2>5. QED
    BY <2>1, <2>4
<1>9. UNCHANGED nodes /\ channels' = channels \o <<>> \o [i \in 1 .. n |-> link(i)]
  BY <1>2, <1>3 DEF OneToMany, SourceName
<1> HIDE DEF link
<1>10. PICK links : links = [i \in 1 .. n |-> link(i)]
  OBVIOUS
<1>11. links \in Seq(ChannelType) /\ DOMAIN links = 1 .. n /\ \A i \in 1 .. n : links[i] = link(i)
  BY <1>4, <1>7, <1>10
<1>12. channels' = channels \o links
  BY <1>3, <1>9, <1>10, NothingAppended
<1>13. /\ DOMAIN links = DOMAIN execs[t]
       /\ ~Uninitialised => \A i \in DOMAIN links : links[i].target = <<t, i>> /\ IsLink(links[i], t, i, dep)
  BY <1>3, <1>8, <1>11
<1>14. QED
  BY <1>1, <1>2, <1>9, <1>11, <1>12, <1>13, LinkStep

\* The rows are split for this query, the first that needs it.
LEMMA OneToManyFirst ==
  ASSUME TypeOK, GraphInv, OneToMany, Existing(SplittedId(Source)) = 0
  PROVE  IInv'
<1>1. Pending /\ DstSize > 1 /\ SrcSize = 1 /\ Advance /\ conf.own[Source] = Zero
  BY DEF OneToMany
<1>2. PICK t, dep, k, s, n : t = Target /\ dep = Dep /\ k = Len(nodes) + 1 /\ s = Source /\ n = DstSize
  OBVIOUS
<1>3. /\ conf \in ConfigurationsOf(STRING) /\ Populated /\ channels \in Seq(ChannelType) /\ nodes \in Seq(TransitionType)
      /\ t \in Queries /\ t \in Nat /\ s = dep.source /\ s \in Queries /\ s \in Nat
      /\ DOMAIN execs[t] = 1 .. n /\ Len(execs[t]) = n /\ Len(Selected(dep)) = 1 /\ conf.own[s] = Zero
  BY <1>1, <1>2, WhenPending
<1>4. n \in Nat /\ n > 1
  BY <1>1, <1>2, WhenPending
<1>5. k \in Nat /\ NewNode = <<Zero, k>>
  BY <1>2, <1>3, LenProperties DEF NewNode
<1>6. PICK name, stgs : name = execs[s][1].name /\ stgs = conf.strategies[conf.database[t]]
  OBVIOUS
<1>7. name \in PortType /\ stgs \in Seq(StrategyType) /\ execs[s][1].url \in UrlType
  <2>1. execs[s][1].name \in PortType /\ execs[s][1].url \in Url
    BY <1>3, ExecutionsMade
  <2>2. conf.strategies[conf.database[t]] \in Seq(StrategyType)
    BY <1>3, ConfigurationFields
  <2>3. QED
    BY <1>6, <2>1, <2>2 DEF UrlType
<1> DEFINE node == [kind |-> "splitted", id |-> SplittedId(s), url |-> execs[s][1].url, name |-> name,
                    ports |-> <<name>>, strategies |-> stgs, count |-> n]
           feed == From(<<s, 1>>, Default, <<Zero, k>>, name)
           link(i) == From(<<Zero, k>>, Numbered(i), <<t, i>>, name)
<1>8. <<Zero, k>> \in NodeType /\ <<s, 1>> \in NodeType
  <2>1. Zero \in Nat /\ 1 \in Nat
    OBVIOUS
  <2>2. QED
    BY <1>3, <1>5, <2>1, PortTypes
<1>9. node \in TransitionType
  <2>1. SplittedId(s) \in IdType
    BY <1>3, TransitionIds
  <2>2. <<name>> \in Seq(PortType)
    BY <1>7
  <2>3. QED
    BY <1>4, <1>7, <2>1, <2>2 DEF TransitionType
<1>10. nodes' = Append(nodes, node)
  BY <1>2, <1>6 DEF OneToMany, SourceName, Strategies
<1>11. /\ node.kind = "splitted" /\ node.id = SplittedId(s) /\ node.ports = <<name>>
       /\ node.strategies = stgs /\ node.count = n
  OBVIOUS
<1>12. feed \in ChannelType
  BY <1>7, <1>8, PortTypes
<1>13. \A i \in 1 .. n : link(i) \in ChannelType /\ link(i).target = <<t, i>>
  <2>1. \A i \in 1 .. n : Numbered(i) \in PortType /\ <<t, i>> \in NodeType
    BY <1>3, <1>4, PortTypes
  <2>2. \A i \in 1 .. n : link(i) \in ChannelType
    BY <1>7, <1>8, <2>1, PortTypes
  <2>3. \A i : link(i).target = <<t, i>>
    BY ChannelFields
  <2>4. QED
    BY <2>2, <2>3
<1>14. channels' = channels \o <<feed>> \o [i \in 1 .. n |-> link(i)]
  BY <1>2, <1>5, <1>6 DEF OneToMany, SourceName
<1> HIDE DEF node
<1>15. k \in DOMAIN nodes' /\ nodes'[k] = node
  BY <1>2, <1>3, <1>9, <1>10, AppendProperties, LenProperties
<1>16. ASSUME NEW i \in 1 .. n PROVE IsLink(link(i), t, i, dep)'
  <2>1. Splits(t, dep)
    BY <1>3, <1>4 DEF Splits
  <2>2. UNCHANGED <<conf, execs>>
    BY <1>1 DEF Advance
  <2>3. PICK l : l = link(i)
    OBVIOUS
  <2>4. l = From(<<Zero, k>>, Numbered(i), <<t, i>>, execs[dep.source][1].name)
    BY <1>3, <1>6, <2>3
  <2>5. IsLink(l, t, i, dep)'
    BY <1>3, <1>11, <1>15, <2>1, <2>2, <2>4, SplittedLink
  <2>6. QED
    BY <2>3, <2>5
<1> HIDE DEF link
<1>17. PICK links, feeds : links = [i \in 1 .. n |-> link(i)] /\ feeds = <<feed>>
  OBVIOUS
<1>18. links \in Seq(ChannelType) /\ DOMAIN links = 1 .. n /\ \A i \in 1 .. n : links[i] = link(i)
  BY <1>4, <1>13, <1>17
<1>19. feeds \in Seq(ChannelType) /\ Made(feeds, s, k, node.ports)
  <2>1. feeds \in Seq(ChannelType) /\ DOMAIN feeds = {1} /\ feeds[1] = feed
    BY <1>12, <1>17
  <2>2. DOMAIN <<name>> = {1} /\ <<name>>[1] = name
    OBVIOUS
  <2>3. QED
    BY <1>11, <2>1, <2>2 DEF Made
<1> HIDE DEF feed
<1>20. channels' = (channels \o feeds) \o links
  BY <1>14, <1>17
<1>21. ASSUME ~Uninitialised PROVE IsSplitted(node, s)
  <2>1. SplitsFor(t, s)
    <3>1. Splits(t, dep)
      BY <1>3, <1>4 DEF Splits
    <3>2. dep \in ToSet(conf.deps[t])
      BY <1>1, <1>2, <1>3, NextDependency, WhenPending
    <3>3. QED
      BY <1>3, <3>1, <3>2 DEF SplitsFor
  <2>2. \A q \in Queries : SplitsFor(q, s) => t <= q
    <3>1. \A l \in DOMAIN nodes : nodes[l].id # SplittedId(s)
      BY <1>2, <1>3, ExistingTransition
    <3>2. QED
      BY <1>1, <1>2, <1>3, <1>21, <3>1, NoSplitBefore
  <2>3. QED
    BY <1>3, <1>6, <1>11, <2>1, <2>2 DEF IsSplitted
<1>22. /\ DOMAIN links = DOMAIN execs[t] /\ node.kind # "m2m"
       /\ \A i \in DOMAIN links : links[i].target = <<t, i>> /\ IsLink(links[i], t, i, dep)'
  <2>1. ASSUME NEW i \in DOMAIN links PROVE links[i].target = <<t, i>> /\ IsLink(links[i], t, i, dep)'
    <3>1. i \in 1 .. n /\ links[i] = link(i)
      BY <1>18
    <3>2. QED
      BY <1>13, <1>16, <3>1
  <2>2. QED
    BY <1>3, <1>11, <1>18, <2>1
<1>23. ~Uninitialised =>
         /\ IsJoined(node, s) \/ IsSplitted(node, s)
         /\ \A i \in DOMAIN links : links[i].target = <<t, i>> /\ IsLink(links[i], t, i, dep)'
  BY <1>21, <1>22
<1>24. PICK new : new = node
  OBVIOUS
<1>25. /\ t = Target /\ dep = Dep /\ DOMAIN links = DOMAIN execs[t] /\ new \in TransitionType
       /\ nodes' = Append(nodes, new) /\ Made(feeds, s, k, new.ports) /\ new.kind # "m2m"
       /\ ~Uninitialised =>
            /\ IsJoined(new, s) \/ IsSplitted(new, s)
            /\ \A i \in DOMAIN links : links[i].target = <<t, i>> /\ IsLink(links[i], t, i, dep)'
  BY <1>2, <1>9, <1>10, <1>19, <1>22, <1>23, <1>24
<1>26. QED
  BY <1>1, <1>3, <1>5, <1>18, <1>19, <1>20, <1>25, TransitionStep

\* A transition that is never initialised: nothing is claimed of the graph from then on.
LEMMA ManyToManyShardedStep ==
  ASSUME TypeOK, GraphInv, ManyToManySharded
  PROVE  IInv'
<1>1. Pending /\ Advance /\ SrcSize = DstSize
  BY DEF ManyToManySharded
<1>2. PICK t, dep, k, s, n, stgs : /\ t = Target /\ dep = Dep /\ k = Len(nodes) + 1 /\ s = Source /\ n = DstSize
                                   /\ stgs = Strategies
  OBVIOUS
<1>3. /\ conf \in ConfigurationsOf(STRING) /\ channels \in Seq(ChannelType) /\ nodes \in Seq(TransitionType)
      /\ t \in Queries /\ t \in Nat /\ s \in Queries /\ s \in Nat /\ n \in Nat
  BY <1>1, <1>2, WhenPending
<1>4. k \in Nat /\ NewNode = <<Zero, k>>
  BY <1>2, <1>3, LenProperties DEF NewNode
<1>5. stgs \in Seq(StrategyType)
  BY <1>2, <1>3, ConfigurationFields DEF Strategies
<1> DEFINE node == [kind |-> "m2m", id |-> <<>>, url |-> <<>>, name |-> Default,
                    ports |-> <<>>, strategies |-> stgs, count |-> n]
           feed(i) == From(<<s, i>>, Numbered(i), <<Zero, k>>, Numbered(i))
           link(i) == From(<<Zero, k>>, Numbered(i), <<t, i>>, Numbered(i))
<1>6. node \in TransitionType
  <2>1. <<>> \in Seq(PortType) /\ Default \in PortType
    BY EmptySeq, PortTypes
  <2>2. QED
    BY <1>3, <1>5, <2>1 DEF TransitionType, IdType, UrlType
<1>7. nodes' = Append(nodes, node)
  BY <1>2 DEF ManyToManySharded
<1>8. \A i \in 1 .. n : feed(i) \in ChannelType /\ link(i) \in ChannelType
  <2>1. Zero \in Nat
    OBVIOUS
  <2>2. <<Zero, k>> \in NodeType /\ \A i \in 1 .. n : Numbered(i) \in PortType /\ <<t, i>> \in NodeType /\ <<s, i>> \in NodeType
    BY <1>3, <1>4, <2>1, PortTypes
  <2>3. QED
    BY <2>2, PortTypes
<1>9. channels' = channels \o [i \in 1 .. n |-> feed(i)] \o [i \in 1 .. n |-> link(i)]
  BY <1>1, <1>2, <1>4 DEF ManyToManySharded
<1>10. node.kind = "m2m"
  OBVIOUS
<1> HIDE DEF node, feed, link
<1>11. PICK links, feeds : links = [i \in 1 .. n |-> link(i)] /\ feeds = [i \in 1 .. n |-> feed(i)]
  OBVIOUS
<1>12. links \in Seq(ChannelType) /\ feeds \in Seq(ChannelType)
  BY <1>3, <1>8, <1>11
<1>13. PICK more : more = feeds \o links
  OBVIOUS
<1>14. more \in Seq(ChannelType) /\ channels' = channels \o more
  <2>1. channels' = (channels \o feeds) \o links
    BY <1>9, <1>11
  <2>2. (channels \o feeds) \o links = channels \o (feeds \o links)
    BY <1>3, <1>12, Regrouped
  <2>3. QED
    BY <1>12, <1>13, <2>1, <2>2, Appended
<1>15. /\ nodes' \in Seq(TransitionType) /\ k \in DOMAIN nodes' /\ nodes'[k] = node
       /\ \A i \in DOMAIN nodes : i \in DOMAIN nodes' /\ nodes'[i] = nodes[i]
  BY <1>2, <1>3, <1>6, <1>7, AppendProperties, LenProperties
<1>16. Uninitialised'
  BY <1>10, <1>15 DEF Uninitialised
<1>17. Grows(more)
  BY <1>1, <1>14, <1>15 DEF Grows, Advance
<1>18. QED
  BY <1>1, <1>2, <1>14, <1>15, <1>16, <1>17, DependencyStep

\* A dependency that gets no channel is not linked.
LEMMA NoTransitionStep ==
  ASSUME TypeOK, GraphInv, NoTransition
  PROVE  IInv'
<1>1. Pending /\ Advance /\ UNCHANGED <<nodes, channels>>
  BY DEF NoTransition
<1>2. PICK t, dep, src, dst : t = Target /\ dep = Dep /\ src = SrcSize /\ dst = DstSize
  OBVIOUS
<1>3. /\ conf \in ConfigurationsOf(STRING) /\ channels \in Seq(ChannelType) /\ nodes \in Seq(TransitionType)
      /\ Len(execs[t]) = dst /\ Len(Selected(dep)) = src
  BY <1>1, <1>2, WhenPending
<1>4. src \in Nat /\ dst \in Nat /\ (src = 0 \/ (src > 1 /\ dst > 1 /\ src # dst))
  BY <1>1, <1>2, WhenPending DEF NoTransition
<1>5. src # 1 /\ ~(dst = 1 /\ src > 1) /\ ~(dst > 1 /\ src = dst)
  BY <1>4
<1>6. ~Linked(t, dep)
  BY <1>3, <1>5 DEF Linked, IsOneToOne, IsManyToMany, IsManyToOne, IsUnsharded, Splits
<1>7. PICK more : more = <<>>
  OBVIOUS
<1>8. more \in Seq(ChannelType) /\ DOMAIN more = {}
  BY <1>7, EmptySeq
<1>9. Grows(more)
  <2>1. channels' = channels \o more
    BY <1>1, <1>3, <1>7, ConcatEmptySeq
  <2>2. QED
    BY <1>1, <2>1 DEF Grows, Advance
<1>10. Links(more, t, dep)
  BY <1>6, <1>8 DEF Links
<1>11. ASSUME ~Uninitialised' PROVE NodesFit'
  <2>1. ~Uninitialised
    BY <1>1, <1>11 DEF Uninitialised
  <2>2. NodesFit
    BY <1>1, <2>1 DEF GraphInv, Pending
  <2>3. DOMAIN nodes' = DOMAIN nodes
    BY <1>1
  <2>4. QED
    BY <1>3, <1>8, <1>9, <2>2, <2>3, NodesStay
<1>12. QED
  BY <1>1, <1>2, <1>3, <1>8, <1>9, <1>10, <1>11, DependencyStep

\* A run that fails leaves the graph as it is.
LEMMA FailStep ==
  ASSUME TypeOK, GraphInv, phase' = "failed", UNCHANGED <<conf, edited, earlier, at, execs, nodes, channels, ids>>
  PROVE  IInv'
<1>1. TypeOK'
  BY DEF TypeOK
<1>2. IdsFit'
  BY ExecutionsStay DEF GraphInv, IdsFit
<1>3. QED
  BY <1>1, <1>2 DEF IInv, GraphInv

\* What is said of the graph stays true while it does not change.
LEMMA GraphStays ==
  ASSUME UNCHANGED <<conf, execs, nodes, channels>>
  PROVE  /\ (Populated => Populated') /\ (NodesFit => NodesFit') /\ Uninitialised' = Uninitialised
         /\ DepNumbers' = DepNumbers /\ TransitionNodes' = TransitionNodes
         /\ \A q, dep : Linked(q, dep)' = Linked(q, dep)
         /\ \A c, q, i, dep : IsLink(c, q, i, dep)' = IsLink(c, q, i, dep)
<1>1. (\A n : Text(n)' = Text(n)) /\ \A dep : Selected(dep)' = Selected(dep)
  BY DEF Text, Node, Selected
<1>2. (\A q : JoinedId(q)' = JoinedId(q)) /\ \A q : SplittedId(q)' = SplittedId(q)
  BY <1>1 DEF JoinedId, SplittedId
<1>3. \A q, dep : Splits(q, dep)' = Splits(q, dep)
  BY <1>1 DEF Splits
<1>4. \A q, s : SplitsFor(q, s)' = SplitsFor(q, s)
  BY <1>2, <1>3 DEF SplitsFor
<1>5. NodesFit => NodesFit'
  <2>1. \A k, s : IsJoined(nodes[k], s) => IsJoined(nodes[k], s)'
    BY <1>2 DEF IsJoined
  <2>2. \A k, s : IsSplitted(nodes[k], s) => IsSplitted(nodes[k], s)'
    BY <1>2, <1>4 DEF IsSplitted
  <2>3. \A k, s : Feeds(k, s) => Feeds(k, s)'
    BY DEF Feeds, Feed
  <2>4. QED
    BY <2>1, <2>2, <2>3 DEF NodesFit
<1>6. Populated => Populated'
  BY ExecutionsStay DEF Populated
<1>7. /\ \A q, dep : IsOneToOne(q, dep)' = IsOneToOne(q, dep) /\ IsManyToMany(q, dep)' = IsManyToMany(q, dep)
      /\ \A q, dep : IsManyToOne(q, dep)' = IsManyToOne(q, dep) /\ IsUnsharded(q, dep)' = IsUnsharded(q, dep)
  BY <1>1 DEF IsOneToOne, IsManyToMany, IsManyToOne, IsUnsharded
<1>8. \A q, dep : Linked(q, dep)' = Linked(q, dep)
  BY <1>3, <1>7 DEF Linked
<1>9. ASSUME NEW c, NEW q, NEW i, NEW dep PROVE IsLink(c, q, i, dep)' = IsLink(c, q, i, dep)
  <2> DEFINE joined == \E k \in DOMAIN nodes : nodes[k].kind = "joined" /\ nodes[k].id = JoinedId(dep.source)
                         /\ c = From(<<Zero, k>>, Default, <<q, i>>, QName(dep.source, Zero))
             splitted == \E k \in DOMAIN nodes : nodes[k].kind = "splitted" /\ nodes[k].id = SplittedId(dep.source)
                           /\ c = From(<<Zero, k>>, Numbered(i), <<q, i>>, execs[dep.source][1].name)
  <2>1. joined' = joined /\ splitted' = splitted
    BY <1>2
  <2>2. IsLink(c, q, i, dep) =
          \/ IsOneToOne(q, dep) /\ c = From(<<dep.source, Selected(dep)[1]>>, Default, <<q, i>>, QName(dep.source, dep.shard))
          \/ IsManyToMany(q, dep) /\ c = From(<<dep.source, i>>, Default, <<q, i>>, QName(dep.source, Zero))
          \/ IsManyToOne(q, dep) /\ joined
          \/ IsUnsharded(q, dep) /\ c = From(<<dep.source, 1>>, Default, <<q, i>>, execs[dep.source][1].name)
          \/ Splits(q, dep) /\ splitted
    BY DEF IsLink
  <2>3. IsLink(c, q, i, dep)' =
         (\/ IsOneToOne(q, dep) /\ c = From(<<dep.source, Selected(dep)[1]>>, Default, <<q, i>>, QName(dep.source, dep.shard))
          \/ IsManyToMany(q, dep) /\ c = From(<<dep.source, i>>, Default, <<q, i>>, QName(dep.source, Zero))
          \/ IsManyToOne(q, dep) /\ joined
          \/ IsUnsharded(q, dep) /\ c = From(<<dep.source, 1>>, Default, <<q, i>>, execs[dep.source][1].name)
          \/ Splits(q, dep) /\ splitted)'
    BY DEF IsLink
  <2> HIDE DEF joined, splitted
  <2>4. Selected(dep)' = Selected(dep) /\ execs' = execs
    BY <1>1
  <2>5. QED
    BY <1>3, <1>7, <2>1, <2>2, <2>3, <2>4
<1>10. Uninitialised' = Uninitialised /\ DepNumbers' = DepNumbers /\ TransitionNodes' = TransitionNodes
  BY DEF Uninitialised, DepNumbers, TransitionNodes
<1>11. QED
  BY <1>5, <1>6, <1>8, <1>9, <1>10

\* And what was linked also when the same dependencies are done.
StillProcessed == \A q \in Queries : \A j \in DOMAIN conf.deps[q] : Processed(q, j)' <=> Processed(q, j)
GraphUnchanged == UNCHANGED <<conf, execs, nodes, channels>>

LEMMA LinkingStays ==
  ASSUME GraphUnchanged, Linking, StillProcessed
  PROVE  Linking'
<1>0. UNCHANGED <<conf, execs, nodes, channels>>
  BY DEF GraphUnchanged
<1>1. PICK f \in [DOMAIN channels -> DepNumbers] : LinksFit(f)
  BY DEF Linking
<1>2. (\A c \in DOMAIN channels : channels[c].target \notin TransitionNodes =>
       \E q \in Queries : \E i \in DOMAIN execs[q] :
         /\ channels[c].target = <<q, i>> /\ f[c] \in DOMAIN conf.deps[q] /\ Processed(q, f[c])
         /\ IsLink(channels[c], q, i, conf.deps[q][f[c]]))'
  <2>1. ASSUME NEW c \in DOMAIN channels, channels[c].target \notin TransitionNodes
        PROVE  \E q \in Queries : \E i \in DOMAIN execs[q] :
         /\ channels[c].target = <<q, i>> /\ f[c] \in DOMAIN conf.deps[q] /\ Processed(q, f[c])'
         /\ IsLink(channels[c], q, i, conf.deps[q][f[c]])'
    <3>1. PICK q \in Queries : \E i \in DOMAIN execs[q] :
         /\ channels[c].target = <<q, i>> /\ f[c] \in DOMAIN conf.deps[q] /\ Processed(q, f[c])
         /\ IsLink(channels[c], q, i, conf.deps[q][f[c]])
      BY <1>1, <2>1 DEF LinksFit
    <3>2. PICK i \in DOMAIN execs[q] :
         /\ channels[c].target = <<q, i>> /\ f[c] \in DOMAIN conf.deps[q] /\ Processed(q, f[c])
         /\ IsLink(channels[c], q, i, conf.deps[q][f[c]])
      BY <3>1
    <3>3. PICK d, e : d = channels[c] /\ e = conf.deps[q][f[c]]
      OBVIOUS
    <3>4. IsLink(d, q, i, e)'
      BY <3>2, <3>3, <1>0, GraphStays
    <3>5. (d = channels[c] /\ e = conf.deps[q][f[c]])'
      BY <1>0, <3>3
    <3>6. IsLink(channels[c], q, i, conf.deps[q][f[c]])'
      BY <3>4, <3>5
    <3>7. Processed(q, f[c])'
      BY <3>2 DEF StillProcessed
    <3>8. QED
      BY <3>2, <3>6, <3>7
  <2>2. QED
    BY <2>1, <1>0, GraphStays
<1>3. (\A c, d \in DOMAIN channels :
         channels[c].target \notin TransitionNodes /\ channels[c].target = channels[d].target /\ f[c] = f[d] => c = d)'
  BY <1>1, <1>0, GraphStays DEF LinksFit
<1>4. (\A q \in Queries : \A j \in DOMAIN conf.deps[q] : \A i \in DOMAIN execs[q] :
         Processed(q, j) /\ Linked(q, conf.deps[q][j]) =>
           \E c \in DOMAIN channels : channels[c].target = <<q, i>> /\ f[c] = j)'
  <2>0. \A q \in Queries : \A j \in DOMAIN conf.deps[q] : \A i \in DOMAIN execs[q] :
          Processed(q, j) /\ Linked(q, conf.deps[q][j]) =>
            \E c \in DOMAIN channels : channels[c].target = <<q, i>> /\ f[c] = j
    BY <1>1 DEF LinksFit
  <2>1. ASSUME NEW q \in Queries, NEW j \in DOMAIN conf.deps[q], NEW i \in DOMAIN execs[q], Processed(q, j)',
               Linked(q, conf.deps[q][j])'
        PROVE  \E c \in DOMAIN channels' : channels'[c].target = <<q, i>> /\ f[c] = j
    <3>1. PICK e : e = conf.deps[q][j]
      OBVIOUS
    <3>2. (e = conf.deps[q][j])'
      BY <1>0, <3>1
    <3>3. Linked(q, e)
      BY <2>1, <3>2, <1>0, GraphStays
    <3>4. Processed(q, j)
      BY <2>1 DEF StillProcessed
    <3>5. QED
      BY <1>0, <2>0, <3>1, <3>3, <3>4
  <2>2. QED
    BY <1>0, <2>1
<1>5. LinksFit(f)'
  BY <1>2, <1>3, <1>4 DEF LinksFit
<1>6. QED
  BY <1>1, <1>5, <1>0, GraphStays DEF Linking

LEMMA NextTargetStep ==
  ASSUME TypeOK, GraphInv, NextTarget
  PROVE  IInv'
<1>1. /\ phase = "transitions" /\ at[2] > Len(conf.deps[at[1]]) /\ UNCHANGED <<conf, edited, earlier, execs, nodes, channels, ids>>
      /\ phase' = (IF at[1] = Len(conf.text) THEN "ids" ELSE "transitions")
      /\ at' = (IF at[1] = Len(conf.text) THEN <<1, 1>> ELSE <<at[1] + 1, 1>>)
  BY DEF NextTarget, graph
<1>2. PICK q1, j1, n : q1 = at[1] /\ j1 = at[2] /\ n = Cardinality(Queries)
  OBVIOUS
<1>3. conf \in ConfigurationsOf(STRING) /\ at \in Queries \X (Nat \ {0})
  BY DEF TypeOK
<1>4. /\ q1 \in Queries /\ q1 \in Nat /\ j1 \in Nat /\ n \in Nat /\ 1 \in Queries /\ Queries = 1 .. n
      /\ Len(conf.text) = n
  BY <1>2, <1>3, QueriesAreNumbers, NumberOfTexts
<1>5. phase' = (IF q1 = n THEN "ids" ELSE "transitions") /\ at' = (IF q1 = n THEN <<1, 1>> ELSE <<q1 + 1, 1>>)
  BY <1>1, <1>2, <1>4
<1>6. TypeOK'
  <2>1. at' \in Queries \X (Nat \ {0})
    BY <1>4, <1>5
  <2>2. phase' \in {"transitions", "ids"}
    BY <1>5
  <2>3. QED
    BY <1>1, <2>1, <2>2 DEF TypeOK
<1>7. StillProcessed
  <2>1. ASSUME NEW q \in Queries, NEW j \in DOMAIN conf.deps[q] PROVE Processed(q, j)' <=> Processed(q, j)
    <3>1. Len(conf.deps[q]) \in Nat /\ j \in 1 .. Len(conf.deps[q])
      <4>1. conf.deps[q] \in Seq([source : Queries, shard : Nat])
        BY <1>3, ConfigurationFields
      <4>2. QED
        BY <4>1, LenProperties
    <3>2. q = q1 => j < j1
      <4>1. SUFFICES ASSUME q = q1 PROVE j < j1
        OBVIOUS
      <4>2. j1 > Len(conf.deps[q])
        BY <1>1, <1>2, <4>1
      <4>3. QED
        BY <1>4, <3>1, <4>2
    <3>3. Processed(q, j) <=> q <= q1
      <4>1. Processed(q, j) <=> q < q1 \/ (q = q1 /\ j < j1)
        BY <1>1, <1>2 DEF Processed
      <4>2. QED
        BY <1>4, <3>2, <4>1
    <3>4. Processed(q, j)' <=> q <= q1
      <4>1. CASE q1 = n
        BY <1>4, <1>5, <4>1 DEF Processed
      <4>2. CASE q1 # n
        <5>1. Processed(q, j)' <=> q < q1 + 1 \/ (q = q1 + 1 /\ j < 1)
          BY <1>5, <4>2 DEF Processed
        <5>2. QED
          BY <1>4, <3>1, <5>1
      <4>3. QED
        BY <4>1, <4>2
    <3>5. QED
      BY <3>3, <3>4
  <2>2. QED
    BY <2>1 DEF StillProcessed
<1>8. Populated' /\ (~Uninitialised' => NodesFit' /\ Linking')
  <2>1. Populated /\ (~Uninitialised => NodesFit /\ Linking)
    BY <1>1 DEF GraphInv
  <2>2. GraphUnchanged
    BY <1>1 DEF GraphUnchanged
  <2>3. Linking => Linking'
    BY <1>7, <2>2, LinkingStays
  <2>4. (Populated => Populated') /\ (NodesFit => NodesFit') /\ Uninitialised' = Uninitialised
    BY <1>1, GraphStays
  <2>5. QED
    BY <2>1, <2>3, <2>4
<1>9. IdsFit'
  <2>1. phase' # "done"
    BY <1>5
  <2>2. QED
    BY <1>1, <2>1, ExecutionsStay DEF GraphInv, IdsFit
<1>10. phase' # "urls"
  BY <1>5
<1>11. QED
  BY <1>6, <1>8, <1>9, <1>10 DEF IInv, GraphInv

\* populateUrls2(): the next query gets its executions.
LEMMA PopulateUrlsStep ==
  ASSUME TypeOK, GraphInv, PopulateUrls
  PROVE  IInv'
<1>1. /\ phase = "urls" /\ Urls(at[1]) # <<>> /\ execs' = [execs EXCEPT ![at[1]] = Executions(at[1])]
      /\ phase' = NextQuery[1] /\ at' = <<NextQuery[2], 1>>
      /\ UNCHANGED <<conf, edited, earlier, nodes, channels, ids>>
  BY DEF PopulateUrls
<1>2. PICK q1, n : q1 = at[1] /\ n = Cardinality(Queries)
  OBVIOUS
<1>3. conf \in ConfigurationsOf(STRING) /\ at \in Queries \X (Nat \ {0})
  BY DEF TypeOK
<1>4. /\ q1 \in Queries /\ q1 \in Nat /\ n \in Nat /\ 1 \in Queries /\ Queries = 1 .. n
      /\ Len(conf.text) = n
  BY <1>2, <1>3, QueriesAreNumbers, NumberOfTexts
<1>5. phase' = (IF q1 = n THEN "transitions" ELSE "urls") /\ at' = (IF q1 = n THEN <<1, 1>> ELSE <<q1 + 1, 1>>)
  BY <1>1, <1>2, <1>4 DEF NextQuery
<1>6. TypeOK'
  <2>1. at' \in Queries \X (Nat \ {0})
    BY <1>4, <1>5
  <2>2. phase' \in {"transitions", "urls"}
    BY <1>5
  <2>3. QED
    BY <1>1, <2>1, <2>2 DEF TypeOK
<1>7. /\ execs = [q \in Queries |-> IF q < q1 THEN Executions(q) ELSE <<>>]
      /\ \A q \in Queries : q < q1 => Urls(q) # <<>>
      /\ nodes = <<>> /\ channels = <<>>
  BY <1>1, <1>2 DEF GraphInv, Populating
<1>8. execs' = [q \in Queries |-> IF q < q1 + 1 THEN Executions(q) ELSE <<>>]
  <2>1. execs' = [q \in Queries |-> IF q = q1 THEN Executions(q) ELSE IF q < q1 THEN Executions(q) ELSE <<>>]
    BY <1>1, <1>2, <1>4, <1>7
  <2>2. \A q \in Queries : q < q1 + 1 <=> (q = q1 \/ q < q1)
    BY <1>4
  <2>3. QED
    BY <2>1, <2>2
<1>9. \A q \in Queries : q < q1 + 1 => Urls(q) # <<>>
  BY <1>1, <1>2, <1>4, <1>7
<1>10. (\A q : Urls(q)' = Urls(q)) /\ (\A q : Executions(q)' = Executions(q))
  BY <1>1, ExecutionsStay
<1>11. CASE q1 = n
  <2>1. \A q \in Queries : q < q1 + 1
    BY <1>4, <1>11
  <2>2. execs' = [q \in Queries |-> Executions(q)]
    BY <1>8, <2>1
  <2>3. Populated'
    BY <1>9, <1>10, <2>1, <2>2 DEF Populated
  <2>4. DOMAIN nodes' = {} /\ DOMAIN channels' = {}
    BY <1>1, <1>7
  <2>5. NodesFit'
    BY <2>4 DEF NodesFit
  <2>6. Linking'
    <3>1. PICK f : f = [c \in {} |-> 1]
      OBVIOUS
    <3>2. f \in [DOMAIN channels' -> DepNumbers']
      BY <2>4, <3>1
    <3>3. \A q \in Queries : \A j \in DOMAIN conf'.deps[q] : ~Processed(q, j)'
      <4>1. ASSUME NEW q \in Queries, NEW j \in DOMAIN conf'.deps[q] PROVE ~Processed(q, j)'
        <5>1. conf.deps[q] \in Seq([source : Queries, shard : Nat])
          BY <1>3, ConfigurationFields
        <5>2. Len(conf.deps[q]) \in Nat /\ j \in 1 .. Len(conf.deps[q])
          BY <1>1, <5>1, LenProperties
        <5>3. Processed(q, j)' <=> q < 1 \/ (q = 1 /\ j < 1)
          BY <1>5, <1>11 DEF Processed
        <5>4. QED
          BY <1>4, <5>2, <5>3
      <4>2. QED
        BY <4>1
    <3>4. LinksFit(f)'
      BY <2>4, <3>3 DEF LinksFit
    <3>5. QED
      BY <3>2, <3>4 DEF Linking
  <2>7. IdsFit'
    BY <1>1, <1>5, <1>10, <1>11 DEF GraphInv, IdsFit
  <2>8. QED
    BY <1>5, <1>6, <1>11, <2>3, <2>5, <2>6, <2>7 DEF IInv, GraphInv
<1>12. CASE q1 # n
  <2>1. phase' = "urls" /\ at'[1] = q1 + 1
    BY <1>5, <1>12
  <2>2. Populating'
    BY <1>1, <1>7, <1>8, <1>9, <1>10, <2>1 DEF Populating
  <2>3. IdsFit'
    BY <1>1, <1>10, <2>1 DEF GraphInv, IdsFit
  <2>4. QED
    BY <1>6, <2>1, <2>2, <2>3 DEF IInv, GraphInv
<1>13. QED
  BY <1>11, <1>12

-----------------------------------------------------------------------------
(***************************************************************************)
(* getDependencies(): nodes of the graph, every time.                      *)
(***************************************************************************)
Nodes == QueryNodes \cup TransitionNodes
Sources == \A c \in DOMAIN channels : channels[c].source \in Nodes

\* One step against the channels.
StepBack(from) ==
  [m \in Nodes |-> FlattenSeq([i \in DOMAIN channels |->
     IF channels[i].target # m THEN <<>> ELSE <<channels[i].source>> \o from[channels[i].source]])]
NoStep == [m \in Nodes |-> <<>>]
Steps(f, n) ==
  /\ f \in [0 .. n -> [Nodes -> Seq(Nodes)]]
  /\ \A depth \in 0 .. n : f[depth] = IF depth = 0 THEN NoStep ELSE StepBack(f[depth - 1])

LEMMA StepBackType ==
  ASSUME channels \in Seq(ChannelType), Sources, NEW from \in [Nodes -> Seq(Nodes)]
  PROVE  StepBack(from) \in [Nodes -> Seq(Nodes)]
<1>1. ASSUME NEW m \in Nodes
      PROVE  FlattenSeq([i \in DOMAIN channels |->
               IF channels[i].target # m THEN <<>> ELSE <<channels[i].source>> \o from[channels[i].source]]) \in Seq(Nodes)
  <2> DEFINE part(i) == IF channels[i].target # m THEN <<>> ELSE <<channels[i].source>> \o from[channels[i].source]
  <2>1. ASSUME NEW i \in DOMAIN channels PROVE part(i) \in Seq(Nodes)
    <3>1. channels[i].source \in Nodes
      BY DEF Sources
    <3>2. from[channels[i].source] \in Seq(Nodes) /\ <<channels[i].source>> \in Seq(Nodes)
      BY <3>1
    <3>3. <<channels[i].source>> \o from[channels[i].source] \in Seq(Nodes)
      BY <3>2, Appended
    <3>4. <<>> \in Seq(Nodes)
      BY EmptySeq
    <3>5. QED
      BY <3>3, <3>4
  <2>2. Len(channels) \in Nat /\ DOMAIN channels = 1 .. Len(channels)
    BY LenProperties
  <2> HIDE DEF part
  <2>3. [i \in DOMAIN channels |-> part(i)] \in Seq(Seq(Nodes))
    BY <2>1, <2>2
  <2>4. FlattenSeq([i \in DOMAIN channels |-> part(i)]) \in Seq(Nodes)
    BY <2>3, FlattenSeqPlaces
  <2>5. QED
    BY <2>4 DEF part
<1>2. QED
  BY <1>1 DEF StepBack

\* The function that the recursion defines is there, and what it returns are nodes.
LEMMA StepsMade ==
  ASSUME channels \in Seq(ChannelType), Sources, NEW n \in Nat
  PROVE  \E f : Steps(f, n)
<1> DEFINE T == {k \in Nat : \E f : Steps(f, k)}
<1>0. NoStep \in [Nodes -> Seq(Nodes)]
  <2>1. <<>> \in Seq(Nodes)
    BY EmptySeq
  <2>2. QED
    BY <2>1 DEF NoStep
<1>1. 0 \in T
  <2>1. PICK f : f = [depth \in 0 .. 0 |-> NoStep]
    OBVIOUS
  <2>2. f \in [0 .. 0 -> [Nodes -> Seq(Nodes)]]
    BY <1>0, <2>1
  <2>3. Steps(f, 0)
    BY <2>1, <2>2 DEF Steps
  <2>4. QED
    BY <2>3
<1>2. ASSUME NEW k \in T PROVE k + 1 \in T
  <2>1. PICK f : Steps(f, k)
    OBVIOUS
  <2>1a. f \in [0 .. k -> [Nodes -> Seq(Nodes)]]
    BY <2>1 DEF Steps
  <2>2. k \in Nat
    OBVIOUS
  <2>3. f[k] \in [Nodes -> Seq(Nodes)]
    BY <2>1a, <2>2
  <2>4. StepBack(f[k]) \in [Nodes -> Seq(Nodes)]
    BY <2>3, StepBackType
  <2>5. PICK g : g = [depth \in 0 .. k + 1 |-> IF depth = k + 1 THEN StepBack(f[k]) ELSE f[depth]]
    OBVIOUS
  <2>6. g \in [0 .. k + 1 -> [Nodes -> Seq(Nodes)]]
    BY <2>1a, <2>2, <2>4, <2>5
  <2>7. /\ \A depth \in 0 .. k + 1 : depth = k + 1 \/ (depth \in 0 .. k /\ depth # k + 1)
        /\ \A depth \in 0 .. k : depth = 0 \/ (depth - 1 \in 0 .. k /\ depth - 1 # k + 1)
        /\ k + 1 # 0 /\ (k + 1) - 1 = k /\ k # k + 1 /\ k \in 0 .. k + 1 /\ k + 1 \in 0 .. k + 1
        /\ 0 .. k \subseteq 0 .. k + 1
    BY <2>2
  <2>8. g[k + 1] = StepBack(f[k]) /\ g[k] = f[k] /\ \A depth \in 0 .. k : g[depth] = f[depth]
    BY <2>5, <2>7
  <2>9. ASSUME NEW depth \in 0 .. k + 1 PROVE g[depth] = IF depth = 0 THEN NoStep ELSE StepBack(g[depth - 1])
    <3>1. CASE depth = k + 1
      BY <2>7, <2>8, <3>1
    <3>2. CASE depth # k + 1
      <4>1. depth \in 0 .. k /\ f[depth] = IF depth = 0 THEN NoStep ELSE StepBack(f[depth - 1])
        BY <2>1, <2>7, <3>2 DEF Steps
      <4>2. depth # 0 => g[depth - 1] = f[depth - 1]
        BY <2>7, <2>8, <4>1
      <4>3. QED
        BY <2>8, <4>1, <4>2
    <3>3. QED
      BY <3>1, <3>2
  <2>10. Steps(g, k + 1)
    BY <2>6, <2>9 DEF Steps
  <2>11. k + 1 \in Nat /\ \E h : Steps(h, k + 1)
    BY <2>2, <2>10
  <2>12. QED
    BY <2>11
<1>3. T \in SUBSET Nat
  OBVIOUS
<1> HIDE DEF T
<1>4. T = Nat
  BY <1>1, <1>2, <1>3, NatSets
<1>5. QED
  BY <1>4 DEF T

LEMMA NodesAreFinite ==
  ASSUME conf \in ConfigurationsOf(STRING), Populated
  PROVE  IsFiniteSet(QueryNodes) /\ Cardinality(QueryNodes) \in Nat
<1> DEFINE of(q) == {<<q, i>> : i \in DOMAIN execs[q]}
           sets == {of(q) : q \in Queries}
<1>1. ASSUME NEW q \in Queries PROVE IsFiniteSet(of(q))
  <2>1. Len(execs[q]) \in Nat /\ DOMAIN execs[q] = 1 .. Len(execs[q])
    BY ExecutionsMade
  <2>2. IsFiniteSet(DOMAIN execs[q])
    BY <2>1, FS_Interval
  <2>3. PICK f : f = [i \in DOMAIN execs[q] |-> <<q, i>>]
    OBVIOUS
  <2>4. f \in Surjection(DOMAIN execs[q], of(q))
    BY <2>3 DEF Surjection
  <2> HIDE DEF of
  <2>5. QED
    BY <2>2, <2>4, FS_Surjection
<1>2. IsFiniteSet(sets)
  <2>1. PICK f : f = [q \in Queries |-> of(q)]
    OBVIOUS
  <2>2. f \in Surjection(Queries, sets)
    BY <2>1 DEF Surjection
  <2> HIDE DEF sets
  <2>3. QED
    BY <2>2, QueriesAssumption, FS_Surjection
<1>3. \A s \in sets : IsFiniteSet(s)
  BY <1>1
<1>4. QueryNodes = UNION sets
  BY DEF QueryNodes
<1> HIDE DEF sets
<1>5. IsFiniteSet(QueryNodes)
  BY <1>2, <1>3, <1>4, FS_UNION
<1>6. QED
  BY <1>5, FS_CardinalityType

LEMMA DependenciesAreNodes ==
  ASSUME conf \in ConfigurationsOf(STRING), Populated, nodes \in Seq(TransitionType), channels \in Seq(ChannelType),
         Sources, NEW n \in Nodes
  PROVE  Dependencies(n) \in Seq(Nodes)
<1> DEFINE bound == Cardinality(QueryNodes) + Len(nodes)
           Is(f) == f = [depth \in 0 .. bound |->
             [m \in QueryNodes \cup TransitionNodes |->
                IF depth = 0 THEN <<>> ELSE FlattenSeq([i \in DOMAIN channels |->
                  IF channels[i].target # m THEN <<>>
                  ELSE <<channels[i].source>> \o f[depth - 1][channels[i].source]])]]
           deps == CHOOSE f : Is(f)
<1>1. bound \in Nat
  BY NodesAreFinite, LenProperties
<1>2. ASSUME NEW f PROVE Is(f) <=> f = [depth \in 0 .. bound |-> IF depth = 0 THEN NoStep ELSE StepBack(f[depth - 1])]
  <2>1. \A depth \in 0 .. bound :
          [m \in QueryNodes \cup TransitionNodes |->
                IF depth = 0 THEN <<>> ELSE FlattenSeq([i \in DOMAIN channels |->
                  IF channels[i].target # m THEN <<>>
                  ELSE <<channels[i].source>> \o f[depth - 1][channels[i].source]])]
            = IF depth = 0 THEN NoStep ELSE StepBack(f[depth - 1])
    BY DEF NoStep, StepBack, Nodes
  <2>2. QED
    BY <2>1
<1>3. Dependencies(n) = deps[bound][n]
  BY DEF Dependencies
<1> HIDE DEF bound
<1>4. PICK f : Steps(f, bound)
  BY <1>1, StepsMade
<1> HIDE DEF Is
<1>5. Is(f)
  <2>1. f = [depth \in 0 .. bound |-> IF depth = 0 THEN NoStep ELSE StepBack(f[depth - 1])]
    BY <1>4 DEF Steps
  <2>2. QED
    BY <1>2, <2>1
<1>6. Is(deps)
  BY <1>5
<1> HIDE DEF deps
<1> DEFINE T == {k \in Nat : k <= bound => deps[k] \in [Nodes -> Seq(Nodes)]}
<1>7. \A k \in 0 .. bound : deps[k] = IF k = 0 THEN NoStep ELSE StepBack(deps[k - 1])
  BY <1>2, <1>6
<1>8. 0 \in T
  <2>1. NoStep \in [Nodes -> Seq(Nodes)]
    <3>1. <<>> \in Seq(Nodes)
      BY EmptySeq
    <3>2. QED
      BY <3>1 DEF NoStep
  <2>2. deps[0] = NoStep
    BY <1>1, <1>7
  <2>3. QED
    BY <2>1, <2>2
<1>9. ASSUME NEW k \in T PROVE k + 1 \in T
  <2>1. k \in Nat
    OBVIOUS
  <2>2. SUFFICES ASSUME k + 1 <= bound PROVE deps[k + 1] \in [Nodes -> Seq(Nodes)]
    BY <2>1
  <2>3. k <= bound /\ k + 1 \in 0 .. bound /\ k + 1 # 0 /\ (k + 1) - 1 = k
    BY <1>1, <2>1, <2>2
  <2>4. deps[k] \in [Nodes -> Seq(Nodes)]
    BY <2>3
  <2>5. deps[k + 1] = StepBack(deps[k])
    BY <1>7, <2>3
  <2>6. QED
    BY <2>4, <2>5, StepBackType
<1>10. T \in SUBSET Nat
  OBVIOUS
<1> HIDE DEF T
<1>11. T = Nat
  BY <1>8, <1>9, <1>10, NatSets
<1>12. deps[bound] \in [Nodes -> Seq(Nodes)]
  BY <1>1, <1>11 DEF T
<1>13. QED
  BY <1>3, <1>12

\* Every channel leaves a node there is.
LEMMA SourceOfLink ==
  ASSUME conf \in ConfigurationsOf(STRING), Populated, NEW c, NEW q \in Queries, NEW i \in DOMAIN execs[q], NEW dep,
         dep.source \in Queries, dep.shard \in Nat, IsLink(c, q, i, dep)
  PROVE  c.source \in Nodes
<1>1. /\ \A s \in Queries : \A e \in DOMAIN execs[s] : <<s, e>> \in Nodes
      /\ \A k \in DOMAIN nodes : <<Zero, k>> \in Nodes
  BY DEF Nodes, QueryNodes, TransitionNodes
<1>2. /\ Len(Selected(dep)) \in Nat /\ DOMAIN Selected(dep) = 1 .. Len(Selected(dep))
      /\ \A m \in DOMAIN Selected(dep) : Selected(dep)[m] \in DOMAIN execs[dep.source]
  BY SelectedExecutions
<1>3. 1 \in DOMAIN execs[dep.source] /\ Len(execs[q]) \in Nat /\ DOMAIN execs[q] = 1 .. Len(execs[q])
  BY ExecutionsMade
<1>4. CASE IsOneToOne(q, dep) /\ c = From(<<dep.source, Selected(dep)[1]>>, Default, <<q, i>>, QName(dep.source, dep.shard))
  <2>1. Selected(dep)[1] \in DOMAIN execs[dep.source]
    BY <1>2, <1>4 DEF IsOneToOne
  <2>2. QED
    BY <1>1, <1>4, <2>1, ChannelFields
<1>5. CASE IsManyToMany(q, dep) /\ c = From(<<dep.source, i>>, Default, <<q, i>>, QName(dep.source, Zero))
  <2>1. i \in DOMAIN execs[dep.source]
    <3>1. dep.shard = Zero
      <4>1. /\ dep.shard \in DOMAIN execs[dep.source] => Len(Selected(dep)) = 1
            /\ dep.shard \notin {Zero} \cup DOMAIN execs[dep.source] => Len(Selected(dep)) = 0
        BY SelectedExecutions
      <4>2. Len(Selected(dep)) # 1 /\ Len(Selected(dep)) # 0
        <5>1. PICK m, n : m = Len(execs[q]) /\ n = Len(Selected(dep))
          OBVIOUS
        <5>2. m \in Nat /\ m > 1 /\ n = m
          BY <1>3, <1>5, <5>1 DEF IsManyToMany
        <5>3. n # 1 /\ n # 0
          BY <5>2
        <5>4. QED
          BY <5>1, <5>3
      <4>3. QED
        BY <4>1, <4>2
    <3>2. Len(Selected(dep)) = Len(execs[dep.source])
      BY <3>1, SelectedExecutions
    <3>3. DOMAIN execs[dep.source] = DOMAIN execs[q]
      BY <1>3, <1>5, <3>2, ExecutionsMade DEF IsManyToMany
    <3>4. QED
      BY <3>3
  <2>2. QED
    BY <1>1, <1>5, <2>1, ChannelFields
<1>6. CASE \E k \in DOMAIN nodes : c = From(<<Zero, k>>, Default, <<q, i>>, QName(dep.source, Zero))
  BY <1>1, <1>6, ChannelFields
<1>7. CASE c = From(<<dep.source, 1>>, Default, <<q, i>>, execs[dep.source][1].name)
  BY <1>1, <1>3, <1>7, ChannelFields
<1>8. CASE \E k \in DOMAIN nodes : c = From(<<Zero, k>>, Numbered(i), <<q, i>>, execs[dep.source][1].name)
  BY <1>1, <1>8, ChannelFields
<1>9. QED
  BY <1>4, <1>5, <1>6, <1>7, <1>8 DEF IsLink

\* The parts of the invariant of a graph that is complete.
Complete ==
  /\ conf \in ConfigurationsOf(STRING) /\ nodes \in Seq(TransitionType) /\ channels \in Seq(ChannelType)
  /\ phase \in {"ids", "done"} /\ Populated /\ NodesFit /\ Linking

LEMMA TransitionFed ==
  ASSUME conf \in ConfigurationsOf(STRING), Populated, NEW k \in DOMAIN nodes, NEW s \in Queries,
         IsJoined(nodes[k], s) \/ IsSplitted(nodes[k], s)
  PROVE  DOMAIN nodes[k].ports \subseteq DOMAIN execs[s]
<1>1. 1 \in DOMAIN execs[s]
  BY ExecutionsMade
<1>2. CASE IsJoined(nodes[k], s)
  BY <1>2 DEF IsJoined
<1>3. CASE IsSplitted(nodes[k], s)
  <2>1. nodes[k].ports = <<execs[s][1].name>>
    BY <1>3 DEF IsSplitted
  <2>2. QED
    BY <1>1, <2>1
<1>4. QED
  BY <1>2, <1>3

LEMMA SourcesAreNodes ==
  ASSUME Complete
  PROVE  Sources
<1>1. /\ conf \in ConfigurationsOf(STRING) /\ Populated /\ NodesFit /\ Linking
  BY DEF Complete
<1>2. PICK f \in [DOMAIN channels -> DepNumbers] : LinksFit(f)
  BY <1>1 DEF Linking
<1>3. ASSUME NEW c \in DOMAIN channels PROVE channels[c].source \in Nodes
  <2>1. CASE channels[c].target \in TransitionNodes
    <3>1. PICK k \in DOMAIN nodes : channels[c].target = <<Zero, k>>
      BY <2>1 DEF TransitionNodes
    <3>2. PICK s \in Queries : (IsJoined(nodes[k], s) \/ IsSplitted(nodes[k], s)) /\ Feeds(k, s)
      BY <1>1 DEF NodesFit
    <3>3. PICK p \in DOMAIN nodes[k].ports : channels[c] = Feed(k, s, p)
      BY <3>1, <3>2 DEF Feeds
    <3>4. p \in DOMAIN execs[s]
      BY <1>1, <3>2, TransitionFed
    <3>5. channels[c].source = <<s, p>>
      BY <3>3, ChannelFields DEF Feed
    <3>6. QED
      BY <3>4, <3>5 DEF Nodes, QueryNodes
  <2>2. CASE channels[c].target \notin TransitionNodes
    <3>1. PICK q \in Queries : \E i \in DOMAIN execs[q] :
            f[c] \in DOMAIN conf.deps[q] /\ IsLink(channels[c], q, i, conf.deps[q][f[c]])
      BY <1>2, <2>2 DEF LinksFit
    <3>2. PICK i \in DOMAIN execs[q] :
            f[c] \in DOMAIN conf.deps[q] /\ IsLink(channels[c], q, i, conf.deps[q][f[c]])
      BY <3>1
    <3>3. PICK d, dep : d = channels[c] /\ dep = conf.deps[q][f[c]]
      OBVIOUS
    <3>4. dep.source \in Queries /\ dep.shard \in Nat
      <4>1. dep \in ToSet(conf.deps[q])
        BY <3>2, <3>3 DEF ToSet
      <4>2. QED
        BY <1>1, <4>1, DependencyFields
    <3>5. IsLink(d, q, i, dep)
      BY <3>2, <3>3
    <3>6. d.source \in Nodes
      BY <1>1, <3>4, <3>5, SourceOfLink
    <3>7. QED
      BY <3>3, <3>6
  <2>3. QED
    BY <2>1, <2>2
<1>4. QED
  BY <1>3 DEF Sources

-----------------------------------------------------------------------------
(***************************************************************************)
(* calculateExecutionIds(): the texts in an id.                            *)
(***************************************************************************)
LEMMA TextOfNode ==
  ASSUME conf \in ConfigurationsOf(STRING), Populated, NEW n \in Nodes
  PROVE  /\ n \in TransitionNodes => TextOf(n)[2] = "query"
         /\ n \in QueryNodes => n[1] \in Queries /\ TextOf(n)[2] = conf.text[n[1]]
<1>1. CASE n \in TransitionNodes
  <2>1. n[1] = Zero
    BY <1>1 DEF TransitionNodes
  <2>2. \A q \in Queries : q # 0
    BY QueriesAreNumbers
  <2>3. n \notin QueryNodes
    BY <2>1, <2>2 DEF QueryNodes
  <2>4. QED
    BY <2>1, <2>3 DEF TextOf
<1>2. CASE n \in QueryNodes
  <2>1. PICK q, i : q \in Queries /\ i \in DOMAIN execs[q] /\ n = <<q, i>>
    BY <1>2 DEF QueryNodes
  <2>2. q # 0
    BY <2>1, QueriesAreNumbers
  <2>3. TextOf(n) = Text(<<q, i>>) /\ n[1] = q
    BY <2>1, <2>2 DEF TextOf
  <2>4. Text(<<q, i>>) = <<execs[q][i].url, conf.text[q]>>
    BY <2>1, TransitionIds
  <2>5. n \notin TransitionNodes
    BY <2>2, <2>3 DEF TransitionNodes
  <2>6. QED
    BY <2>1, <2>3, <2>4, <2>5
<1>3. QED
  BY <1>1, <1>2 DEF Nodes

LEMMA IdOfNode ==
  ASSUME Complete, NEW n \in Nodes
  PROVE  /\ ExecutionId(n)[1] = TextOf(n)
         /\ DOMAIN ExecutionId(n)[2] = {TextOf(m) : m \in ToSet(Dependencies(n))}
         /\ ToSet(Dependencies(n)) \subseteq Nodes
<1>1. Dependencies(n) \in Seq(Nodes)
  BY SourcesAreNodes, DependenciesAreNodes DEF Complete
<1> DEFINE deps == Dependencies(n)
           texts == [i \in DOMAIN deps |-> TextOf(deps[i])]
<1>2. ExecutionId(n) = <<TextOf(n), Counts(texts)>>
  BY DEF ExecutionId
<1> HIDE DEF deps
<1>3. DOMAIN Counts(texts) = ToSet(texts)
  BY DEF Counts
<1>4. ToSet(texts) = {TextOf(m) : m \in ToSet(deps)}
  BY DEF ToSet
<1>5. ToSet(deps) \subseteq Nodes
  BY <1>1, ElementOfSeq, LenProperties DEF ToSet, deps
<1> HIDE DEF texts
<1>6. QED
  BY <1>2, <1>3, <1>4, <1>5 DEF deps

\* The text the user writes is in no id of the first run.
LEMMA IdIsClean ==
  ASSUME Complete, \A q \in Queries : conf.text[q] # NewText, NEW n \in Nodes
  PROVE  IsClean(ExecutionId(n))
<1>1. \A m \in Nodes : TextOf(m)[2] # NewText
  BY TextOfNode, ConfigurationAssumption DEF Complete, Nodes
<1>2. QED
  BY <1>1, IdOfNode DEF IsClean

LEMMA CalculateIdsStep ==
  ASSUME TypeOK, GraphInv, CalculateIds
  PROVE  IInv'
<1>1. /\ phase = "ids" /\ ~Uninitialised /\ phase' = "done"
      /\ ids' = [n \in QueryNodes \cup TransitionNodes |-> ExecutionId(n)]
      /\ UNCHANGED <<conf, edited, earlier, at, execs, nodes, channels>>
  BY DEF CalculateIds, graph
<1>2. TypeOK'
  BY <1>1 DEF TypeOK
<1>3. Populated /\ NodesFit /\ Linking
  BY <1>1 DEF GraphInv
<1>4. StillProcessed
  BY <1>1 DEF StillProcessed, Processed
<1>5. GraphUnchanged
  BY <1>1 DEF GraphUnchanged
<1>6. Populated' /\ NodesFit' /\ Linking' /\ ~Uninitialised'
  <2>1. Linking'
    BY <1>3, <1>4, <1>5, LinkingStays
  <2>2. QED
    BY <1>1, <1>3, <2>1, GraphStays
<1>7. ids' = [n \in QueryNodes \cup TransitionNodes |-> ExecutionId(n)]'
  <2>1. QueryNodes' = QueryNodes /\ TransitionNodes' = TransitionNodes
    BY <1>1 DEF QueryNodes, TransitionNodes
  <2>2. \A n : TextOf(n)' = TextOf(n)
    BY <1>1 DEF TextOf, Text, Node
  <2>3. \A n : Dependencies(n)' = Dependencies(n)
    BY <1>1, <2>1 DEF Dependencies
  <2>4. \A n : ExecutionId(n)' = ExecutionId(n)
    BY <2>2, <2>3 DEF ExecutionId
  <2>5. QED
    BY <1>1, <2>1, <2>4
<1>8. IdsFit'
  BY <1>1, <1>6, <1>7, ExecutionsStay DEF GraphInv, IdsFit
<1>9. QED
  BY <1>1, <1>2, <1>6, <1>8 DEF IInv, GraphInv

\* The second run starts as the first, with one other text.
LEMMA EditStep ==
  ASSUME TypeOK, GraphInv, NEW q \in Queries, Edit(q)
  PROVE  IInv'
<1>1. /\ phase = "done" /\ edited = Zero /\ edited' = q /\ earlier' = ids
      /\ conf' = [conf EXCEPT !.text[q] = NewText] /\ phase' = "urls" /\ at' = <<1, 1>>
      /\ execs' = [r \in Queries |-> <<>>] /\ nodes' = <<>> /\ channels' = <<>>
  BY DEF Edit, Starts
<1>2. conf \in ConfigurationsOf(STRING) /\ q # 0 /\ 1 \in Queries /\ Queries \subseteq Nat \ {0}
  BY QueriesAreNumbers DEF TypeOK
<1>3. /\ conf' \in ConfigurationsOf(STRING) /\ conf'.text[q] = NewText
      /\ \A r \in Queries : conf'.database[r] = conf.database[r] /\ conf'.own[r] = conf.own[r]
      /\ conf'.size = conf.size
  <2>1. NewText \in STRING
    BY ConfigurationAssumption
  <2>2. QED
    BY <1>1, <1>2, <2>1 DEF ConfigurationsOf
<1>4. \A r \in Queries : DOMAIN Urls(r)' = DOMAIN Urls(r)
  BY <1>3 DEF Urls
<1>5. TypeOK'
  <2>1. nodes' \in Seq(TransitionType) /\ channels' \in Seq(ChannelType)
    BY <1>1, EmptySeq
  <2>2. at' \in Queries \X (Nat \ {0})
    BY <1>1, <1>2
  <2>3. QED
    BY <1>1, <1>3, <2>1, <2>2 DEF TypeOK
<1>6. Populating'
  <2>1. \A r \in Queries : ~(r < 1)
    BY <1>2
  <2>2. execs' = [r \in Queries |-> IF r < 1 THEN Executions(r)' ELSE <<>>]
    BY <1>1, <2>1
  <2>3. at'[1] = 1
    BY <1>1
  <2>4. QED
    BY <1>1, <2>1, <2>2, <2>3 DEF Populating
<1>7. Complete /\ (\A r \in Queries : conf.text[r] # NewText)
      /\ ids = [n \in Nodes |-> ExecutionId(n)]
  BY <1>1, <1>2 DEF TypeOK, GraphInv, IdsFit, Complete, Nodes
<1>8. ASSUME NEW r \in Queries, NEW i \in DOMAIN Urls(r) PROVE IsClean(ids[<<r, i>>])
  <2>1. i \in DOMAIN execs[r]
    BY <1>7, ExecutionsMade DEF Complete
  <2>2. <<r, i>> \in Nodes
    BY <2>1 DEF Nodes, QueryNodes
  <2>3. IsClean(ExecutionId(<<r, i>>))
    BY <1>7, <2>2, IdIsClean
  <2>4. ids[<<r, i>>] = ExecutionId(<<r, i>>)
    BY <1>7, <2>2
  <2>5. QED
    BY <2>3, <2>4
<1>9. IdsFit'
  <2>1. edited' # Zero /\ phase' # "done" /\ conf'.text[edited'] = NewText
    BY <1>1, <1>2, <1>3
  <2>2. \A r \in Queries : \A i \in DOMAIN Urls(r)' : IsClean(earlier'[<<r, i>>])
    BY <1>1, <1>4, <1>8
  <2>3. QED
    BY <2>1, <2>2 DEF IdsFit, IsClean
<1>10. QED
  BY <1>1, <1>5, <1>6, <1>9 DEF IInv, GraphInv

LEMMA InitInv ==
  ASSUME Init
  PROVE  IInv
<1>1. /\ conf \in Configurations /\ edited = 0 /\ earlier = <<>> /\ phase = "urls"
      /\ at = <<1, 1>> /\ execs = [q \in Queries |-> <<>>] /\ nodes = <<>> /\ channels = <<>>
  BY DEF Init
<1>2. conf \in ConfigurationsOf(STRING) /\ (\A q \in Queries : conf.text[q] # NewText)
      /\ 1 \in Queries /\ Queries \subseteq Nat \ {0}
  BY <1>1, QueriesAreNumbers, ConfigurationAssumption
<1>3. TypeOK
  <2>1. nodes \in Seq(TransitionType) /\ channels \in Seq(ChannelType)
    BY <1>1, EmptySeq
  <2>2. QED
    BY <1>1, <1>2, <2>1 DEF TypeOK
<1>4. Populating
  <2>1. \A r \in Queries : ~(r < 1)
    BY <1>2
  <2>2. execs = [r \in Queries |-> IF r < 1 THEN Executions(r) ELSE <<>>]
    BY <1>1, <2>1
  <2>3. QED
    BY <1>1, <2>1, <2>2 DEF Populating
<1>5. IdsFit
  BY <1>1, <1>2 DEF IdsFit
<1>6. QED
  BY <1>1, <1>3, <1>4, <1>5 DEF IInv, GraphInv

LEMMA StutterStep ==
  ASSUME TypeOK, GraphInv, UNCHANGED vars
  PROVE  IInv'
<1>1. UNCHANGED <<conf, edited, earlier, phase, at, execs, nodes, channels, ids>>
  BY DEF vars
<1>2. TypeOK'
  BY <1>1 DEF TypeOK
<1>3. GraphUnchanged /\ StillProcessed
  BY <1>1 DEF GraphUnchanged, StillProcessed, Processed
<1>4. phase' \in {"transitions", "ids", "done"} => Populated' /\ (~Uninitialised' => NodesFit' /\ Linking')
  <2>1. Linking => Linking'
    BY <1>3, LinkingStays
  <2>2. QED
    BY <1>1, <2>1, GraphStays DEF GraphInv
<1>5. phase' = "urls" => Populating'
  BY <1>1, ExecutionsStay DEF GraphInv, Populating
<1>6. IdsFit'
  <2>1. QueryNodes' = QueryNodes /\ TransitionNodes' = TransitionNodes /\ Uninitialised' = Uninitialised
    BY <1>1 DEF QueryNodes, TransitionNodes, Uninitialised
  <2>2. \A n : TextOf(n)' = TextOf(n)
    BY <1>1 DEF TextOf, Text, Node
  <2>3. \A n : Dependencies(n)' = Dependencies(n)
    BY <1>1, <2>1 DEF Dependencies
  <2>4. \A n : ExecutionId(n)' = ExecutionId(n)
    BY <2>2, <2>3 DEF ExecutionId
  <2>5. QED
    BY <1>1, <2>1, <2>4, ExecutionsStay DEF GraphInv, IdsFit
<1>7. QED
  BY <1>2, <1>4, <1>5, <1>6 DEF IInv, GraphInv

\* The graph is built as the invariant says, whatever the queries depend on.
THEOREM GraphBuilt == Spec => []IInv
<1>1. Init => IInv
  BY InitInv
<1>2. IInv /\ [Next]_vars => IInv'
  <2>1. SUFFICES ASSUME TypeOK, GraphInv, [Next]_vars PROVE IInv'
    BY DEF IInv
  <2>2. CASE PopulateUrls
    BY <2>1, <2>2, PopulateUrlsStep
  <2>3. CASE NoUrlFound
    BY <2>1, <2>3, FailStep DEF NoUrlFound, graph
  <2>4. CASE OneToOne
    BY <2>1, <2>4, OneToOneStep
  <2>5. CASE ManyToManyUnsharded
    BY <2>1, <2>5, ManyToManyUnshardedStep
  <2>6. CASE ManyToManySharded
    BY <2>1, <2>6, ManyToManyShardedStep
  <2>7. CASE ManyToOne
    BY <2>1, <2>7, ManyToOneAgain, ManyToOneFirst
  <2>8. CASE OneToManyUnsharded
    BY <2>1, <2>8, OneToManyUnshardedStep
  <2>9. CASE OneToMany
    BY <2>1, <2>9, OneToManyAgain, OneToManyFirst
  <2>10. CASE StrategyRefuses
    BY <2>1, <2>10, FailStep DEF StrategyRefuses, graph
  <2>11. CASE NoTransition
    BY <2>1, <2>11, NoTransitionStep
  <2>12. CASE NextTarget
    BY <2>1, <2>12, NextTargetStep
  <2>13. CASE CalculateIds
    BY <2>1, <2>13, CalculateIdsStep
  <2>14. CASE NoUrlOfTransition
    BY <2>1, <2>14, FailStep DEF NoUrlOfTransition, graph
  <2>15. CASE EndlessDependencies
    BY <2>1, <2>15, FailStep DEF EndlessDependencies, graph
  <2>16. CASE \E q \in Queries : Edit(q)
    BY <2>1, <2>16, EditStep
  <2>17. CASE UNCHANGED vars
    BY <2>1, <2>17, StutterStep
  <2>18. CASE Done
    BY <2>1, <2>18, StutterStep DEF Done
  <2>19. QED
    BY <2>1, <2>2, <2>3, <2>4, <2>5, <2>6, <2>7, <2>8, <2>9, <2>10, <2>11, <2>12, <2>13, <2>14, <2>15, <2>16,
       <2>17, <2>18 DEF Next
<1>3. QED
  BY <1>1, <1>2, PTL DEF Spec

\* What the texts in an id tell: it differs from those of the first run.
LEMMA InvalidatesFromInv ==
  ASSUME IInv
  PROVE  EditInvalidates
<1>1. SUFFICES ASSUME phase = "done", edited # Zero, NEW n \in QueryNodes,
                      NEW m \in {n} \cup ToSet(Dependencies(n)), m[1] = edited
               PROVE  ids[n] # earlier[n]
  BY DEF EditInvalidates
<1>2. Complete /\ conf.text[edited] = NewText /\ ids = [k \in Nodes |-> ExecutionId(k)]
      /\ \A q \in Queries : \A i \in DOMAIN Urls(q) : IsClean(earlier[<<q, i>>])
  BY <1>1 DEF IInv, TypeOK, GraphInv, IdsFit, Complete, Nodes
<1>3. n \in Nodes /\ ids[n] = ExecutionId(n)
  BY <1>2 DEF Nodes
<1>4. IsClean(earlier[n])
  <2>1. PICK q, i : q \in Queries /\ i \in DOMAIN execs[q] /\ n = <<q, i>>
    BY DEF QueryNodes
  <2>2. i \in DOMAIN Urls(q)
    BY <1>2, <2>1, ExecutionsMade DEF Complete
  <2>3. QED
    BY <1>2, <2>1, <2>2
<1>5. m \in Nodes
  BY <1>2, <1>3, IdOfNode
<1>6. TextOf(m)[2] = NewText
  <2>1. m \notin TransitionNodes
    BY <1>1 DEF TransitionNodes
  <2>2. QED
    BY <1>1, <1>2, <1>5, <2>1, TextOfNode DEF Complete, Nodes
<1>7. CASE m = n
  <2>1. ids[n][1] = TextOf(m)
    BY <1>2, <1>3, <1>7, IdOfNode
  <2>2. QED
    BY <1>4, <1>6, <2>1 DEF IsClean
<1>8. CASE m \in ToSet(Dependencies(n))
  <2>1. TextOf(m) \in DOMAIN ids[n][2]
    BY <1>2, <1>3, <1>8, IdOfNode
  <2>2. QED
    BY <1>4, <1>6, <2>1 DEF IsClean
<1>9. QED
  BY <1>7, <1>8

\* No cached result is used again that is out of date, however far away the edit was.
THEOREM EditsInvalidate == Spec => []EditInvalidates
<1>1. IInv => EditInvalidates
  BY InvalidatesFromInv
<1>2. QED
  BY <1>1, GraphBuilt, PTL

-----------------------------------------------------------------------------
(***************************************************************************)
(* Which ports are fed.                                                    *)
(***************************************************************************)
\* How many executions a dependency selects.
LEMMA SelectedSizes ==
  ASSUME conf \in ConfigurationsOf(STRING), Populated, NEW dep, dep.source \in Queries, dep.shard \in Nat
  PROVE  /\ Len(Selected(dep)) \in Nat /\ Len(execs[dep.source]) \in Nat \ {0}
         /\ Len(Selected(dep)) > 1 => dep.shard = Zero /\ Len(execs[dep.source]) = Len(Selected(dep))
         /\ Len(execs[dep.source]) = 1 => (Len(Selected(dep)) = 1 <=> dep.shard \in {0, 1})
         /\ conf.own[dep.source] # Zero => Len(execs[dep.source]) = 1
<1>1. PICK n, m : n = Len(execs[dep.source]) /\ m = Len(Selected(dep))
  OBVIOUS
<1>2. n \in Nat \ {0} /\ DOMAIN execs[dep.source] = 1 .. n /\ (conf.own[dep.source] # Zero => n = 1)
  BY <1>1, ExecutionsMade
<1>3. /\ dep.shard = Zero => m = n
      /\ dep.shard \in 1 .. n => m = 1
      /\ dep.shard \notin {Zero} \cup 1 .. n => m = 0
  BY <1>1, <1>2, SelectedExecutions
<1>3a. m \in Nat
  BY <1>1, SelectedExecutions
<1>4. m > 1 => dep.shard = Zero /\ n = m
  BY <1>2, <1>3, <1>3a
<1>5. n = 1 => (m = 1 <=> dep.shard \in {0, 1})
  <2>1. SUFFICES ASSUME n = 1 PROVE m = 1 <=> dep.shard \in {0, 1}
    OBVIOUS
  <2>2. dep.shard = 0 => m = 1
    BY <1>1, <2>1, SelectedExecutions
  <2>3. dep.shard = 1 => m = 1
    BY <1>3, <2>1
  <2>4. dep.shard \notin {0, 1} => m = 0
    <3>1. dep.shard \notin {0, 1} => dep.shard \notin {Zero} \cup 1 .. n
      BY <2>1
    <3>2. QED
      BY <1>3, <3>1
  <2>5. QED
    BY <2>2, <2>3, <2>4
<1>6. QED
  BY <1>1, <1>2, <1>3a, <1>4, <1>5

\* The name of the first execution of a query.
LEMMA FirstName ==
  ASSUME conf \in ConfigurationsOf(STRING), Populated, NEW s \in Queries
  PROVE  /\ execs[s][1].name.of = s
         /\ Len(execs[s]) = 1 => execs[s][1].name = QName(s, conf.own[s])
         /\ Len(execs[s]) > 1 => execs[s][1].name.no = 1
<1>1. 1 \in DOMAIN execs[s] /\ Len(execs[s]) \in Nat
  BY ExecutionsMade
<1>2. execs[s][1].name = ExecName(s, 1, Len(execs[s]))
  BY <1>1, ExecutionsMade
<1>3. execs[s][1].name = [of |-> s, shard |-> conf.own[s], no |-> IF Len(execs[s]) > 1 THEN 1 ELSE 0]
  BY <1>2 DEF ExecName
<1>4. Len(execs[s]) = 1 => ~(Len(execs[s]) > 1)
  <2>1. PICK n : n = Len(execs[s])
    OBVIOUS
  <2>2. n = 1 => ~(n > 1)
    OBVIOUS
  <2>3. QED
    BY <2>1, <2>2
<1>5. QED
  BY <1>3, <1>4 DEF QName

\* The port that a channel for a dependency goes to.
Port(q, dep) ==
  IF Len(execs[q]) > 1 /\ Len(Selected(dep)) = 1 THEN execs[dep.source][1].name
  ELSE QName(dep.source, dep.shard)

LEMMA PortOfLink ==
  ASSUME conf \in ConfigurationsOf(STRING), Populated, NEW c, NEW q \in Queries, NEW i, NEW dep,
         dep.source \in Queries, dep.shard \in Nat, IsLink(c, q, i, dep)
  PROVE  c.targetPort = Port(q, dep) /\ c.target = <<q, i>> /\ Linked(q, dep)
<1>1. PICK m, n : m = Len(Selected(dep)) /\ n = Len(execs[q])
  OBVIOUS
<1>2. m \in Nat /\ n \in Nat /\ (m > 1 => dep.shard = Zero)
  BY <1>1, SelectedSizes, ExecutionsMade
<1>3. CASE IsOneToOne(q, dep) /\ c = From(<<dep.source, Selected(dep)[1]>>, Default, <<q, i>>, QName(dep.source, dep.shard))
  <2>1. n = 1
    BY <1>1, <1>3 DEF IsOneToOne
  <2>2. ~(n > 1)
    BY <2>1
  <2>3. QED
    BY <1>1, <1>3, <2>2, ChannelFields DEF Port, Linked
<1>4. CASE IsManyToMany(q, dep) /\ c = From(<<dep.source, i>>, Default, <<q, i>>, QName(dep.source, Zero))
  <2>1. m = n /\ n > 1
    BY <1>1, <1>4 DEF IsManyToMany
  <2>2. m # 1 /\ dep.shard = Zero
    BY <1>2, <2>1
  <2>3. QED
    BY <1>1, <1>4, <2>2, ChannelFields DEF Port, Linked
<1>5. CASE IsManyToOne(q, dep) /\ \E k \in DOMAIN nodes : c = From(<<Zero, k>>, Default, <<q, i>>, QName(dep.source, Zero))
  <2>1. m > 1
    BY <1>1, <1>5 DEF IsManyToOne
  <2>2. m # 1 /\ dep.shard = Zero
    BY <1>2, <2>1
  <2>3. QED
    BY <1>1, <1>5, <2>2, ChannelFields DEF Port, Linked
<1>6. CASE IsUnsharded(q, dep) /\ c = From(<<dep.source, 1>>, Default, <<q, i>>, execs[dep.source][1].name)
  BY <1>6, ChannelFields DEF Port, Linked, IsUnsharded
<1>7. CASE Splits(q, dep) /\ \E k \in DOMAIN nodes : c = From(<<Zero, k>>, Numbered(i), <<q, i>>, execs[dep.source][1].name)
  BY <1>7, ChannelFields DEF Port, Linked, Splits
<1>8. QED
  BY <1>3, <1>4, <1>5, <1>6, <1>7 DEF IsLink

\* The channels to an execution are those for the linked dependencies of its query.
To(n) == {c \in DOMAIN channels : channels[c].target = n}

LEMMA ChannelsToExecution ==
  ASSUME Complete, NEW q \in Queries, NEW i \in DOMAIN execs[q]
  PROVE  \E f :
           /\ \A c \in To(<<q, i>>) : f[c] \in DOMAIN conf.deps[q] /\ IsLink(channels[c], q, i, conf.deps[q][f[c]])
           /\ \A c, d \in To(<<q, i>>) : f[c] = f[d] => c = d
           /\ \A j \in DOMAIN conf.deps[q] : Linked(q, conf.deps[q][j]) => \E c \in To(<<q, i>>) : f[c] = j
<1>1. PICK f \in [DOMAIN channels -> DepNumbers] : LinksFit(f)
  BY DEF Complete, Linking
<1>2. \A c \in To(<<q, i>>) : c \in DOMAIN channels /\ channels[c].target = <<q, i>> /\ channels[c].target \notin TransitionNodes
  <2>1. q # 0
    BY QueriesAreNumbers
  <2>2. QED
    BY <2>1 DEF To, TransitionNodes
<1>3. ASSUME NEW c \in To(<<q, i>>)
      PROVE  f[c] \in DOMAIN conf.deps[q] /\ IsLink(channels[c], q, i, conf.deps[q][f[c]])
  <2>1. PICK r \in Queries : \E m \in DOMAIN execs[r] :
          /\ channels[c].target = <<r, m>> /\ f[c] \in DOMAIN conf.deps[r]
          /\ IsLink(channels[c], r, m, conf.deps[r][f[c]])
    BY <1>1, <1>2 DEF LinksFit
  <2>2. PICK m \in DOMAIN execs[r] :
          /\ channels[c].target = <<r, m>> /\ f[c] \in DOMAIN conf.deps[r]
          /\ IsLink(channels[c], r, m, conf.deps[r][f[c]])
    BY <2>1
  <2>3. r = q /\ m = i
    BY <1>2, <2>2
  <2>4. QED
    BY <2>2, <2>3
<1>4. \A c, d \in To(<<q, i>>) : f[c] = f[d] => c = d
  BY <1>1, <1>2 DEF LinksFit
<1>5. ASSUME NEW j \in DOMAIN conf.deps[q], Linked(q, conf.deps[q][j]) PROVE \E c \in To(<<q, i>>) : f[c] = j
  <2>1. Processed(q, j)
    BY DEF Complete, Processed
  <2>2. \A r \in Queries : \A l \in DOMAIN conf.deps[r] : \A m \in DOMAIN execs[r] :
          Processed(r, l) /\ Linked(r, conf.deps[r][l]) =>
            \E c \in DOMAIN channels : channels[c].target = <<r, m>> /\ f[c] = l
    BY <1>1 DEF LinksFit
  <2>3. PICK c \in DOMAIN channels : channels[c].target = <<q, i>> /\ f[c] = j
    BY <1>5, <2>1, <2>2
  <2>4. QED
    BY <2>3 DEF To
<1>6. QED
  BY <1>3, <1>4, <1>5

\* Those to one of its ports, and the dependencies they are for.
Reaching(q, port) == {j \in DOMAIN conf.deps[q] : Linked(q, conf.deps[q][j]) /\ Port(q, conf.deps[q][j]) = port}

LEMMA ArrivingForDependencies ==
  ASSUME Complete, NEW q \in Queries, NEW i \in DOMAIN execs[q], NEW port
  PROVE  /\ IsSingle(Arriving(<<q, i>>, port)) <=> IsSingle(Reaching(q, port))
         /\ IsSingle(Arriving(<<q, i>>, port)) =>
              \E j \in Reaching(q, port) : IsLink(Arrival(<<q, i>>, port), q, i, conf.deps[q][j])
<1>1. PICK f :
        /\ \A c \in To(<<q, i>>) : f[c] \in DOMAIN conf.deps[q] /\ IsLink(channels[c], q, i, conf.deps[q][f[c]])
        /\ \A c, d \in To(<<q, i>>) : f[c] = f[d] => c = d
        /\ \A j \in DOMAIN conf.deps[q] : Linked(q, conf.deps[q][j]) => \E c \in To(<<q, i>>) : f[c] = j
  BY ChannelsToExecution
<1> DEFINE arriving == Arriving(<<q, i>>, port)
           reaching == Reaching(q, port)
<1>2. arriving = {c \in To(<<q, i>>) : channels[c].targetPort = port}
  BY DEF Arriving, To
<1>3. ASSUME NEW c \in To(<<q, i>>)
      PROVE  channels[c].targetPort = Port(q, conf.deps[q][f[c]]) /\ Linked(q, conf.deps[q][f[c]])
  <2>1. PICK d, e : d = channels[c] /\ e = conf.deps[q][f[c]]
    OBVIOUS
  <2>2. IsLink(d, q, i, e)
    BY <1>1, <2>1
  <2>3. e \in ToSet(conf.deps[q])
    BY <1>1, <2>1 DEF ToSet
  <2>4. conf \in ConfigurationsOf(STRING) /\ Populated
    BY DEF Complete
  <2>5. e.source \in Queries /\ e.shard \in Nat
    BY <2>3, <2>4, DependencyFields
  <2>6. d.targetPort = Port(q, e) /\ Linked(q, e)
    BY <2>2, <2>4, <2>5, PortOfLink
  <2>7. QED
    BY <2>1, <2>6
<1>4. ASSUME NEW c \in arriving PROVE f[c] \in reaching
  <2>1. c \in To(<<q, i>>) /\ channels[c].targetPort = port
    BY <1>2
  <2>2. QED
    BY <1>1, <1>3, <2>1 DEF Reaching
<1>5. ASSUME NEW j \in reaching PROVE \E c \in arriving : f[c] = j
  <2>1. j \in DOMAIN conf.deps[q] /\ Linked(q, conf.deps[q][j]) /\ Port(q, conf.deps[q][j]) = port
    BY DEF Reaching
  <2>2. PICK c \in To(<<q, i>>) : f[c] = j
    BY <1>1, <2>1
  <2>3. channels[c].targetPort = port
    BY <1>3, <2>1, <2>2
  <2>4. QED
    BY <1>2, <2>2, <2>3
<1>6. \A c, d \in arriving : f[c] = f[d] => c = d
  BY <1>1, <1>2
<1> HIDE DEF arriving, reaching
<1>7. IsSingle(arriving) => IsSingle(reaching)
  <2>1. SUFFICES ASSUME NEW c, arriving = {c} PROVE reaching = {f[c]}
    BY DEF IsSingle
  <2>2. f[c] \in reaching
    BY <1>4, <2>1
  <2>3. \A j \in reaching : j = f[c]
    BY <1>5, <2>1
  <2>4. QED
    BY <2>2, <2>3
<1>8. IsSingle(reaching) => IsSingle(arriving)
  <2>1. SUFFICES ASSUME NEW j, reaching = {j} PROVE \E c : arriving = {c}
    BY DEF IsSingle
  <2>2. PICK c \in arriving : f[c] = j
    BY <1>5, <2>1
  <2>3. \A d \in arriving : d = c
    BY <1>4, <1>6, <2>1, <2>2
  <2>4. arriving = {c}
    BY <2>2, <2>3
  <2>5. QED
    BY <2>4
<1>9. ASSUME IsSingle(arriving)
      PROVE  \E j \in reaching : IsLink(Arrival(<<q, i>>, port), q, i, conf.deps[q][j])
  <2>1. PICK c : c \in arriving /\ c = CHOOSE d \in arriving : TRUE
    <3>1. \E d : d \in arriving
      BY <1>9 DEF IsSingle
    <3>2. (CHOOSE d \in arriving : TRUE) \in arriving
      BY <3>1
    <3>3. QED
      BY <3>2
  <2>2. Arrival(<<q, i>>, port) = channels[c]
    BY <2>1 DEF Arrival, arriving
  <2>3. f[c] \in reaching
    BY <1>4, <2>1
  <2>4. c \in To(<<q, i>>)
    BY <1>2, <2>1
  <2>5. IsLink(channels[c], q, i, conf.deps[q][f[c]])
    BY <1>1, <2>4
  <2>6. QED
    BY <2>2, <2>3, <2>5
<1>10. QED
  BY <1>7, <1>8, <1>9 DEF arriving, reaching

\* A split has a part for each execution of the query it was made for, the first that needed it.
LEMMA PartsOfSplit ==
  ASSUME Complete, NEW k \in DOMAIN nodes, nodes[k].kind = "splitted", NEW dep, dep.source \in Queries,
         nodes[k].id = SplittedId(dep.source)
  PROVE  /\ nodes[k].count = Len(execs[FirstSplit(dep)]) /\ FirstSplit(dep) \in Queries
         /\ nodes[k].strategies = conf.strategies[conf.database[FirstSplit(dep)]] /\ SplitsFor(FirstSplit(dep), dep.source)
<1>1. PICK s \in Queries : IsJoined(nodes[k], s) \/ IsSplitted(nodes[k], s)
  BY DEF Complete, NodesFit
<1>2. IsSplitted(nodes[k], s)
  BY <1>1 DEF IsJoined
<1>3. PICK t \in Queries :
        /\ SplitsFor(t, s) /\ \A q \in Queries : SplitsFor(q, s) => t <= q
        /\ nodes[k].strategies = conf.strategies[conf.database[t]] /\ nodes[k].count = Len(execs[t])
  BY <1>2 DEF IsSplitted
<1>4. SplittedId(dep.source) = SplittedId(s)
  BY <1>2 DEF IsSplitted
<1> DEFINE first == {q \in Queries : SplitsFor(q, s)}
<1>5. FirstSplit(dep) = Min(first)
  BY <1>4 DEF FirstSplit, SplitsFor
<1>6. first \subseteq Nat /\ t \in first
  BY <1>3, QueriesAreNumbers
<1>7. \A q \in first : t <= q
  BY <1>3
<1>8. first \subseteq Queries
  OBVIOUS
<1> HIDE DEF first
<1>9. Min(first) \in first /\ Min(first) <= t
  BY <1>6, MinOfNumbers
<1>10. Min(first) = t
  <2>1. Min(first) \in Nat /\ t \in Nat /\ t <= Min(first)
    BY <1>6, <1>7, <1>9
  <2>2. QED
    BY <1>9, <2>1
<1>11. SplitsFor(t, dep.source)
  BY <1>3, <1>4 DEF SplitsFor
<1>12. QED
  BY <1>3, <1>5, <1>8, <1>9, <1>10, <1>11

LEMMA OutPortOfLink ==
  ASSUME Complete, NEW c, NEW q \in Queries, NEW i \in DOMAIN execs[q], NEW dep, dep.source \in Queries,
         IsLink(c, q, i, dep)
  PROVE  c.sourcePort \in OutPorts(c.source) <=> (Splits(q, dep) => i <= Len(execs[FirstSplit(dep)]))
<1>1. conf \in ConfigurationsOf(STRING) /\ Populated /\ dep.source # 0
  BY QueriesAreNumbers DEF Complete
<1>2. i \in Nat /\ i >= 1 /\ Len(execs[q]) \in Nat
  BY <1>1, ExecutionsMade
<1>3. CASE Splits(q, dep)
  <2>1. PICK k \in DOMAIN nodes : /\ nodes[k].kind = "splitted" /\ nodes[k].id = SplittedId(dep.source)
                                  /\ c = From(<<Zero, k>>, Numbered(i), <<q, i>>, execs[dep.source][1].name)
    BY <1>2, <1>3, LinkOfSplit DEF FromSplit
  <2>2. nodes[k].count = Len(execs[FirstSplit(dep)]) /\ FirstSplit(dep) \in Queries
    BY <2>1, PartsOfSplit
  <2>3. c.sourcePort = Numbered(i) /\ c.source = <<Zero, k>>
    BY <2>1, ChannelFields
  <2>4. OutPorts(<<Zero, k>>) = {Numbered(p) : p \in 1 .. nodes[k].count}
    BY <2>1 DEF OutPorts, Node
  <2>5. Numbered(i) \in {Numbered(p) : p \in 1 .. nodes[k].count} <=> i \in 1 .. nodes[k].count
    BY DEF Numbered
  <2>6. nodes[k].count \in Nat
    BY <1>1, <2>2, ExecutionsMade
  <2>7. i \in 1 .. nodes[k].count <=> i <= nodes[k].count
    BY <1>2, <2>6
  <2>8. c.sourcePort \in OutPorts(c.source) <=> i <= nodes[k].count
    BY <2>3, <2>4, <2>5, <2>7
  <2>9. QED
    BY <1>3, <2>2, <2>8
<1>4. CASE ~Splits(q, dep)
  <2>1. CASE c.source[1] # Zero /\ c.sourcePort = Default
    BY <1>4, <2>1 DEF OutPorts
  <2>2. CASE \E k \in DOMAIN nodes : nodes[k].kind = "joined" /\ c.source = <<Zero, k>> /\ c.sourcePort = Default
    BY <1>4, <2>2 DEF OutPorts, Node
  <2>3. \/ c.source[1] # Zero /\ c.sourcePort = Default
        \/ \E k \in DOMAIN nodes : nodes[k].kind = "joined" /\ c.source = <<Zero, k>> /\ c.sourcePort = Default
    <3>1. CASE c = From(<<dep.source, Selected(dep)[1]>>, Default, <<q, i>>, QName(dep.source, dep.shard))
      BY <1>1, <3>1, ChannelFields
    <3>2. CASE c = From(<<dep.source, i>>, Default, <<q, i>>, QName(dep.source, Zero))
      BY <1>1, <3>2, ChannelFields
    <3>3. CASE \E k \in DOMAIN nodes : nodes[k].kind = "joined" /\ nodes[k].id = JoinedId(dep.source)
                 /\ c = From(<<Zero, k>>, Default, <<q, i>>, QName(dep.source, Zero))
      BY <3>3, ChannelFields
    <3>4. CASE c = From(<<dep.source, 1>>, Default, <<q, i>>, execs[dep.source][1].name)
      BY <1>1, <3>4, ChannelFields
    <3>5. QED
      BY <1>4, <3>1, <3>2, <3>3, <3>4 DEF IsLink
  <2>4. QED
    BY <2>1, <2>2, <2>3
<1>5. QED
  BY <1>3, <1>4

\* The ports of an execution that are named after a dependency are those of that dependency.
LEMMA PortsOfDependency ==
  ASSUME Complete, NEW q \in Queries, NEW i \in DOMAIN execs[q], NEW dep \in ToSet(conf.deps[q])
  PROVE  {p \in DOMAIN Node(<<q, i>>).ports : Node(<<q, i>>).ports[p] = QName(dep.source, dep.shard)}
           = {j \in DOMAIN conf.deps[q] : conf.deps[q][j] = dep}
<1>1. conf \in ConfigurationsOf(STRING) /\ Populated /\ q # 0
  BY QueriesAreNumbers DEF Complete
<1>2. Node(<<q, i>>) = execs[q][i]
  BY <1>1 DEF Node
<1>3. /\ DOMAIN execs[q][i].ports = DOMAIN conf.deps[q]
      /\ \A j \in DOMAIN conf.deps[q] :
           execs[q][i].ports[j] = QName(conf.deps[q][j].source, conf.deps[q][j].shard)
  BY <1>1, ExecutionsMade
<1>4. conf.deps[q] \in Seq([source : Queries, shard : Nat])
  BY <1>1, ConfigurationFields
<1>5. \A j \in DOMAIN conf.deps[q] : conf.deps[q][j] \in [source : Queries, shard : Nat]
  BY <1>4, ElementOfSeq, LenProperties
<1>6. dep \in [source : Queries, shard : Nat]
  BY <1>5 DEF ToSet
<1>7. ASSUME NEW j \in DOMAIN conf.deps[q]
      PROVE  QName(conf.deps[q][j].source, conf.deps[q][j].shard) = QName(dep.source, dep.shard)
               <=> conf.deps[q][j] = dep
  <2>1. PICK e \in [source : Queries, shard : Nat] : e = conf.deps[q][j]
    BY <1>5
  <2>2. QName(e.source, e.shard) = QName(dep.source, dep.shard) => e = dep
    BY <1>6 DEF QName
  <2>3. QED
    BY <2>1, <2>2
<1>8. QED
  BY <1>2, <1>3, <1>7

\* The split that a dependency needs is found by its source.
LEMMA FirstSplitOfSource ==
  ASSUME NEW dep, NEW other, dep.source = other.source
  PROVE  FirstSplit(dep) = FirstSplit(other)
<1>1. SplittedId(dep.source) = SplittedId(other.source)
  OBVIOUS
<1> DEFINE first(id) == {q \in Queries : \E d \in ToSet(conf.deps[q]) : Splits(q, d) /\ SplittedId(d.source) = id}
<1>2. FirstSplit(dep) = Min(first(SplittedId(dep.source))) /\ FirstSplit(other) = Min(first(SplittedId(other.source)))
  BY DEF FirstSplit
<1> HIDE DEF first
<1>3. QED
  BY <1>1, <1>2

\* What reaches the port of a dependency of a query with one execution: what names the same.
LEMMA ReachingSingle ==
  ASSUME Complete, NEW q \in Queries, Len(execs[q]) = 1, NEW dep \in ToSet(conf.deps[q])
  PROVE  Reaching(q, QName(dep.source, dep.shard)) =
           {j \in DOMAIN conf.deps[q] : conf.deps[q][j] = dep /\ Len(Selected(dep)) > 0}
<1>1. conf \in ConfigurationsOf(STRING) /\ Populated
  BY DEF Complete
<1>2. conf.deps[q] \in Seq([source : Queries, shard : Nat])
  BY <1>1, ConfigurationFields
<1>3. \A j \in DOMAIN conf.deps[q] : conf.deps[q][j] \in [source : Queries, shard : Nat]
  BY <1>2, ElementOfSeq, LenProperties
<1>4. dep \in [source : Queries, shard : Nat]
  BY <1>3 DEF ToSet
<1>5. ~(Len(execs[q]) > 1)
  <2>1. PICK n : n = Len(execs[q])
    OBVIOUS
  <2>2. n = 1 => ~(n > 1)
    OBVIOUS
  <2>3. QED
    BY <2>1, <2>2
<1>6. ASSUME NEW e \in [source : Queries, shard : Nat]
      PROVE  Linked(q, e) /\ Port(q, e) = QName(dep.source, dep.shard) <=> e = dep /\ Len(Selected(dep)) > 0
  <2>1. Port(q, e) = QName(e.source, e.shard)
    BY <1>5 DEF Port
  <2>2. QName(e.source, e.shard) = QName(dep.source, dep.shard) <=> e = dep
    BY <1>4 DEF QName
  <2>3. Linked(q, e) <=> Len(Selected(e)) > 0
    <3>1. PICK m : m = Len(Selected(e))
      OBVIOUS
    <3>2. m \in Nat
      BY <1>1, <3>1, SelectedSizes
    <3>3. m > 0 <=> m = 1 \/ m > 1
      BY <3>2
    <3>4. QED
      BY <1>5, <3>1, <3>3 DEF Linked, IsOneToOne, IsManyToMany, IsManyToOne, IsUnsharded, Splits
  <2>4. QED
    BY <2>1, <2>2, <2>3
<1>7. QED
  BY <1>3, <1>6 DEF Reaching

\* With several: those that are joined to it one by one, and all that select an only execution.
LEMMA ReachingSeveral ==
  ASSUME Complete, NEW q \in Queries, Len(execs[q]) > 1, NEW dep \in ToSet(conf.deps[q])
  PROVE  Reaching(q, QName(dep.source, dep.shard)) =
           {j \in DOMAIN conf.deps[q] :
              \/ conf.deps[q][j] = dep /\ IsManyToMany(q, dep)
              \/ /\ j \in SelectOnly(q, dep.source) /\ Len(execs[dep.source]) = 1
                 /\ dep.shard = conf.own[dep.source]}
<1>1. conf \in ConfigurationsOf(STRING) /\ Populated
  BY DEF Complete
<1>2. conf.deps[q] \in Seq([source : Queries, shard : Nat])
  BY <1>1, ConfigurationFields
<1>3. \A j \in DOMAIN conf.deps[q] : conf.deps[q][j] \in [source : Queries, shard : Nat]
  BY <1>2, ElementOfSeq, LenProperties
<1>4. dep \in [source : Queries, shard : Nat]
  BY <1>3 DEF ToSet
<1>5. Len(execs[q]) # 1
  <2>1. PICK n : n = Len(execs[q])
    OBVIOUS
  <2>2. n > 1 => n # 1
    OBVIOUS
  <2>3. QED
    BY <2>1, <2>2
<1>6. ASSUME NEW e \in [source : Queries, shard : Nat]
      PROVE  Linked(q, e) /\ Port(q, e) = QName(dep.source, dep.shard) <=>
               \/ e = dep /\ IsManyToMany(q, dep)
               \/ /\ e.source = dep.source /\ e.shard \in {0, 1} /\ Len(execs[dep.source]) = 1
                  /\ dep.shard = conf.own[dep.source]
  <2>1. PICK m, n : m = Len(Selected(e)) /\ n = Len(execs[e.source])
    OBVIOUS
  <2>2. m \in Nat /\ n \in Nat \ {0} /\ (m > 1 => e.shard = Zero /\ n = m) /\ (n = 1 => (m = 1 <=> e.shard \in {0, 1}))
    BY <1>1, <2>1, SelectedSizes
  <2>3. CASE m = 1
    <3>1. Linked(q, e) /\ Port(q, e) = execs[e.source][1].name
      BY <1>5, <2>1, <2>3 DEF Linked, IsUnsharded, Splits, Port
    <3>2. ~(IsManyToMany(q, dep) /\ e = dep)
      BY <1>5, <2>1, <2>3 DEF IsManyToMany
    <3>3. CASE n = 1
      <4>1. execs[e.source][1].name = QName(e.source, conf.own[e.source])
        BY <1>1, <2>1, <3>3, FirstName
      <4>2. QName(e.source, conf.own[e.source]) = QName(dep.source, dep.shard) <=>
              e.source = dep.source /\ conf.own[e.source] = dep.shard
        BY DEF QName
      <4>3. e.shard \in {0, 1}
        BY <2>2, <2>3, <3>3
      <4>4. Linked(q, e) /\ Port(q, e) = QName(dep.source, dep.shard) <=>
              e.source = dep.source /\ conf.own[dep.source] = dep.shard
        BY <3>1, <4>1, <4>2
      <4>5. e.source = dep.source => Len(execs[dep.source]) = 1
        BY <2>1, <3>3
      <4>6. QED
        BY <3>2, <4>3, <4>4, <4>5
    <3>4. CASE n # 1
      <4>1. n > 1
        BY <2>2, <3>4
      <4>2. execs[e.source][1].name.no = 1
        BY <1>1, <2>1, <4>1, FirstName
      <4>3. QName(dep.source, dep.shard).no = 0
        BY DEF QName
      <4>4. Port(q, e) # QName(dep.source, dep.shard)
        BY <3>1, <4>2, <4>3
      <4>5. e.source = dep.source => Len(execs[dep.source]) # 1
        BY <2>1, <3>4
      <4>6. QED
        BY <3>2, <4>4, <4>5
    <3>5. QED
      BY <3>3, <3>4
  <2>4. CASE m # 1
    <3>1. Port(q, e) = QName(e.source, e.shard)
      BY <2>1, <2>4 DEF Port
    <3>2. QName(e.source, e.shard) = QName(dep.source, dep.shard) <=> e = dep
      BY <1>4 DEF QName
    <3>3. Linked(q, e) <=> IsManyToMany(q, e)
      BY <1>5, <2>1, <2>4 DEF Linked, IsOneToOne, IsManyToOne, IsUnsharded, Splits
    <3>4. ~(n = 1 /\ e.shard \in {0, 1})
      BY <2>2, <2>4
    <3>5. ~(e.source = dep.source /\ Len(execs[dep.source]) = 1 /\ e.shard \in {0, 1})
      BY <2>1, <3>4
    <3>6. QED
      BY <3>1, <3>2, <3>3, <3>5
  <2>5. QED
    BY <2>3, <2>4
<1>7. \A j \in DOMAIN conf.deps[q] : j \in SelectOnly(q, dep.source) <=>
        conf.deps[q][j].source = dep.source /\ conf.deps[q][j].shard \in {0, 1}
  BY DEF SelectOnly
<1>8. QED
  BY <1>3, <1>6, <1>7 DEF Reaching

\* The graph serves a dependency that is named once exactly if one channel reaches its port.
ServedPort(q, dep, i) ==
  LET reaching == Reaching(q, QName(dep.source, dep.shard))
  IN  /\ IsSingle(reaching)
      /\ \A j \in reaching : Splits(q, conf.deps[q][j]) => i <= Len(execs[FirstSplit(conf.deps[q][j])])

LEMMA ServedByReaching ==
  ASSUME Complete, NEW q \in Queries, NEW i \in DOMAIN execs[q], NEW dep \in ToSet(conf.deps[q]), Once(q, dep)
  PROVE  ServedPort(q, dep, i) <=> Served(q, dep, i)
<1> DEFINE reaching == Reaching(q, QName(dep.source, dep.shard))
<1>1. conf \in ConfigurationsOf(STRING) /\ Populated
  BY DEF Complete
<1>2. dep.source \in Queries /\ dep.shard \in Nat
  BY <1>1, DependencyFields
<1>3. IsSingle({j \in DOMAIN conf.deps[q] : conf.deps[q][j] = dep})
  BY DEF Once
<1>4. PICK m, n, a : m = Len(Selected(dep)) /\ n = Len(execs[q]) /\ a = Len(execs[dep.source])
  OBVIOUS
<1>5. m \in Nat /\ n \in Nat \ {0} /\ a \in Nat \ {0} /\ (m > 1 => a = m)
  BY <1>1, <1>2, <1>4, SelectedSizes, ExecutionsMade
<1>6. i \in Nat
  BY <1>1, ExecutionsMade
<1>7. CASE n = 1
  <2>1. reaching = {j \in DOMAIN conf.deps[q] : conf.deps[q][j] = dep /\ m > 0}
    BY <1>4, <1>7, ReachingSingle
  <2>2. IsSingle(reaching) <=> m > 0
    <3>1. m > 0 => reaching = {j \in DOMAIN conf.deps[q] : conf.deps[q][j] = dep}
      BY <2>1
    <3>2. ~(m > 0) => reaching = {}
      BY <2>1
    <3>3. ~IsSingle({})
      BY DEF IsSingle
    <3>4. QED
      BY <1>3, <3>1, <3>2, <3>3
  <2>3. ~(n > 1)
    BY <1>7
  <2>4. \A e : ~Splits(q, e)
    BY <1>4, <2>3 DEF Splits
  <2>5. QED
    BY <1>4, <1>7, <2>2, <2>3, <2>4 DEF ServedPort, Served
<1>8. CASE n # 1
  <2>1. n > 1
    BY <1>5, <1>8
  <2>2. reaching = {j \in DOMAIN conf.deps[q] :
                      \/ conf.deps[q][j] = dep /\ IsManyToMany(q, dep)
                      \/ j \in SelectOnly(q, dep.source) /\ a = 1 /\ dep.shard = conf.own[dep.source]}
    BY <1>4, <2>1, ReachingSeveral
  <2>3. IsManyToMany(q, dep) <=> m = n /\ conf.database[dep.source] = conf.database[q]
    BY <1>4, <2>1 DEF IsManyToMany
  <2>4. Served(q, dep, i) <=>
          \/ IsManyToMany(q, dep)
          \/ /\ a = 1 /\ dep.shard = conf.own[dep.source] /\ IsSingle(SelectOnly(q, dep.source))
             /\ conf.own[dep.source] = Zero => Len(execs[FirstSplit(dep)]) >= i
    BY <1>4, <1>8, <2>1, <2>3 DEF Served
  <2>5. CASE IsManyToMany(q, dep)
    <3>1. a # 1 /\ m # 1
      BY <1>5, <2>1, <2>3, <2>5
    <3>2. reaching = {j \in DOMAIN conf.deps[q] : conf.deps[q][j] = dep}
      BY <2>2, <2>5, <3>1
    <3>3. ~Splits(q, dep)
      BY <1>4, <3>1 DEF Splits
    <3>4. QED
      BY <1>3, <2>4, <2>5, <3>2, <3>3 DEF ServedPort
  <2>6. CASE ~IsManyToMany(q, dep) /\ a = 1 /\ dep.shard = conf.own[dep.source]
    <3>1. SelectOnly(q, dep.source) \subseteq DOMAIN conf.deps[q]
      BY DEF SelectOnly
    <3>2. reaching = SelectOnly(q, dep.source)
      BY <2>2, <2>6, <3>1
    <3>3. ASSUME NEW j \in SelectOnly(q, dep.source)
          PROVE  /\ Splits(q, conf.deps[q][j]) <=> conf.own[dep.source] = Zero
                 /\ FirstSplit(conf.deps[q][j]) = FirstSplit(dep)
      <4>1. PICK e : e = conf.deps[q][j]
        OBVIOUS
      <4>2. e.source = dep.source /\ e.shard \in {0, 1}
        <5>1. \A l \in SelectOnly(q, dep.source) :
                conf.deps[q][l].source = dep.source /\ conf.deps[q][l].shard \in {0, 1}
          BY DEF SelectOnly
        <5>2. QED
          BY <4>1, <5>1
      <4>3. e.shard \in Nat /\ Len(execs[e.source]) = 1
        <5>1. e.shard = 0 \/ e.shard = 1
          BY <4>2
        <5>2. e.shard \in Nat
          BY <5>1
        <5>3. Len(execs[dep.source]) = 1
          BY <1>4, <2>6
        <5>4. QED
          BY <4>2, <5>2, <5>3
      <4>4. Len(Selected(e)) = 1
        BY <1>1, <1>2, <4>2, <4>3, SelectedSizes
      <4>5. Splits(q, e) <=> conf.own[dep.source] = Zero
        BY <1>4, <2>1, <4>2, <4>4 DEF Splits
      <4>6. FirstSplit(e) = FirstSplit(dep)
        BY <4>2, FirstSplitOfSource
      <4>7. QED
        BY <4>1, <4>5, <4>6
    <3>4. ServedPort(q, dep, i) <=>
            /\ IsSingle(SelectOnly(q, dep.source))
            /\ \A j \in SelectOnly(q, dep.source) :
                 conf.own[dep.source] = Zero => i <= Len(execs[FirstSplit(dep)])
      BY <3>2, <3>3 DEF ServedPort
    <3>5. IsSingle(SelectOnly(q, dep.source)) => SelectOnly(q, dep.source) # {}
      BY DEF IsSingle
    <3>6. i <= Len(execs[FirstSplit(dep)]) <=> Len(execs[FirstSplit(dep)]) >= i
      BY SMT
    <3>7. QED
      BY <2>4, <2>6, <3>4, <3>5, <3>6
  <2>7. CASE ~IsManyToMany(q, dep) /\ ~(a = 1 /\ dep.shard = conf.own[dep.source])
    <3>1. reaching = {}
      BY <2>2, <2>7
    <3>2. ~IsSingle({})
      BY DEF IsSingle
    <3>3. QED
      BY <2>4, <2>7, <3>1, <3>2 DEF ServedPort
  <2>8. QED
    BY <2>5, <2>6, <2>7
<1>9. QED
  BY <1>7, <1>8

\* From the invariant to the ports.
LEMMA FedIffServed ==
  ASSUME Complete, NEW q \in Queries, NEW i \in DOMAIN execs[q], NEW dep \in ToSet(conf.deps[q])
  PROVE  Fed(<<q, i>>, QName(dep.source, dep.shard)) <=> Served(q, dep, i)
<1>1. IsSingle({p \in DOMAIN Node(<<q, i>>).ports : Node(<<q, i>>).ports[p] = QName(dep.source, dep.shard)})
        <=> Once(q, dep)
  BY PortsOfDependency DEF Once
<1>2. CASE ~Once(q, dep)
  BY <1>1, <1>2 DEF Fed, Served
<1>3. CASE Once(q, dep)
  <2>1. PICK c : c = Arrival(<<q, i>>, QName(dep.source, dep.shard))
    OBVIOUS
  <2>2. PICK port : port = QName(dep.source, dep.shard)
    OBVIOUS
  <2>3. Fed(<<q, i>>, port) <=> IsSingle(Arriving(<<q, i>>, port)) /\ c.sourcePort \in OutPorts(c.source)
    BY <1>1, <1>3, <2>1, <2>2 DEF Fed
  <2>4. ServedPort(q, dep, i) <=>
          /\ IsSingle(Reaching(q, port))
          /\ \A j \in Reaching(q, port) : Splits(q, conf.deps[q][j]) => i <= Len(execs[FirstSplit(conf.deps[q][j])])
    BY <2>2 DEF ServedPort
  <2>5. IsSingle(Arriving(<<q, i>>, port)) <=> IsSingle(Reaching(q, port))
    BY ArrivingForDependencies
  <2>6. ASSUME IsSingle(Reaching(q, port))
        PROVE  c.sourcePort \in OutPorts(c.source) <=>
                 \A j \in Reaching(q, port) : Splits(q, conf.deps[q][j]) => i <= Len(execs[FirstSplit(conf.deps[q][j])])
    <3>1. PICK j \in Reaching(q, port) : IsLink(c, q, i, conf.deps[q][j])
      BY <2>1, <2>2, <2>5, <2>6, ArrivingForDependencies
    <3>2. PICK e : e = conf.deps[q][j]
      OBVIOUS
    <3>3. e \in ToSet(conf.deps[q])
      BY <3>1, <3>2 DEF Reaching, ToSet
    <3>4. e.source \in Queries
      BY <3>3, DependencyFields DEF Complete
    <3>5. IsLink(c, q, i, e)
      BY <3>1, <3>2
    <3>6. c.sourcePort \in OutPorts(c.source) <=> (Splits(q, e) => i <= Len(execs[FirstSplit(e)]))
      BY <3>4, <3>5, OutPortOfLink
    <3>7. \A l \in Reaching(q, port) : l = j
      BY <2>6, <3>1 DEF IsSingle
    <3>8. QED
      BY <3>1, <3>2, <3>6, <3>7
  <2>7. Fed(<<q, i>>, port) <=> ServedPort(q, dep, i)
    BY <2>3, <2>4, <2>5, <2>6
  <2>8. QED
    BY <1>3, <2>2, <2>7, ServedByReaching
<1>4. QED
  BY <1>2, <1>3

\* Each port of a target is fed exactly if its dependency is one that the graph serves.
THEOREM PortsServed == Spec => []PortsFit
<1>1. ASSUME IInv PROVE PortsFit
  <2>1. SUFFICES ASSUME phase = "done", NEW q \in Queries, NEW dep \in ToSet(conf.deps[q]), NEW i \in DOMAIN execs[q]
                 PROVE  Fed(<<q, i>>, QName(dep.source, dep.shard)) <=> Served(q, dep, i)
    BY DEF PortsFit
  <2>2. Complete
    BY <1>1, <2>1 DEF IInv, TypeOK, GraphInv, IdsFit, Complete
  <2>3. QED
    BY <2>2, FedIffServed
<1>2. IInv => PortsFit
  BY <1>1
<1>3. QED
  BY <1>2, GraphBuilt, PTL

-----------------------------------------------------------------------------
(***************************************************************************)
(* A graph in which every dependency is served fits together.              *)
(***************************************************************************)
\* A channel to an execution.
LEMMA LinkFits ==
  ASSUME Complete, NEW c, NEW q \in Queries, NEW i \in DOMAIN execs[q], NEW dep, dep.source \in Queries,
         dep.shard \in Nat, IsLink(c, q, i, dep), Served(q, dep, i)
  PROVE  c.targetPort = QName(dep.source, dep.shard) /\ c.sourcePort \in OutPorts(c.source)
<1>1. conf \in ConfigurationsOf(STRING) /\ Populated
  BY DEF Complete
<1>2. PICK m, n, a : m = Len(Selected(dep)) /\ n = Len(execs[q]) /\ a = Len(execs[dep.source])
  OBVIOUS
<1>3. \/ n = 1
      \/ n > 1 /\ m = n
      \/ /\ n > 1 /\ a = 1 /\ dep.shard = conf.own[dep.source]
         /\ conf.own[dep.source] = Zero => Len(execs[FirstSplit(dep)]) >= i
  BY <1>2 DEF Served
<1>4. n > 1 /\ m = 1 => /\ a = 1 /\ dep.shard = conf.own[dep.source]
                        /\ conf.own[dep.source] = Zero => Len(execs[FirstSplit(dep)]) >= i
  <2>1. n > 1 /\ m = 1 => n # 1 /\ m # n
    OBVIOUS
  <2>2. QED
    BY <1>3, <2>1
<1>5. Splits(q, dep) => i <= Len(execs[FirstSplit(dep)])
  <2>1. i <= Len(execs[FirstSplit(dep)]) <=> Len(execs[FirstSplit(dep)]) >= i
    BY SMT
  <2>2. QED
    BY <1>2, <1>4, <2>1 DEF Splits
<1>6. Port(q, dep) = QName(dep.source, dep.shard)
  <2>1. a = 1 => execs[dep.source][1].name = QName(dep.source, conf.own[dep.source])
    BY <1>1, <1>2, FirstName
  <2>2. n > 1 /\ m = 1 => execs[dep.source][1].name = QName(dep.source, dep.shard)
    BY <1>4, <2>1
  <2>3. QED
    BY <1>2, <2>2 DEF Port
<1>7. QED
  BY <1>1, <1>5, <1>6, OutPortOfLink, PortOfLink

\* The ports of a transition have names of their own.
LEMMA PortsOfTransition ==
  ASSUME NEW k \in DOMAIN nodes, NEW s, IsJoined(nodes[k], s) \/ IsSplitted(nodes[k], s),
         NEW p \in DOMAIN nodes[k].ports, NEW o \in DOMAIN nodes[k].ports, nodes[k].ports[p] = nodes[k].ports[o]
  PROVE  p = o
<1>1. CASE IsJoined(nodes[k], s)
  <2>1. nodes[k].ports = [i \in DOMAIN execs[s] |-> Numbered(i)]
    BY <1>1 DEF IsJoined
  <2>2. Numbered(p) = Numbered(o)
    BY <2>1
  <2>3. QED
    BY <2>2 DEF Numbered
<1>2. CASE IsSplitted(nodes[k], s)
  <2>1. nodes[k].ports = <<execs[s][1].name>>
    BY <1>2 DEF IsSplitted
  <2>2. QED
    BY <2>1
<1>3. QED
  BY <1>1, <1>2

\* To each of them one channel leads, from the execution with its number.
LEMMA FeedArrives ==
  ASSUME NEW k \in DOMAIN nodes, NEW s, IsJoined(nodes[k], s) \/ IsSplitted(nodes[k], s), Feeds(k, s),
         NEW p \in DOMAIN nodes[k].ports
  PROVE  /\ IsSingle(Arriving(<<Zero, k>>, nodes[k].ports[p]))
         /\ Arrival(<<Zero, k>>, nodes[k].ports[p]) = Feed(k, s, p)
<1>1. PICK port : port = nodes[k].ports[p]
  OBVIOUS
<1>2. \A o \in DOMAIN nodes[k].ports : nodes[k].ports[o] = port => o = p
  BY <1>1, PortsOfTransition
<1>3. Arriving(<<Zero, k>>, port) = {c \in DOMAIN channels : channels[c] = Feed(k, s, p)}
  <2>1. ASSUME NEW c \in DOMAIN channels
        PROVE  channels[c].target = <<Zero, k>> /\ channels[c].targetPort = port <=> channels[c] = Feed(k, s, p)
    <3>1. PICK d : d = channels[c]
      OBVIOUS
    <3>2. ASSUME d.target = <<Zero, k>>, d.targetPort = port PROVE d = Feed(k, s, p)
      <4>1. PICK o \in DOMAIN nodes[k].ports : d = Feed(k, s, o)
        BY <3>1, <3>2 DEF Feeds
      <4>2. d.targetPort = nodes[k].ports[o]
        BY <4>1, ChannelFields DEF Feed
      <4>3. o = p
        BY <1>2, <3>2, <4>2
      <4>4. QED
        BY <4>1, <4>3
    <3>3. ASSUME d = Feed(k, s, p) PROVE d.target = <<Zero, k>> /\ d.targetPort = port
      BY <1>1, <3>3, ChannelFields DEF Feed
    <3>4. QED
      BY <3>1, <3>2, <3>3
  <2>2. QED
    BY <2>1 DEF Arriving
<1>4. IsSingle(Arriving(<<Zero, k>>, port))
  BY <1>3 DEF Feeds
<1>5. PICK c : c \in Arriving(<<Zero, k>>, port) /\ c = CHOOSE d \in Arriving(<<Zero, k>>, port) : TRUE
  <2>1. \E d : d \in Arriving(<<Zero, k>>, port)
    BY <1>4 DEF IsSingle
  <2>2. (CHOOSE d \in Arriving(<<Zero, k>>, port) : TRUE) \in Arriving(<<Zero, k>>, port)
    BY <2>1
  <2>3. QED
    BY <2>2
<1>6. Arrival(<<Zero, k>>, port) = Feed(k, s, p)
  BY <1>3, <1>5 DEF Arrival
<1>7. QED
  BY <1>1, <1>4, <1>6

\* So each is fed.
LEMMA TransitionPortFed ==
  ASSUME Complete, NEW k \in DOMAIN nodes, NEW port \in ToSet(Node(<<Zero, k>>).ports)
  PROVE  Fed(<<Zero, k>>, port)
<1>1. Node(<<Zero, k>>) = nodes[k]
  BY DEF Node
<1>2. PICK s \in Queries : (IsJoined(nodes[k], s) \/ IsSplitted(nodes[k], s)) /\ Feeds(k, s)
  BY DEF Complete, NodesFit
<1>3. PICK p \in DOMAIN nodes[k].ports : port = nodes[k].ports[p]
  BY <1>1 DEF ToSet
<1>4. \A o \in DOMAIN nodes[k].ports : nodes[k].ports[o] = port => o = p
  BY <1>2, <1>3, PortsOfTransition
<1>5. {o \in DOMAIN nodes[k].ports : nodes[k].ports[o] = port} = {p}
  BY <1>3, <1>4
<1>6. IsSingle(Arriving(<<Zero, k>>, port)) /\ Arrival(<<Zero, k>>, port) = Feed(k, s, p)
  BY <1>2, <1>3, FeedArrives
<1>7. Arrival(<<Zero, k>>, port).source = <<s, p>> /\ Arrival(<<Zero, k>>, port).sourcePort = Default
  BY <1>6, ChannelFields DEF Feed
<1>8. OutPorts(<<s, p>>) = {Default}
  BY <1>2, QueriesAreNumbers DEF OutPorts
<1>9. QED
  BY <1>1, <1>5, <1>6, <1>7, <1>8 DEF Fed, IsSingle

\* A channel joins ports there are.
LEMMA ChannelFits ==
  ASSUME Complete, AllServed, NEW c \in DOMAIN channels
  PROVE  /\ {channels[c].source, channels[c].target} \subseteq Nodes
         /\ channels[c].sourcePort \in OutPorts(channels[c].source)
         /\ channels[c].targetPort \in ToSet(Node(channels[c].target).ports)
<1>1. conf \in ConfigurationsOf(STRING) /\ Populated
  BY DEF Complete
<1>2. channels[c].source \in Nodes
  BY SourcesAreNodes DEF Sources, Complete
<1>3. PICK d : d = channels[c]
  OBVIOUS
<1>4. CASE d.target \in TransitionNodes
  <2>1. PICK k \in DOMAIN nodes : d.target = <<Zero, k>>
    BY <1>4 DEF TransitionNodes
  <2>2. PICK s \in Queries : (IsJoined(nodes[k], s) \/ IsSplitted(nodes[k], s)) /\ Feeds(k, s)
    BY DEF Complete, NodesFit
  <2>3. PICK p \in DOMAIN nodes[k].ports : d = Feed(k, s, p)
    BY <1>3, <2>1, <2>2 DEF Feeds
  <2>4. d.source = <<s, p>> /\ d.sourcePort = Default /\ d.targetPort = nodes[k].ports[p]
    BY <2>3, ChannelFields DEF Feed
  <2>5. OutPorts(<<s, p>>) = {Default}
    BY <2>2, QueriesAreNumbers DEF OutPorts
  <2>6. Node(d.target) = nodes[k]
    BY <2>1 DEF Node
  <2>7. d.targetPort \in ToSet(Node(d.target).ports)
    BY <2>4, <2>6 DEF ToSet
  <2>8. d.target \in Nodes
    BY <1>4 DEF Nodes
  <2>9. QED
    BY <1>2, <1>3, <2>4, <2>5, <2>7, <2>8
<1>5. CASE d.target \notin TransitionNodes
  <2>1. PICK q, i, j :
          /\ q \in Queries /\ i \in DOMAIN execs[q] /\ d.target = <<q, i>> /\ j \in DOMAIN conf.deps[q]
          /\ IsLink(d, q, i, conf.deps[q][j])
    <3>1. PICK f \in [DOMAIN channels -> DepNumbers] : LinksFit(f)
      BY DEF Complete, Linking
    <3>2. PICK q \in Queries : \E i \in DOMAIN execs[q] :
            /\ channels[c].target = <<q, i>> /\ f[c] \in DOMAIN conf.deps[q]
            /\ IsLink(channels[c], q, i, conf.deps[q][f[c]])
      BY <1>3, <1>5, <3>1 DEF LinksFit
    <3>3. PICK i \in DOMAIN execs[q] :
            /\ channels[c].target = <<q, i>> /\ f[c] \in DOMAIN conf.deps[q]
            /\ IsLink(channels[c], q, i, conf.deps[q][f[c]])
      BY <3>2
    <3>4. QED
      BY <1>3, <3>3
  <2>2. PICK dep : dep = conf.deps[q][j]
    OBVIOUS
  <2>3. dep \in ToSet(conf.deps[q])
    BY <2>1, <2>2 DEF ToSet
  <2>4. dep.source \in Queries /\ dep.shard \in Nat
    BY <1>1, <2>1, <2>3, DependencyFields
  <2>5. Served(q, dep, i)
    BY <2>1, <2>3 DEF AllServed
  <2>6. IsLink(d, q, i, dep)
    BY <2>1, <2>2
  <2>7. d.targetPort = QName(dep.source, dep.shard) /\ d.sourcePort \in OutPorts(d.source)
    BY <2>1, <2>4, <2>5, <2>6, LinkFits
  <2>8. Node(d.target) = execs[q][i]
    BY <2>1, QueriesAreNumbers DEF Node
  <2>9. j \in DOMAIN execs[q][i].ports /\ execs[q][i].ports[j] = QName(dep.source, dep.shard)
    BY <1>1, <2>1, <2>2, ExecutionsMade
  <2>10. d.targetPort \in ToSet(Node(d.target).ports)
    BY <2>7, <2>8, <2>9 DEF ToSet
  <2>11. d.target \in Nodes
    BY <2>1 DEF Nodes, QueryNodes
  <2>12. QED
    BY <1>2, <1>3, <2>7, <2>10, <2>11
<1>6. QED
  BY <1>3, <1>4, <1>5

\* If every dependency is served, every channel joins ports there are, and every port of
\* every execution and every transition is fed by one channel.
THEOREM GraphFitsTogether == Spec => []GraphFits
<1>1. ASSUME IInv PROVE GraphFits
  <2>1. SUFFICES ASSUME phase = "done", AllServed
                 PROVE  /\ \A c \in DOMAIN channels :
                             /\ {channels[c].source, channels[c].target} \subseteq Nodes
                             /\ channels[c].sourcePort \in OutPorts(channels[c].source)
                             /\ channels[c].targetPort \in ToSet(Node(channels[c].target).ports)
                        /\ \A n \in Nodes : \A port \in ToSet(Node(n).ports) : Fed(n, port)
    BY DEF GraphFits, Nodes
  <2>2. Complete
    BY <1>1, <2>1 DEF IInv, TypeOK, GraphInv, IdsFit, Complete
  <2>3. ASSUME NEW n \in QueryNodes, NEW port \in ToSet(Node(n).ports) PROVE Fed(n, port)
    <3>1. PICK q, i : q \in Queries /\ i \in DOMAIN execs[q] /\ n = <<q, i>>
      BY DEF QueryNodes
    <3>2. Node(n) = execs[q][i]
      BY <3>1, QueriesAreNumbers DEF Node
    <3>3. PICK j \in DOMAIN execs[q][i].ports : port = execs[q][i].ports[j]
      BY <3>2 DEF ToSet
    <3>4. j \in DOMAIN conf.deps[q] /\ port = QName(conf.deps[q][j].source, conf.deps[q][j].shard)
      BY <2>2, <3>1, <3>3, ExecutionsMade DEF Complete
    <3>5. PICK dep : dep = conf.deps[q][j]
      OBVIOUS
    <3>6. dep \in ToSet(conf.deps[q])
      BY <3>4, <3>5 DEF ToSet
    <3>7. Served(q, dep, i)
      BY <2>1, <3>1, <3>6 DEF AllServed
    <3>8. Fed(<<q, i>>, QName(dep.source, dep.shard))
      BY <2>2, <3>1, <3>6, <3>7, FedIffServed
    <3>9. QED
      BY <3>1, <3>4, <3>5, <3>8
  <2>4. ASSUME NEW n \in TransitionNodes, NEW port \in ToSet(Node(n).ports) PROVE Fed(n, port)
    <3>1. PICK k \in DOMAIN nodes : n = <<Zero, k>>
      BY DEF TransitionNodes
    <3>2. QED
      BY <2>2, <3>1, TransitionPortFed
  <2>5. QED
    BY <2>1, <2>2, <2>3, <2>4, ChannelFits DEF Nodes
<1>2. IInv => GraphFits
  BY <1>1
<1>3. QED
  BY <1>2, GraphBuilt, PTL

-----------------------------------------------------------------------------
(***************************************************************************)
(* Which rows belong to a shard, whatever the number of shards.            *)
(***************************************************************************)
\* What a division leaves, and that nothing else is left.
LEMMA Remainder ==
  ASSUME NEW a \in Int, NEW n \in Nat, n > 0
  PROVE  a = n * (a \div n) + (a % n) /\ a \div n \in Int /\ a % n \in 0 .. n - 1
<1>1. a = n * (a \div n) + (a % n)
  BY Z3
<1>2. n \in Nat \ {0}
  OBVIOUS
<1>3. a \div n \in Int /\ a % n \in 0 .. n - 1
  BY <1>2
<1>4. QED
  BY <1>1, <1>3

LEMMA RemainderOnce ==
  ASSUME NEW a \in Int, NEW n \in Nat, n > 0, NEW q \in Int, NEW t \in 0 .. n - 1, a = n * q + t
  PROVE  a % n = t
<1>1. n \in Nat \ {0}
  OBVIOUS
<1>2. QED
  BY <1>1

\* The function that a recursion over the numbers to n defines is there.
Iterates(f, n, S, zero, next) ==
  /\ f \in [0 .. n -> S]
  /\ \A k \in 0 .. n : f[k] = IF k = 0 THEN zero ELSE next[f[k - 1]]

LEMMA Iterated ==
  ASSUME NEW S, NEW zero \in S, NEW next \in [S -> S], NEW n \in Nat
  PROVE  \E f : Iterates(f, n, S, zero, next)
<1> DEFINE Is(f, m) == /\ f \in [0 .. m -> S]
                       /\ \A k \in 0 .. m : f[k] = IF k = 0 THEN zero ELSE next[f[k - 1]]
           T == {m \in Nat : \E f : Is(f, m)}
<1>1. 0 \in T
  <2>1. Is([k \in 0 .. 0 |-> zero], 0)
    OBVIOUS
  <2>2. QED
    BY <2>1
<1>2. ASSUME NEW m \in T PROVE m + 1 \in T
  <2>1. PICK f : Is(f, m)
    OBVIOUS
  <2>2. m \in Nat
    OBVIOUS
  <2>3. f[m] \in S /\ next[f[m]] \in S
    BY <2>1, <2>2
  <2>4. PICK g : g = [k \in 0 .. m + 1 |-> IF k = m + 1 THEN next[f[m]] ELSE f[k]]
    OBVIOUS
  <2>5. /\ \A k \in 0 .. m + 1 : k = m + 1 \/ (k \in 0 .. m /\ k # m + 1)
        /\ \A k \in 0 .. m : k = 0 \/ (k - 1 \in 0 .. m /\ k - 1 # m + 1)
        /\ m + 1 # 0 /\ (m + 1) - 1 = m /\ m # m + 1 /\ m \in 0 .. m + 1 /\ m + 1 \in 0 .. m + 1
        /\ 0 .. m \subseteq 0 .. m + 1
    BY <2>2
  <2>6. g[m + 1] = next[f[m]] /\ g[m] = f[m] /\ \A k \in 0 .. m : g[k] = f[k]
    BY <2>4, <2>5
  <2>7. g \in [0 .. m + 1 -> S]
    BY <2>1, <2>3, <2>4, <2>5
  <2>8. ASSUME NEW k \in 0 .. m + 1 PROVE g[k] = IF k = 0 THEN zero ELSE next[g[k - 1]]
    <3>1. CASE k = m + 1
      BY <2>5, <2>6, <3>1
    <3>2. CASE k # m + 1
      <4>1. k \in 0 .. m /\ f[k] = IF k = 0 THEN zero ELSE next[f[k - 1]]
        BY <2>1, <2>5, <3>2
      <4>2. k # 0 => g[k - 1] = f[k - 1]
        BY <2>5, <2>6, <4>1
      <4>3. QED
        BY <2>6, <4>1, <4>2
    <3>3. QED
      BY <3>1, <3>2
  <2>9. Is(g, m + 1)
    BY <2>7, <2>8
  <2>10. QED
    BY <2>2, <2>9
<1>3. T \in SUBSET Nat
  OBVIOUS
<1> HIDE DEF T
<1>4. T = Nat
  BY <1>1, <1>2, <1>3, NatSets
<1>5. QED
  BY <1>4 DEF T, Iterates

\* The powers of two.
LEMMA PowersDouble ==
  /\ Power[0] = 1 /\ \A k \in 1 .. Bits : Power[k] = 2 * Power[k - 1]
  /\ \A k \in 0 .. Bits : Power[k] \in Nat /\ Power[k] > 0
<1> DEFINE S == Nat \ {0}
           next == [p \in S |-> 2 * p]
           Is(f) == f = [bits \in 0 .. Bits |-> IF bits = 0 THEN 1 ELSE 2 * f[bits - 1]]
<1>1. 1 \in S /\ next \in [S -> S] /\ Bits \in Nat /\ Bits > 0
  BY DEF Bits
<1> HIDE DEF next
<1>2. PICK f \in [0 .. Bits -> S] : \A k \in 0 .. Bits : f[k] = IF k = 0 THEN 1 ELSE next[f[k - 1]]
  <2> HIDE DEF S
  <2>1. \E f : Iterates(f, Bits, S, 1, next)
    BY <1>1, Iterated
  <2>2. QED
    BY <2>1 DEF Iterates
<1>3. \A k \in 0 .. Bits : k # 0 => k - 1 \in 0 .. Bits
  BY <1>1
<1>4. \A k \in 0 .. Bits : f[k] = IF k = 0 THEN 1 ELSE 2 * f[k - 1]
  BY <1>2, <1>3 DEF next
<1>5. Is(f)
  BY <1>2, <1>4
<1>6. Is(Power)
  <2>1. Power = CHOOSE g : Is(g)
    BY DEF Power
  <2> HIDE DEF Is
  <2>2. QED
    BY <1>5, <2>1
<1>7. \A k \in 0 .. Bits : Power[k] = IF k = 0 THEN 1 ELSE 2 * Power[k - 1]
  BY <1>6
<1> DEFINE T == {k \in Nat : k <= Bits => Power[k] \in S}
<1>8. 0 \in T
  BY <1>1, <1>7
<1>9. ASSUME NEW k \in T PROVE k + 1 \in T
  <2>1. k \in Nat
    OBVIOUS
  <2>2. SUFFICES ASSUME k + 1 <= Bits PROVE Power[k + 1] \in S
    BY <2>1
  <2>3. k <= Bits /\ k + 1 \in 0 .. Bits /\ k + 1 # 0 /\ (k + 1) - 1 = k
    BY <1>1, <2>1, <2>2
  <2>4. Power[k] \in S /\ Power[k + 1] = 2 * Power[k]
    BY <1>7, <2>3
  <2>5. QED
    BY <2>4
<1>10. T \in SUBSET Nat
  OBVIOUS
<1> HIDE DEF T
<1>11. T = Nat
  BY <1>8, <1>9, <1>10, NatSets
<1>12. \A k \in 0 .. Bits : Power[k] \in S
  BY <1>1, <1>11 DEF T
<1>13. QED
  BY <1>1, <1>7, <1>12

\* The and of one bit more.
Pairs == Nat \X Nat
NoBit == [both \in Pairs |-> 0]
NextBit(and) ==
  [both \in Pairs |-> 2 * and[<<both[1] \div 2, both[2] \div 2>>] + (both[1] % 2) * (both[2] % 2)]

LEMMA Halves ==
  ASSUME NEW x \in Nat
  PROVE  x \div 2 \in Nat /\ x % 2 \in 0 .. 1 /\ x = 2 * (x \div 2) + (x % 2)
<1>1. x \div 2 \in Nat /\ (x % 2 = 0 \/ x % 2 = 1)
  OBVIOUS
<1>2. x \in Int /\ 2 \in Nat /\ 2 > 0
  OBVIOUS
<1>3. x = 2 * (x \div 2) + (x % 2)
  BY <1>2, Remainder
<1>4. QED
  BY <1>1, <1>3

LEMMA NextBitType ==
  ASSUME NEW and \in [Pairs -> Nat]
  PROVE  NextBit(and) \in [Pairs -> Nat]
<1>1. ASSUME NEW both \in Pairs
      PROVE  2 * and[<<both[1] \div 2, both[2] \div 2>>] + (both[1] % 2) * (both[2] % 2) \in Nat
  <2>1. both[1] \in Nat /\ both[2] \in Nat
    BY DEF Pairs
  <2>2. both[1] \div 2 \in Nat /\ both[2] \div 2 \in Nat /\ both[1] % 2 \in 0 .. 1 /\ both[2] % 2 \in 0 .. 1
    BY <2>1, Halves
  <2>3. <<both[1] \div 2, both[2] \div 2>> \in Pairs
    BY <2>2 DEF Pairs
  <2>4. PICK m, x, y : m = and[<<both[1] \div 2, both[2] \div 2>>] /\ x = both[1] % 2 /\ y = both[2] % 2
    OBVIOUS
  <2>5. m \in Nat /\ x \in 0 .. 1 /\ y \in 0 .. 1
    BY <2>2, <2>3, <2>4
  <2>6. x * y \in Nat
    BY <2>5
  <2>7. 2 * m + x * y \in Nat
    BY <2>5, <2>6
  <2>8. QED
    BY <2>4, <2>7
<1>2. QED
  BY <1>1 DEF NextBit

\* The recursion that And is.
LEMMA AndMade ==
  \E and : /\ \A a, b \in Nat : And(a, b) = and[Bits][<<a, b>>]
           /\ and[0] = NoBit /\ \A k \in 1 .. Bits : and[k] = NextBit(and[k - 1])
<1> DEFINE S == [Pairs -> Nat]
           next == [h \in S |-> NextBit(h)]
           Is(f) == f = [bits \in 0 .. Bits |-> [both \in Nat \X Nat |->
             IF bits = 0 THEN 0
             ELSE 2 * f[bits - 1][<<both[1] \div 2, both[2] \div 2>>] + (both[1] % 2) * (both[2] % 2)]]
           and == CHOOSE f : Is(f)
<1>1. \A a, b : And(a, b) = and[Bits][<<a, b>>]
  BY DEF And
<1>2. ASSUME NEW f PROVE Is(f) <=> f = [bits \in 0 .. Bits |-> IF bits = 0 THEN NoBit ELSE NextBit(f[bits - 1])]
  <2>1. \A bits \in 0 .. Bits :
          [both \in Nat \X Nat |->
             IF bits = 0 THEN 0
             ELSE 2 * f[bits - 1][<<both[1] \div 2, both[2] \div 2>>] + (both[1] % 2) * (both[2] % 2)]
            = IF bits = 0 THEN NoBit ELSE NextBit(f[bits - 1])
    BY DEF NoBit, NextBit, Pairs
  <2>2. QED
    BY <2>1
<1>3. NoBit \in S /\ next \in [S -> S] /\ Bits \in Nat
  <2>1. NoBit \in S
    BY DEF NoBit
  <2>2. \A h \in S : NextBit(h) \in S
    BY NextBitType
  <2> HIDE DEF S
  <2>3. QED
    BY <2>1, <2>2 DEF Bits
<1>4. PICK f : Iterates(f, Bits, S, NoBit, next)
  <2> HIDE DEF S, next
  <2>1. QED
    BY <1>3, Iterated
<1>5. f \in [0 .. Bits -> S] /\ \A k \in 0 .. Bits : f[k] = IF k = 0 THEN NoBit ELSE next[f[k - 1]]
  BY <1>4 DEF Iterates
<1> HIDE DEF Is, S
<1>6. \A k \in 0 .. Bits : f[k] = IF k = 0 THEN NoBit ELSE NextBit(f[k - 1])
  <2>1. \A k \in 0 .. Bits : k # 0 => k - 1 \in 0 .. Bits
    BY <1>3
  <2>2. QED
    BY <1>5, <2>1
<1>7. Is(f)
  <2>1. f = [bits \in 0 .. Bits |-> IF bits = 0 THEN NoBit ELSE NextBit(f[bits - 1])]
    BY <1>5, <1>6
  <2>2. QED
    BY <1>2, <2>1
<1>8. Is(and)
  BY <1>7
<1> HIDE DEF and
<1>9. \A k \in 0 .. Bits : and[k] = IF k = 0 THEN NoBit ELSE NextBit(and[k - 1])
  BY <1>2, <1>8
<1>10. and[0] = NoBit /\ \A k \in 1 .. Bits : and[k] = NextBit(and[k - 1])
  <2>1. 0 \in 0 .. Bits /\ \A k \in 1 .. Bits : k \in 0 .. Bits /\ k # 0
    BY <1>3
  <2>2. QED
    BY <1>9, <2>1
<1>11. QED
  BY <1>1, <1>10

\* What is left by twice a number, from what the number leaves of the half.
LEMMA RemainderOfDouble ==
  ASSUME NEW y \in Nat, NEW p \in Nat, p > 0
  PROVE  y % (2 * p) = 2 * ((y \div 2) % p) + (y % 2)
<1>1. PICK h, r, q, s : h = y \div 2 /\ r = y % 2 /\ q = h \div p /\ s = h % p
  OBVIOUS
<1>2. h \in Nat /\ r \in 0 .. 1 /\ y = 2 * h + r
  BY <1>1, Halves
<1>3. q \in Int /\ s \in 0 .. p - 1 /\ h = p * q + s
  BY <1>1, <1>2, Remainder
<1>4. 2 * p \in Nat /\ 2 * p > 0 /\ 2 * s + r \in 0 .. 2 * p - 1
  BY <1>2, <1>3
<1>5. y = (2 * p) * q + (2 * s + r)
  <2>1. PICK pq : pq = p * q
    OBVIOUS
  <2>2. pq \in Int
    BY <1>3, <2>1
  <2>3. y = 2 * pq + (2 * s + r)
    BY <1>2, <1>3, <2>1, <2>2
  <2>4. (2 * p) * q = 2 * (p * q)
    BY <1>3
  <2>5. QED
    BY <2>1, <2>3, <2>4
<1>6. PICK n, t : n = 2 * p /\ t = 2 * s + r
  OBVIOUS
<1>7. y % n = t
  <2>1. n \in Nat /\ n > 0 /\ t \in 0 .. n - 1 /\ y = n * q + t
    BY <1>4, <1>5, <1>6
  <2>2. y \in Int
    OBVIOUS
  <2>3. QED
    BY <1>3, <2>1, <2>2, RemainderOnce
<1>8. QED
  BY <1>1, <1>6, <1>7

LEMMA RemainderOfOne ==
  ASSUME NEW y \in Int
  PROVE  y % 1 = 0
<1>1. 1 \in Nat /\ 1 > 0 /\ 0 \in 0 .. 1 - 1 /\ y = 1 * y + 0
  OBVIOUS
<1>2. QED
  BY <1>1, RemainderOnce

\* The mask of the md5 strategy is a remainder where the number of shards is a power of two.
LEMMA AndOfPower ==
  ASSUME NEW x \in Nat, NEW k \in 0 .. Bits
  PROVE  And(x, Power[k] - 1) = x % Power[k]
<1>1. PICK and : /\ \A a, b \in Nat : And(a, b) = and[Bits][<<a, b>>]
                 /\ and[0] = NoBit /\ \A n \in 1 .. Bits : and[n] = NextBit(and[n - 1])
  BY AndMade
<1>2. Bits \in Nat
  BY DEF Bits
<1>3. \A j \in 0 .. Bits : Power[j] \in Nat /\ Power[j] > 0 /\ Power[j] - 1 \in Nat
  BY PowersDouble
<1> DEFINE Right(n, y, j) == and[n][<<y, Power[j] - 1>>] = y % Power[j]
           T == {n \in Nat : n <= Bits => \A y \in Nat : \A j \in 0 .. Bits : j <= n => Right(n, y, j)}
<1>4. \A y \in Nat : y % Power[0] = 0
  BY PowersDouble, RemainderOfOne
<1>5. 0 \in T
  <2>1. ASSUME NEW y \in Nat PROVE Right(0, y, 0)
    <3>1. <<y, Power[0] - 1>> \in Pairs
      <4>1. 0 \in 0 .. Bits
        BY <1>2
      <4>2. QED
        BY <1>3, <4>1 DEF Pairs
    <3>2. and[0][<<y, Power[0] - 1>>] = 0
      BY <1>1, <3>1 DEF NoBit
    <3>3. QED
      BY <1>4, <3>2
  <2>2. \A j \in 0 .. Bits : j <= 0 => j = 0
    BY <1>2
  <2> HIDE DEF Right
  <2>3. QED
    BY <2>1, <2>2
<1>6. ASSUME NEW n \in T PROVE n + 1 \in T
  <2>1. n \in Nat
    OBVIOUS
  <2>2. SUFFICES ASSUME n + 1 <= Bits, NEW y \in Nat, NEW j \in 0 .. Bits, j <= n + 1 PROVE Right(n + 1, y, j)
    BY <2>1
  <2>3. n <= Bits /\ n + 1 \in 1 .. Bits /\ (n + 1) - 1 = n
    BY <1>2, <2>1, <2>2
  <2>4. and[n + 1] = NextBit(and[n])
    BY <1>1, <2>3
  <2>5. PICK m : m = Power[j] - 1
    OBVIOUS
  <2>6. m \in Nat
    BY <1>3, <2>5
  <2>7. and[n + 1][<<y, m>>] = 2 * and[n][<<y \div 2, m \div 2>>] + (y % 2) * (m % 2)
    <3>1. <<y, m>> \in Pairs
      BY <2>6 DEF Pairs
    <3>2. QED
      BY <2>4, <3>1 DEF NextBit
  <2>8. y \div 2 \in Nat /\ y % 2 \in 0 .. 1
    BY Halves
  <2>9. \A i \in 0 .. Bits : i <= n => Right(n, y \div 2, i)
    BY <2>3, <2>8
  <2>10. CASE j = 0
    <3>1. m = 0 /\ m \div 2 = 0 /\ m % 2 = 0
      BY <2>5, <2>10, PowersDouble
    <3>2. and[n][<<y \div 2, m \div 2>>] = 0
      <4>1. 0 \in 0 .. Bits /\ 0 <= n
        BY <1>2, <2>1
      <4>2. Right(n, y \div 2, 0)
        BY <2>9, <4>1
      <4>3. Power[0] - 1 = 0
        BY PowersDouble
      <4>4. QED
        BY <1>4, <2>8, <3>1, <4>2, <4>3
    <3>3. and[n + 1][<<y, m>>] = 0
      BY <2>7, <2>8, <3>1, <3>2
    <3>4. QED
      BY <1>4, <2>5, <2>10, <3>3
  <2>11. CASE j # 0
    <3>1. j \in 1 .. Bits /\ j - 1 \in 0 .. Bits /\ j - 1 <= n
      BY <1>2, <2>1, <2>2, <2>11
    <3>2. PICK p : p = Power[j - 1]
      OBVIOUS
    <3>3. Power[j] = 2 * p /\ p \in Nat /\ p > 0
      BY <3>1, <3>2, PowersDouble
    <3>4. m \div 2 = p - 1 /\ m % 2 = 1
      <4>1. m = 2 * (p - 1) + 1
        BY <2>5, <3>3
      <4>2. QED
        BY <2>6, <3>3, <4>1
    <3>5. and[n][<<y \div 2, m \div 2>>] = (y \div 2) % p
      <4>1. Right(n, y \div 2, j - 1)
        BY <2>9, <3>1
      <4>2. QED
        BY <3>2, <3>4, <4>1
    <3>6. and[n + 1][<<y, m>>] = 2 * ((y \div 2) % p) + (y % 2)
      BY <2>7, <2>8, <3>4, <3>5
    <3>7. y % (2 * p) = 2 * ((y \div 2) % p) + (y % 2)
      BY <3>3, RemainderOfDouble
    <3>8. QED
      BY <2>5, <3>3, <3>6, <3>7
  <2>12. QED
    BY <2>10, <2>11
<1>7. T \in SUBSET Nat
  OBVIOUS
<1> HIDE DEF T
<1>8. T = Nat
  BY <1>5, <1>6, <1>7, NatSets
<1>9. Right(Bits, x, k)
  <2>1. k <= Bits
    BY <1>2
  <2>2. QED
    BY <1>2, <1>8, <2>1 DEF T
<1>10. And(x, Power[k] - 1) = and[Bits][<<x, Power[k] - 1>>]
  BY <1>1, <1>3
<1>11. QED
  BY <1>9, <1>10

\* A remainder is what has to be taken away.
LEMMA RemainderIs ==
  ASSUME NEW a \in Int, NEW n \in Nat, n > 0, NEW t \in 0 .. n - 1
  PROVE  a % n = t <=> (a - t) % n = 0
<1>1. ASSUME a % n = t PROVE (a - t) % n = 0
  <2>1. PICK q : q = a \div n
    OBVIOUS
  <2>2. q \in Int /\ a = n * q + t
    BY <1>1, <2>1, Remainder
  <2>3. a - t \in Int /\ a - t = n * q + 0 /\ 0 \in 0 .. n - 1
    BY <2>2
  <2>4. QED
    BY <2>2, <2>3, RemainderOnce
<1>2. ASSUME (a - t) % n = 0 PROVE a % n = t
  <2>1. PICK b, q : b = a - t /\ q = b \div n
    OBVIOUS
  <2>2. b \in Int
    BY <2>1
  <2>3. q \in Int /\ b = n * q + (b % n)
    BY <2>1, <2>2, Remainder
  <2>4. b % n = 0
    BY <1>2, <2>1
  <2>5. b = n * q
    BY <2>3, <2>4
  <2>6. a = n * q + t
    BY <2>1, <2>2, <2>5
  <2>7. QED
    BY <2>3, <2>6, RemainderOnce
<1>3. QED
  BY <1>1, <1>2

LEMMA RemainderOfNegative ==
  ASSUME NEW a \in Int, NEW n \in Nat, n > 0
  PROVE  (-a) % n = 0 <=> a % n = 0
<1>1. ASSUME NEW b \in Int, b % n = 0 PROVE (-b) % n = 0
  <2>1. PICK q : q = b \div n
    OBVIOUS
  <2>2. q \in Int /\ b = n * q + (b % n)
    BY <2>1, Remainder
  <2>3. b = n * q
    BY <1>1, <2>2
  <2>4. -b \in Int /\ -q \in Int /\ -b = n * (-q) + 0 /\ 0 \in 0 .. n - 1
    BY <2>2, <2>3
  <2>5. QED
    BY <2>4, RemainderOnce
<1>2. a % n = 0 => (-a) % n = 0
  BY <1>1
<1>3. (-a) % n = 0 => (-(-a)) % n = 0
  <2>1. -a \in Int
    OBVIOUS
  <2>2. QED
    BY <1>1, <2>1
<1>4. -(-a) = a
  OBVIOUS
<1>5. QED
  BY <1>2, <1>3, <1>4

\* The shard that a strategy gives a key is the one that the key belongs to.
THEOREM ShardIsMeant ==
  ASSUME NEW strategy \in StrategyType, NEW key \in Keys, NEW count \in Nat, count > 0, NEW shard \in 1 .. count
  PROVE  ShardId(strategy, key, count) = shard <=> Belongs(strategy, key, shard, count)
<1>1. strategy.name \in {"md5", "explicit", "modulo"} /\ shard \in Int /\ shard - 1 \in 0 .. count - 1
  BY DEF StrategyType, StrategyNames
<1>2. Digest[key] \in Nat /\ (key # NoNumber => key \in Int)
  BY DigestAssumption DEF Keys
<1>3. CASE strategy.name = "md5" /\ count \in PowersOfTwo
  <2>1. PICK k \in 0 .. Bits : count = Power[k]
    BY <1>3 DEF PowersOfTwo
  <2>2. And(Digest[key], count - 1) = Digest[key] % count
    BY <1>2, <2>1, AndOfPower
  <2>3. ShardId(strategy, key, count) = (Digest[key] % count) + 1
    BY <1>3, <2>2 DEF ShardId, Md5ShardId
  <2>4. Belongs(strategy, key, shard, count) <=> (Digest[key] - (shard - 1)) % count = 0
    BY <1>3 DEF Belongs
  <2>5. PICK a, t, r : a = Digest[key] /\ t = shard - 1 /\ r = a % count
    OBVIOUS
  <2>6. a \in Int /\ t \in 0 .. count - 1
    BY <1>1, <1>2, <2>5
  <2>7. r = t <=> (a - t) % count = 0
    BY <2>5, <2>6, RemainderIs
  <2>8. r \in Int
    BY <2>5, <2>6, Remainder
  <2>9. r + 1 = shard <=> r = t
    BY <1>1, <2>5, <2>8
  <2>10. QED
    BY <2>3, <2>4, <2>5, <2>7, <2>9
<1>4. CASE strategy.name = "md5" /\ count \notin PowersOfTwo
  BY <1>4 DEF ShardId, Belongs
<1>5. CASE strategy.name # "md5" /\ key = NoNumber
  <2>1. ShardId(strategy, key, count) = Throws
    BY <1>5 DEF ShardId
  <2>2. ~Belongs(strategy, key, shard, count)
    BY <1>5 DEF Belongs
  <2>3. Throws \notin Int
    BY OutcomesAssumption
  <2>4. QED
    BY <1>1, <2>1, <2>2, <2>3
<1>6. CASE strategy.name = "explicit" /\ key # NoNumber
  BY <1>6 DEF ShardId, ExplicitShardId, Belongs
<1>7. CASE strategy.name = "modulo" /\ key # NoNumber
  <2>1. ShardId(strategy, key, count) = Rem(key, count) + 1
    BY <1>7 DEF ShardId, ModuloShardId
  <2>2. Belongs(strategy, key, shard, count) <=> (key - (shard - 1)) % count = 0 /\ (key >= 0 \/ shard = 1)
    BY <1>7 DEF Belongs
  <2>3. key \in Int
    BY <1>2, <1>7
  <2>4. PICK t : t = shard - 1
    OBVIOUS
  <2>5. t \in 0 .. count - 1 /\ t \in Int /\ t >= 0 /\ (shard = 1 <=> t = 0) /\ 0 \in 0 .. count - 1
    BY <1>1, <2>4
  <2>6. CASE key >= 0
    <3>1. PICK r : r = key % count
      OBVIOUS
    <3>2. r \in Int
      BY <2>3, <3>1, Remainder
    <3>3. r = t <=> (key - t) % count = 0
      BY <2>3, <2>5, <3>1, RemainderIs
    <3>4. ShardId(strategy, key, count) = r + 1
      BY <2>1, <2>6, <3>1 DEF Rem
    <3>5. r + 1 = shard <=> r = t
      BY <1>1, <2>4, <3>2
    <3>6. QED
      BY <2>2, <2>4, <2>6, <3>3, <3>4, <3>5
  <2>7. CASE ~(key >= 0)
    <3>1. PICK r : r = (-key) % count
      OBVIOUS
    <3>2. r \in 0 .. count - 1
      <4>1. -key \in Int
        BY <2>3
      <4>2. QED
        BY <3>1, <4>1, Remainder
    <3>3. ShardId(strategy, key, count) = -r + 1
      BY <2>1, <2>7, <3>1 DEF Rem
    <3>4. -r + 1 = shard <=> r = 0 /\ shard = 1
      BY <1>1, <3>2
    <3>5. r = 0 <=> key % count = 0
      BY <2>3, <3>1, RemainderOfNegative
    <3>6. key % count = 0 <=> (key - 0) % count = 0
      BY <2>3, <2>5, RemainderIs
    <3>7. shard = 1 => shard - 1 = 0
      OBVIOUS
    <3>8. QED
      BY <2>2, <2>7, <3>3, <3>4, <3>5, <3>6, <3>7
  <2>8. QED
    BY <2>6, <2>7
<1>8. QED
  BY <1>1, <1>3, <1>4, <1>5, <1>6, <1>7

-----------------------------------------------------------------------------
(***************************************************************************)
(* What a dependency of a target brings it.                                *)
(***************************************************************************)
RowType == [of : Url \X STRING, key : Keys]

\* One table, alone, is itself.
LEMMA FlattenOne ==
  ASSUME NEW S, NEW seqs \in Seq(Seq(S)), Len(seqs) = 1
  PROVE  FlattenSeq(seqs) = seqs[1]
<1>1. seqs # <<>>
  <2>1. PICK none : none = <<>>
    OBVIOUS
  <2>2. Len(none) = 0
    BY <2>1
  <2>3. none # seqs
    <3>1. SUFFICES ASSUME none = seqs PROVE FALSE
      OBVIOUS
    <3>2. Len(none) = Len(seqs)
      BY <3>1
    <3>3. QED
      BY <2>2, <3>2
  <2>4. QED
    BY <2>1, <2>3
<1>2. PICK n : n = Len(seqs)
  OBVIOUS
<1>3. PICK f \in [1 .. n -> Seq(S)] : Builds(f, seqs, n) /\ FlattenSeq(seqs) = f[n]
  BY <1>1, <1>2, Flattened
<1>4. n = 1
  BY <1>2
<1>5. f[1] = seqs[1]
  BY <1>3, <1>4 DEF Builds
<1>6. QED
  BY <1>3, <1>4, <1>5

\* What an execution makes is a table, and no outcome of another kind.
LEMMA TableType ==
  ASSUME conf \in ConfigurationsOf(STRING), Populated, NEW s \in Queries, NEW i \in DOMAIN execs[s]
  PROVE  /\ Table(<<s, i>>) \in Tables /\ Table(<<s, i>>).rows \in Seq(RowType)
         /\ Table(<<s, i>>).columns = conf.columns
<1>1. conf.columns \in SUBSET STRING /\ conf.keys \in Seq(Keys) /\ conf.text[s] \in STRING
  BY ConfigurationFields
<1>2. execs[s][i].url \in Url /\ Text(<<s, i>>) = <<execs[s][i].url, conf.text[s]>>
  BY ExecutionsMade, TransitionIds
<1>3. PICK text : text = Text(<<s, i>>)
  OBVIOUS
<1>4. text \in Url \X STRING
  BY <1>1, <1>2, <1>3
<1>5. PICK keys : keys = conf.keys
  OBVIOUS
<1>6. Len(keys) \in Nat /\ DOMAIN keys = 1 .. Len(keys) /\ \A m \in 1 .. Len(keys) : keys[m] \in Keys
  BY <1>1, <1>5, LenProperties, ElementOfSeq
<1> DEFINE rows == [m \in DOMAIN keys |-> [of |-> text, key |-> keys[m]]]
<1>7. \A m \in 1 .. Len(keys) : [of |-> text, key |-> keys[m]] \in RowType
  BY <1>4, <1>6 DEF RowType
<1>8. rows \in Seq(RowType)
  BY <1>6, <1>7
<1>9. Table(<<s, i>>) = [columns |-> conf.columns, rows |-> rows]
  BY <1>3, <1>5 DEF Table
<1> HIDE DEF rows
<1>10. Tables = [columns : SUBSET STRING, rows : Seq(RowType)]
  BY DEF Tables, RowType, Url
<1>11. QED
  BY <1>1, <1>8, <1>9, <1>10

\* The tables of a query, one for each execution.
RowsOf(s) == [m \in DOMAIN execs[s] |-> Table(<<s, m>>).rows]

LEMMA RowsOfType ==
  ASSUME conf \in ConfigurationsOf(STRING), Populated, NEW s \in Queries
  PROVE  /\ RowsOf(s) \in Seq(Seq(RowType)) /\ Len(RowsOf(s)) = Len(execs[s])
         /\ \A m \in DOMAIN execs[s] : RowsOf(s)[m] = Table(<<s, m>>).rows
<1>1. Len(execs[s]) \in Nat /\ DOMAIN execs[s] = 1 .. Len(execs[s])
  BY ExecutionsMade
<1>2. \A m \in DOMAIN execs[s] : Table(<<s, m>>).rows \in Seq(RowType)
  BY TableType
<1>3. QED
  BY <1>1, <1>2 DEF RowsOf

\* What arrives, for a dependency on the shard its source is bound to, or on all of a source.
LEMMA RowsForAll ==
  ASSUME conf \in ConfigurationsOf(STRING), Populated, NEW q \in Queries, NEW i, NEW dep,
         dep.shard = conf.own[dep.source]
  PROVE  /\ ~Distributed(q, dep) /\ Len(execs[q]) > 1 /\ Len(RowsOf(dep.source)) > 1 =>
              RowsFor(q, dep, i) = RowsOf(dep.source)[i]
         /\ ~Distributed(q, dep) /\ ~(Len(execs[q]) > 1 /\ Len(RowsOf(dep.source)) > 1) =>
              RowsFor(q, dep, i) = FlattenSeq(RowsOf(dep.source))
<1>1. Meant(dep) = [m \in DOMAIN execs[dep.source] |-> m]
  BY DEF Meant
<1> DEFINE rows == [m \in DOMAIN Meant(dep) |-> Table(<<dep.source, Meant(dep)[m]>>).rows]
<1>2. rows = RowsOf(dep.source)
  BY <1>1 DEF RowsOf
<1>3. /\ ~Distributed(q, dep) /\ Len(execs[q]) > 1 /\ Len(rows) > 1 => RowsFor(q, dep, i) = rows[i]
      /\ ~Distributed(q, dep) /\ ~(Len(execs[q]) > 1 /\ Len(rows) > 1) => RowsFor(q, dep, i) = FlattenSeq(rows)
  BY DEF RowsFor
<1> HIDE DEF rows
<1>4. QED
  BY <1>2, <1>3

\* From somewhere else than its source, if the source is bound to no other shard.
LEMMA RowsForSelected ==
  ASSUME NEW q \in Queries, NEW i, NEW dep, dep.shard # conf.own[dep.source], ~Distributed(q, dep), ~(Len(execs[q]) > 1)
  PROVE  RowsFor(q, dep, i) = FlattenSeq([m \in DOMAIN Selected(dep) |-> Table(<<dep.source, Selected(dep)[m]>>).rows])
<1>1. Meant(dep) = Selected(dep)
  BY DEF Meant
<1> DEFINE rows(meant) == [m \in DOMAIN meant |-> Table(<<dep.source, meant[m]>>).rows]
<1>2. RowsFor(q, dep, i) = FlattenSeq(rows(Meant(dep)))
  BY DEF RowsFor
<1> HIDE DEF rows
<1>3. RowsFor(q, dep, i) = FlattenSeq(rows(Selected(dep)))
  BY <1>1, <1>2
<1>4. QED
  BY <1>3 DEF rows

\* The channel to the port of a dependency that is served is the one for it, or for one that
\* selects the same only execution.
LEMMA ServedArrival ==
  ASSUME Complete, NEW q \in Queries, NEW i \in DOMAIN execs[q], NEW dep \in ToSet(conf.deps[q]), Served(q, dep, i)
  PROVE  \E e : /\ e.source = dep.source /\ IsLink(Arrival(<<q, i>>, QName(dep.source, dep.shard)), q, i, e)
                /\ \/ e = dep /\ (Len(execs[q]) = 1 \/ IsManyToMany(q, dep))
                   \/ /\ Len(execs[q]) > 1 /\ Len(execs[dep.source]) = 1 /\ dep.shard = conf.own[dep.source]
                      /\ Len(Selected(e)) = 1
<1>1. conf \in ConfigurationsOf(STRING) /\ Populated /\ dep.source \in Queries /\ dep.shard \in Nat
  BY DependencyFields DEF Complete
<1>2. PICK port, c : port = QName(dep.source, dep.shard) /\ c = Arrival(<<q, i>>, port)
  OBVIOUS
<1>3. IsSingle(Arriving(<<q, i>>, port))
  <2>1. Fed(<<q, i>>, port)
    BY <1>2, FedIffServed
  <2>2. QED
    BY <2>1 DEF Fed
<1>4. PICK j \in Reaching(q, port) : IsLink(c, q, i, conf.deps[q][j])
  BY <1>2, <1>3, ArrivingForDependencies
<1>5. PICK e : e = conf.deps[q][j]
  OBVIOUS
<1>6. CASE Len(execs[q]) = 1
  <2>1. \A l \in Reaching(q, port) : conf.deps[q][l] = dep
    BY <1>2, <1>6, ReachingSingle
  <2>2. e = dep
    BY <1>5, <2>1
  <2>3. QED
    BY <1>2, <1>4, <1>5, <1>6, <2>2
<1>7. CASE Len(execs[q]) # 1
  <2>1. Len(execs[q]) > 1
    <3>1. PICK n : n = Len(execs[q])
      OBVIOUS
    <3>2. n \in Nat \ {0} /\ n # 1
      BY <1>1, <1>7, <3>1, ExecutionsMade
    <3>3. n > 1
      BY <3>2
    <3>4. QED
      BY <3>1, <3>3
  <2>2. \A l \in Reaching(q, port) :
          \/ conf.deps[q][l] = dep /\ IsManyToMany(q, dep)
          \/ l \in SelectOnly(q, dep.source) /\ Len(execs[dep.source]) = 1 /\ dep.shard = conf.own[dep.source]
    BY <1>2, <2>1, ReachingSeveral
  <2>3. CASE e = dep /\ IsManyToMany(q, dep)
    BY <1>2, <1>4, <1>5, <2>3
  <2>4. CASE j \in SelectOnly(q, dep.source) /\ Len(execs[dep.source]) = 1 /\ dep.shard = conf.own[dep.source]
    <3>1. \A l \in SelectOnly(q, dep.source) :
            conf.deps[q][l].source = dep.source /\ conf.deps[q][l].shard \in {0, 1}
      BY DEF SelectOnly
    <3>2. e.source = dep.source /\ e.shard \in {0, 1}
      BY <1>5, <2>4, <3>1
    <3>3. e.shard \in Nat
      <4>1. e.shard = 0 \/ e.shard = 1
        BY <3>2
      <4>2. QED
        BY <4>1
    <3>4. Len(Selected(e)) = 1
      <4>1. Len(execs[e.source]) = 1 /\ e.source \in Queries
        BY <1>1, <2>4, <3>2
      <4>2. QED
        BY <1>1, <3>2, <3>3, <4>1, SelectedSizes
    <3>5. QED
      BY <1>2, <1>4, <1>5, <2>1, <2>4, <3>2, <3>4
  <2>5. QED
    BY <1>4, <1>5, <2>2, <2>3, <2>4
<1>8. QED
  BY <1>6, <1>7

\* What has to arrive there.
Arrived(q, dep, i, result) ==
  IF Distributed(q, dep) /\ \E row \in ToSet(Table(<<dep.source, 1>>).rows) : ~HasShard(q, row)
  THEN result \in {Throws, Undefined}
  ELSE result \notin {Throws, Undefined} /\ result.rows = RowsFor(q, dep, i)

\* What an execution makes does.
LEMMA TableArrives ==
  ASSUME conf \in ConfigurationsOf(STRING), Populated, NEW q \in Queries, NEW i, NEW dep, ~Distributed(q, dep),
         NEW s \in Queries, NEW m \in DOMAIN execs[s], NEW port, RowsFor(q, dep, i) = Table(<<s, m>>).rows
  PROVE  Arrived(q, dep, i, Result(<<s, m>>, port))
<1>1. Result(<<s, m>>, port) = Table(<<s, m>>)
  BY QueriesAreNumbers DEF Result
<1>2. Table(<<s, m>>) \in Tables
  BY TableType
<1>3. Table(<<s, m>>) \notin {Throws, Undefined}
  BY <1>2, OutcomesAssumption
<1>4. QED
  BY <1>1, <1>3 DEF Arrived

\* To an only execution, from an only execution.
LEMMA OneToOneArrives ==
  ASSUME Complete, NEW q \in Queries, NEW i, NEW dep, dep.source \in Queries, dep.shard \in Nat,
         IsOneToOne(q, dep), NEW port
  PROVE  Arrived(q, dep, i, Result(<<dep.source, Selected(dep)[1]>>, port))
<1>1. conf \in ConfigurationsOf(STRING) /\ Populated
  BY DEF Complete
<1>2. PICK s : s = dep.source
  OBVIOUS
<1>3. ~Distributed(q, dep) /\ ~(Len(execs[q]) > 1)
  <2>1. PICK n : n = Len(execs[q])
    OBVIOUS
  <2>2. n = 1 => ~(n > 1)
    OBVIOUS
  <2>3. QED
    BY <2>1, <2>2 DEF Distributed, Splits, IsOneToOne
<1>4. PICK m : m = Selected(dep)[1]
  OBVIOUS
<1>5. DOMAIN Selected(dep) = 1 .. 1 /\ m \in DOMAIN execs[s]
  <2>1. PICK n : n = Len(Selected(dep))
    OBVIOUS
  <2>2. n = 1 /\ DOMAIN Selected(dep) = 1 .. n
    BY <1>1, <2>1, SelectedExecutions DEF IsOneToOne
  <2>3. 1 \in DOMAIN Selected(dep)
    BY <2>2
  <2>4. QED
    BY <1>1, <1>2, <1>4, <2>2, <2>3, SelectedExecutions
<1>6. PICK rows : rows = Table(<<s, m>>).rows
  OBVIOUS
<1>7. rows \in Seq(RowType)
  BY <1>1, <1>2, <1>5, <1>6, TableType
<1>8. RowsFor(q, dep, i) = rows
  <2>1. CASE dep.shard = conf.own[s]
    <3>1. RowsFor(q, dep, i) = FlattenSeq(RowsOf(s))
      BY <1>1, <1>2, <1>3, <2>1, RowsForAll
    <3>2. Len(execs[s]) = 1
      <4>1. CASE dep.shard = Zero
        BY <1>1, <1>2, <4>1, SelectedExecutions DEF IsOneToOne
      <4>2. CASE dep.shard # Zero
        BY <1>1, <1>2, <2>1, <4>2, SelectedSizes
      <4>3. QED
        BY <4>1, <4>2
    <3>3. m = 1
      <4>1. PICK n : n = Len(execs[s])
        OBVIOUS
      <4>2. n = 1 /\ DOMAIN execs[s] = 1 .. n
        BY <1>1, <1>2, <3>2, <4>1, ExecutionsMade
      <4>3. QED
        BY <1>5, <4>2
    <3>4. RowsOf(s) \in Seq(Seq(RowType)) /\ Len(RowsOf(s)) = 1 /\ RowsOf(s)[1] = rows
      BY <1>1, <1>2, <1>5, <1>6, <3>2, <3>3, RowsOfType
    <3>5. QED
      BY <3>1, <3>4, FlattenOne
  <2>2. CASE dep.shard # conf.own[s]
    <3> DEFINE seqs == [k \in DOMAIN Selected(dep) |-> Table(<<s, Selected(dep)[k]>>).rows]
    <3>1. RowsFor(q, dep, i) = FlattenSeq(seqs)
      BY <1>2, <1>3, <2>2, RowsForSelected
    <3>2. seqs = [k \in 1 .. 1 |-> rows]
      <4>1. DOMAIN seqs = 1 .. 1
        BY <1>5
      <4>2. seqs[1] = rows
        BY <1>4, <1>5, <1>6
      <4>3. \A k \in 1 .. 1 : k = 1
        OBVIOUS
      <4>4. QED
        BY <4>1, <4>2, <4>3
    <3> HIDE DEF seqs
    <3>3. seqs \in Seq(Seq(RowType)) /\ Len(seqs) = 1 /\ seqs[1] = rows
      BY <1>7, <3>2
    <3>4. QED
      BY <3>1, <3>3, FlattenOne
  <2>3. QED
    BY <2>1, <2>2
<1>9. QED
  BY <1>1, <1>2, <1>3, <1>4, <1>5, <1>6, <1>8, TableArrives

\* To each of several executions, from its own one of the source, or from its only one.
LEMMA SeveralArrive ==
  ASSUME Complete, NEW q \in Queries, Len(execs[q]) > 1, NEW i \in DOMAIN execs[q], NEW dep,
         dep.source \in Queries, dep.shard \in Nat, NEW port
  PROVE  /\ IsManyToMany(q, dep) => Arrived(q, dep, i, Result(<<dep.source, i>>, port))
         /\ Len(execs[dep.source]) = 1 /\ dep.shard = conf.own[dep.source] /\ conf.own[dep.source] # Zero =>
              Arrived(q, dep, i, Result(<<dep.source, 1>>, port))
<1>1. conf \in ConfigurationsOf(STRING) /\ Populated
  BY DEF Complete
<1>2. PICK s, rows, a : s = dep.source /\ rows = RowsOf(s) /\ a = Len(execs[s])
  OBVIOUS
<1>3. /\ rows \in Seq(Seq(RowType)) /\ Len(rows) = a /\ DOMAIN execs[s] = 1 .. a
      /\ \A m \in DOMAIN execs[s] : rows[m] = Table(<<s, m>>).rows
  BY <1>1, <1>2, RowsOfType, ExecutionsMade
<1>4. ASSUME IsManyToMany(q, dep) PROVE Arrived(q, dep, i, Result(<<s, i>>, port))
  <2>1. PICK m, n : m = Len(Selected(dep)) /\ n = Len(execs[q])
    OBVIOUS
  <2>2. m = n /\ n > 1 /\ DOMAIN execs[q] = 1 .. n
    BY <1>1, <1>4, <2>1, ExecutionsMade DEF IsManyToMany
  <2>3. dep.shard = Zero /\ a = n
    BY <1>1, <1>2, <2>1, <2>2, SelectedSizes
  <2>4. conf.own[s] = Zero
    <3>1. a # 1
      BY <2>2, <2>3
    <3>2. QED
      BY <1>1, <1>2, <3>1, ExecutionsMade
  <2>5. ~Distributed(q, dep)
    <3>1. m # 1
      BY <2>2
    <3>2. QED
      BY <2>1, <3>1 DEF Distributed, Splits
  <2>6. Len(rows) > 1
    BY <1>3, <2>2, <2>3
  <2>7. RowsFor(q, dep, i) = rows[i]
    BY <1>1, <1>2, <2>3, <2>4, <2>5, <2>6, RowsForAll
  <2>8. i \in DOMAIN execs[s]
    BY <1>3, <2>2, <2>3
  <2>9. QED
    BY <1>1, <1>2, <1>3, <2>5, <2>7, <2>8, TableArrives
<1>5. ASSUME a = 1, dep.shard = conf.own[s], conf.own[s] # Zero
      PROVE  Arrived(q, dep, i, Result(<<s, 1>>, port))
  <2>1. ~Distributed(q, dep)
    BY <1>2, <1>5 DEF Distributed, Splits
  <2>2. ~(Len(rows) > 1)
    BY <1>3, <1>5
  <2>3. RowsFor(q, dep, i) = FlattenSeq(rows)
    BY <1>1, <1>2, <1>5, <2>1, <2>2, RowsForAll
  <2>4. 1 \in DOMAIN execs[s]
    BY <1>3, <1>5
  <2>5. FlattenSeq(rows) = Table(<<s, 1>>).rows
    BY <1>3, <1>5, <2>4, FlattenOne
  <2>6. QED
    BY <1>1, <1>2, <2>1, <2>3, <2>4, <2>5, TableArrives
<1>6. QED
  BY <1>2, <1>4, <1>5

\* A transition receives what the executions it is fed by make.
LEMMA TransitionReceives ==
  ASSUME NEW k \in DOMAIN nodes, NEW s, IsJoined(nodes[k], s) \/ IsSplitted(nodes[k], s), Feeds(k, s)
  PROVE  Received(<<Zero, k>>) = [p \in DOMAIN nodes[k].ports |-> Table(<<s, p>>)]
<1>1. Node(<<Zero, k>>) = nodes[k]
  BY DEF Node
<1>2. ASSUME NEW p \in DOMAIN nodes[k].ports PROVE Arrival(<<Zero, k>>, nodes[k].ports[p]).source = <<s, p>>
  <2>1. Arrival(<<Zero, k>>, nodes[k].ports[p]) = Feed(k, s, p)
    BY FeedArrives
  <2>2. QED
    BY <2>1, ChannelFields DEF Feed
<1>3. QED
  BY <1>1, <1>2 DEF Received

\* What is of the same url and text has the same rows.
LEMMA SameTable ==
  ASSUME NEW n, NEW m, Text(n) = Text(m)
  PROVE  Table(n) = Table(m)
BY DEF Table

\* A joined transition brings the rows of all executions of the source, in their order.
LEMMA JoinArrives ==
  ASSUME Complete, NEW q \in Queries, NEW i, NEW dep, dep.source \in Queries, dep.shard \in Nat, IsManyToOne(q, dep),
         NEW k \in DOMAIN nodes, nodes[k].kind = "joined", nodes[k].id = JoinedId(dep.source), NEW port
  PROVE  Arrived(q, dep, i, Result(<<Zero, k>>, port))
<1>1. conf \in ConfigurationsOf(STRING) /\ Populated
  BY DEF Complete
<1>2. PICK s, n, a : s = dep.source /\ n = Len(execs[q]) /\ a = Len(execs[s])
  OBVIOUS
<1>3. ~Distributed(q, dep) /\ ~(n > 1)
  <2>1. n = 1 => ~(n > 1)
    OBVIOUS
  <2>2. QED
    BY <1>2, <2>1 DEF Distributed, Splits, IsManyToOne
<1>4. dep.shard = Zero /\ a > 1 /\ a \in Nat /\ DOMAIN execs[s] = 1 .. a /\ conf.own[s] = Zero
  <2>1. PICK m : m = Len(Selected(dep))
    OBVIOUS
  <2>2. m > 1
    BY <2>1 DEF IsManyToOne
  <2>3. dep.shard = Zero /\ a = m
    BY <1>1, <1>2, <2>1, <2>2, SelectedSizes
  <2>4. a # 1
    BY <2>2, <2>3
  <2>5. QED
    BY <1>1, <1>2, <2>2, <2>3, <2>4, ExecutionsMade
<1>5. RowsFor(q, dep, i) = FlattenSeq(RowsOf(s))
  BY <1>1, <1>2, <1>3, <1>4, RowsForAll
<1>6. PICK t \in Queries : IsJoined(nodes[k], t) /\ Feeds(k, t)
  <2>1. PICK t \in Queries : (IsJoined(nodes[k], t) \/ IsSplitted(nodes[k], t)) /\ Feeds(k, t)
    BY DEF Complete, NodesFit
  <2>2. QED
    BY <2>1 DEF IsSplitted
<1>7. DOMAIN execs[t] = DOMAIN execs[s] /\ \A p \in DOMAIN execs[s] : Table(<<t, p>>) = Table(<<s, p>>)
  <2>1. JoinedId(t) = JoinedId(s)
    BY <1>2, <1>6 DEF IsJoined
  <2>2. Len(execs[t]) = Len(execs[s])
    BY <1>1, <1>2, <2>1, TransitionIds
  <2>3. DOMAIN execs[t] = DOMAIN execs[s]
    BY <1>1, <1>2, <2>2, ExecutionsMade
  <2>4. \A p \in DOMAIN execs[s] : Text(<<t, p>>) = Text(<<s, p>>)
    BY <1>1, <1>2, <2>1, <2>3, TransitionIds
  <2>5. QED
    BY <2>3, <2>4, SameTable
<1> DEFINE tables == [p \in 1 .. a |-> Table(<<s, p>>)]
<1>8. Received(<<Zero, k>>) = tables
  <2>1. Received(<<Zero, k>>) = [p \in DOMAIN nodes[k].ports |-> Table(<<t, p>>)]
    BY <1>6, TransitionReceives
  <2>2. DOMAIN nodes[k].ports = 1 .. a
    BY <1>4, <1>6, <1>7 DEF IsJoined
  <2>3. QED
    BY <1>4, <1>7, <2>1, <2>2
<1>9. \A p \in 1 .. a : Table(<<s, p>>) \in Tables /\ Table(<<s, p>>).columns = conf.columns
  BY <1>1, <1>2, <1>4, TableType
<1>10. 1 \in 1 .. a /\ tables[1].columns = conf.columns /\ [p \in DOMAIN tables |-> tables[p].rows] = RowsOf(s)
  BY <1>4, <1>9 DEF RowsOf
<1>11. Result(<<Zero, k>>, port) = Join(tables)
  BY <1>8 DEF Result, Node
<1>12. Join(tables) = [columns |-> conf.columns, rows |-> FlattenSeq(RowsOf(s))]
  BY <1>10 DEF Join
<1>13. FlattenSeq(RowsOf(s)) \in Seq(RowType)
  <2>1. RowsOf(s) \in Seq(Seq(RowType))
    BY <1>1, <1>2, RowsOfType
  <2>2. QED
    BY <2>1, FlattenSeqPlaces
<1>14. Join(tables) \in Tables
  <2>1. conf.columns \in SUBSET STRING
    BY <1>1, ConfigurationFields
  <2>2. Tables = [columns : SUBSET STRING, rows : Seq(RowType)]
    BY DEF Tables, RowType, Url
  <2>3. ASSUME NEW columns \in SUBSET STRING, NEW rows \in Seq(RowType)
        PROVE  [columns |-> columns, rows |-> rows] \in [columns : SUBSET STRING, rows : Seq(RowType)]
    OBVIOUS
  <2>4. [columns |-> conf.columns, rows |-> FlattenSeq(RowsOf(s))] \in [columns : SUBSET STRING, rows : Seq(RowType)]
    BY <1>13, <2>1, <2>3
  <2>5. QED
    BY <1>12, <2>2, <2>4
<1>15. Join(tables) \notin {Throws, Undefined} /\ Join(tables).rows = RowsFor(q, dep, i)
  BY <1>5, <1>12, <1>14, OutcomesAssumption
<1>16. QED
  BY <1>3, <1>11, <1>15 DEF Arrived

-----------------------------------------------------------------------------
\* The elements at some places of a sequence, in their order.
KeptAt(s, places) == FlattenSeq([j \in DOMAIN s |-> IF j \in places THEN <<s[j]>> ELSE <<>>])

LEMMA KeptAtType ==
  ASSUME NEW S, NEW s \in Seq(S), NEW places
  PROVE  KeptAt(s, places) \in Seq(S)
<1> DEFINE seqs == [j \in DOMAIN s |-> IF j \in places THEN <<s[j]>> ELSE <<>>]
<1>1. Len(s) \in Nat /\ DOMAIN s = 1 .. Len(s) /\ \A j \in 1 .. Len(s) : s[j] \in S
  BY LenProperties, ElementOfSeq
<1>2. \A j \in 1 .. Len(s) : (IF j \in places THEN <<s[j]>> ELSE <<>>) \in Seq(S)
  <2>1. ASSUME NEW x \in S PROVE <<x>> \in Seq(S) /\ <<>> \in Seq(S)
    OBVIOUS
  <2>2. QED
    BY <1>1, <2>1
<1>3. seqs \in [1 .. Len(s) -> Seq(S)]
  BY <1>1, <1>2
<1> HIDE DEF seqs
<1>4. seqs \in Seq(Seq(S))
  BY <1>1, <1>3
<1>5. FlattenSeq(seqs) \in Seq(S)
  BY <1>4, FlattenSeqPlaces
<1>6. QED
  BY <1>5 DEF KeptAt, seqs

\* The first strategy for a column, or none.
LEMMA FirstColumn ==
  ASSUME NEW strategies \in Seq(StrategyType), NEW columns,
         NEW having, having = {j \in DOMAIN strategies : strategies[j].shardCol \in columns}
  PROVE  /\ having = {} => ShardColumn(strategies, columns) = 0
         /\ having # {} => /\ ShardColumn(strategies, columns) = Min(having)
                           /\ Min(having) \in DOMAIN strategies /\ Min(having) # 0
<1>1. Len(strategies) \in Nat /\ DOMAIN strategies = 1 .. Len(strategies)
  BY LenProperties
<1>2. having = {j \in 1 .. Len(strategies) : strategies[j].shardCol \in columns}
  BY <1>1
<1>3. ShardColumn(strategies, columns) = IF having # {} THEN Min(having) ELSE 0
  BY <1>2 DEF ShardColumn, SelectInSeq
<1>4. ASSUME having # {} PROVE Min(having) \in DOMAIN strategies /\ Min(having) # 0
  <2>1. having \subseteq Nat
    BY <1>1
  <2>2. Min(having) \in having
    BY <1>4, <2>1, MinOfNumbers
  <2>3. QED
    BY <1>1, <1>2, <2>2
<1>5. QED
  BY <1>3, <1>4

\* The places of the rows that belong to a shard.
PlacesOf(rows, strategy, shard, count) == {j \in DOMAIN rows : Belongs(strategy, rows[j].key, shard, count)}

\* All of them belong to one.
AllBelong(rows, strategy, count) ==
  \A j \in DOMAIN rows : \E shard \in 1 .. count : Belongs(strategy, rows[j].key, shard, count)

\* Without a column to split by, every part is the whole table.
LEMMA SplitWithoutColumn ==
  ASSUME NEW strategies, NEW count \in Nat, NEW table \in Tables, ShardColumn(strategies, table.columns) = 0
  PROVE  /\ Split(strategies, count, table) \notin {Throws, Undefined}
         /\ \A k \in 1 .. count : Split(strategies, count, table)[k] = table
<1>1. Split(strategies, count, table) = [k \in 1 .. count |-> table]
  BY DEF Split
<1>2. [k \in 1 .. count |-> table] \in Seq(Tables)
  <2>1. [k \in 1 .. count |-> table] \in [1 .. count -> Tables]
    OBVIOUS
  <2>2. QED
    BY <2>1
<1>3. QED
  BY <1>1, <1>2, OutcomesAssumption

\* With one, each part has the rows that belong to it, if all of them belong to one.
LEMMA SplitByColumn ==
  ASSUME NEW strategies, NEW count \in Nat, count > 0, NEW table \in Tables,
         NEW s, s = ShardColumn(strategies, table.columns), s # 0, strategies[s] \in StrategyType
  PROVE  /\ ~AllBelong(table.rows, strategies[s], count) => Split(strategies, count, table) \in {Throws, Undefined}
         /\ AllBelong(table.rows, strategies[s], count) =>
              /\ Split(strategies, count, table) \notin {Throws, Undefined}
              /\ \A k \in 1 .. count :
                   /\ Split(strategies, count, table)[k] \in Tables
                   /\ Split(strategies, count, table)[k].rows = KeptAt(table.rows, PlacesOf(table.rows, strategies[s], k, count))
<1>1. PICK strategy, rows : strategy = strategies[s] /\ rows = table.rows
  OBVIOUS
<1>2. Tables = [columns : SUBSET STRING, rows : Seq(RowType)]
  BY DEF Tables, RowType, Url
<1>3. rows \in Seq(RowType) /\ \A j \in DOMAIN rows : rows[j].key \in Keys
  <2>1. rows \in Seq(RowType)
    BY <1>1, <1>2
  <2>2. \A j \in DOMAIN rows : rows[j] \in RowType
    BY <2>1, ElementOfSeq, LenProperties
  <2>3. QED
    BY <2>1, <2>2 DEF RowType
<1> DEFINE Id(row) == ShardId(strategy, row.key, count)
           given == {Id(row) : row \in ToSet(rows)}
           part(k) == KeptAt(rows, PlacesOf(rows, strategy, k, count))
<1>4. \A j \in DOMAIN rows : \A k \in 1 .. count : Id(rows[j]) = k <=> Belongs(strategy, rows[j].key, k, count)
  BY <1>1, <1>3, ShardIsMeant
<1>5. Throws \notin given /\ given \subseteq 1 .. count <=> AllBelong(rows, strategy, count)
  <2>1. given = {Id(rows[j]) : j \in DOMAIN rows}
    BY DEF ToSet
  <2>2. Throws \notin 1 .. count
    BY OutcomesAssumption
  <2>3. \A j \in DOMAIN rows : Id(rows[j]) \in 1 .. count <=> \E k \in 1 .. count : Id(rows[j]) = k
    OBVIOUS
  <2>4. \A j \in DOMAIN rows : Id(rows[j]) \in 1 .. count <=> \E k \in 1 .. count : Belongs(strategy, rows[j].key, k, count)
    BY <1>4, <2>3
  <2> HIDE DEF Id
  <2>5. given \subseteq 1 .. count <=> \A j \in DOMAIN rows : Id(rows[j]) \in 1 .. count
    BY <2>1
  <2>6. given \subseteq 1 .. count => Throws \notin given
    BY <2>2
  <2>7. QED
    BY <2>4, <2>5, <2>6 DEF AllBelong
<1>6. ASSUME NEW k \in 1 .. count
      PROVE  Keep(rows, LAMBDA row : ShardId(strategy, row.key, count) = k) = part(k)
  <2>1. Keep(rows, LAMBDA row : ShardId(strategy, row.key, count) = k)
          = FlattenSeq([j \in DOMAIN rows |-> IF Id(rows[j]) = k THEN <<rows[j]>> ELSE <<>>])
    BY DEF Keep
  <2>2. \A j \in DOMAIN rows : Id(rows[j]) = k <=> j \in PlacesOf(rows, strategy, k, count)
    BY <1>4 DEF PlacesOf
  <2> HIDE DEF Id
  <2>3. [j \in DOMAIN rows |-> IF Id(rows[j]) = k THEN <<rows[j]>> ELSE <<>>]
          = [j \in DOMAIN rows |-> IF j \in PlacesOf(rows, strategy, k, count) THEN <<rows[j]>> ELSE <<>>]
    BY <2>2
  <2>4. QED
    BY <2>1, <2>3 DEF KeptAt
<1>7. Throws \in given => Split(strategies, count, table) = Throws
  BY <1>1 DEF Split
<1>8. Throws \notin given /\ ~(given \subseteq 1 .. count) => Split(strategies, count, table) = Undefined
  BY <1>1 DEF Split
<1>9. Throws \notin given /\ given \subseteq 1 .. count =>
        Split(strategies, count, table) =
          [k \in 1 .. count |-> [table EXCEPT !.rows = Keep(rows, LAMBDA row : ShardId(strategy, row.key, count) = k)]]
  BY <1>1 DEF Split
<1> DEFINE parts == [k \in 1 .. count |-> [table EXCEPT !.rows = part(k)]]
<1>10. Throws \notin given /\ given \subseteq 1 .. count => Split(strategies, count, table) = parts
  BY <1>6, <1>9
<1>11. ASSUME NEW k \in 1 .. count
       PROVE  [table EXCEPT !.rows = part(k)] \in Tables /\ [table EXCEPT !.rows = part(k)].rows = part(k)
  <2>1. part(k) \in Seq(RowType)
    BY <1>3, KeptAtType
  <2> HIDE DEF part
  <2>2. QED
    BY <1>2, <2>1
<1> HIDE DEF part, given
<1>12. parts \in Seq(Tables) /\ \A k \in 1 .. count : parts[k] \in Tables /\ parts[k].rows = part(k)
  <2>1. parts \in [1 .. count -> Tables]
    BY <1>11
  <2>2. \A k \in 1 .. count : parts[k] \in Tables /\ parts[k].rows = part(k)
    BY <1>11
  <2> HIDE DEF parts
  <2>3. parts \in Seq(Tables)
    BY <2>1
  <2>4. QED
    BY <2>2, <2>3
<1> HIDE DEF parts
<1>13. parts \notin {Throws, Undefined}
  BY <1>12, OutcomesAssumption
<1>14. QED
  BY <1>1, <1>5, <1>7, <1>8, <1>10, <1>12, <1>13 DEF part

\* A splitted transition brings each execution the rows that belong to it, or fails for all.
LEMMA SplitArrives ==
  ASSUME Complete, NEW q \in Queries, NEW i \in DOMAIN execs[q], NEW dep, dep.source \in Queries, dep.shard = Zero,
         Splits(q, dep), Len(execs[dep.source]) = 1, conf.database[FirstSplit(dep)] = conf.database[q],
         NEW k \in DOMAIN nodes, nodes[k].kind = "splitted", nodes[k].id = SplittedId(dep.source)
  PROVE  Arrived(q, dep, i, Result(<<Zero, k>>, Numbered(i)))
<1>1. conf \in ConfigurationsOf(STRING) /\ Populated
  BY DEF Complete
<1>2. PICK s, n, strategies : s = dep.source /\ n = Len(execs[q]) /\ strategies = conf.strategies[conf.database[q]]
  OBVIOUS
<1>3. n \in Nat /\ n > 1 /\ DOMAIN execs[q] = 1 .. n /\ conf.own[s] = Zero
  BY <1>1, <1>2, ExecutionsMade DEF Splits
<1>4. strategies \in Seq(StrategyType)
  BY <1>1, <1>2, ConfigurationFields
<1>5. nodes[k].count = n /\ nodes[k].strategies = strategies
  <2>1. PICK t : t = FirstSplit(dep)
    OBVIOUS
  <2>2. /\ nodes[k].count = Len(execs[t]) /\ t \in Queries /\ SplitsFor(t, s)
        /\ nodes[k].strategies = conf.strategies[conf.database[t]]
    BY <1>2, <2>1, PartsOfSplit
  <2>3. PICK m : m = Len(execs[t])
    OBVIOUS
  <2>4. m > 1
    BY <2>2, <2>3 DEF SplitsFor, Splits
  <2>5. m # 1 /\ n # 1
    BY <1>3, <2>4
  <2>6. m = conf.size[conf.database[t]]
    BY <1>1, <2>2, <2>3, <2>5, ExecutionsMade
  <2>7. n = conf.size[conf.database[q]]
    BY <1>1, <1>2, <2>5, ExecutionsMade
  <2>8. QED
    BY <1>2, <2>1, <2>2, <2>3, <2>6, <2>7
<1>6. PICK table : table = Table(<<s, 1>>)
  OBVIOUS
<1>7. 1 \in DOMAIN execs[s]
  <2>1. PICK a : a = Len(execs[s])
    OBVIOUS
  <2>2. a = 1 /\ DOMAIN execs[s] = 1 .. a
    BY <1>1, <1>2, <2>1, ExecutionsMade
  <2>3. QED
    BY <2>2
<1>8. table \in Tables /\ table.columns = conf.columns /\ table.rows = RowsOf(s)[1] /\ table.rows \in Seq(RowType)
  BY <1>1, <1>2, <1>6, <1>7, TableType, RowsOfType
<1>9. Received(<<Zero, k>>)[1] = table
  <2>1. PICK t \in Queries : IsSplitted(nodes[k], t) /\ Feeds(k, t)
    <3>1. PICK t \in Queries : (IsJoined(nodes[k], t) \/ IsSplitted(nodes[k], t)) /\ Feeds(k, t)
      BY DEF Complete, NodesFit
    <3>2. QED
      BY <3>1 DEF IsJoined
  <2>2. Text(<<t, 1>>) = Text(<<s, 1>>)
    BY <1>2, <2>1 DEF IsSplitted, SplittedId
  <2>3. Received(<<Zero, k>>) = [p \in DOMAIN nodes[k].ports |-> Table(<<t, p>>)]
    BY <2>1, TransitionReceives
  <2>4. 1 \in DOMAIN nodes[k].ports
    BY <2>1 DEF IsSplitted
  <2>5. QED
    BY <1>6, <2>2, <2>3, <2>4, SameTable
<1>10. PICK parts : parts = Split(strategies, n, table)
  OBVIOUS
<1>11. Result(<<Zero, k>>, Numbered(i)) = IF parts \in {Throws, Undefined} THEN parts ELSE parts[i]
  <2>1. Result(<<Zero, k>>, Numbered(i)) = IF parts \in {Throws, Undefined} THEN parts ELSE parts[Numbered(i).no]
    BY <1>5, <1>9, <1>10 DEF Result, Node
  <2>2. Numbered(i).no = i
    BY DEF Numbered
  <2>3. QED
    BY <2>1, <2>2
<1>12. PICK having : having = {j \in DOMAIN strategies : strategies[j].shardCol \in conf.columns}
  OBVIOUS
<1>12a. having = {j \in DOMAIN strategies : strategies[j].shardCol \in table.columns}
  BY <1>8, <1>12
<1>13. KeyColumn(q) = having /\ (Distributed(q, dep) <=> having # {})
  BY <1>2, <1>12 DEF KeyColumn, Distributed
<1>14. CASE having = {}
  <2>1. ShardColumn(strategies, table.columns) = 0
    BY <1>4, <1>12a, <1>14, FirstColumn
  <2>2. parts \notin {Throws, Undefined} /\ parts[i] = table
    BY <1>3, <1>8, <1>10, <2>1, SplitWithoutColumn
  <2>3. RowsFor(q, dep, i) = FlattenSeq(RowsOf(s))
    <3>1. Len(RowsOf(s)) = 1
      BY <1>1, <1>2, RowsOfType
    <3>2. ~(Len(RowsOf(s)) > 1)
      <4>1. PICK a : a = Len(RowsOf(s))
        OBVIOUS
      <4>2. a = 1 => ~(a > 1)
        OBVIOUS
      <4>3. QED
        BY <3>1, <4>1, <4>2
    <3>3. QED
      BY <1>1, <1>2, <1>3, <1>13, <1>14, <3>2, RowsForAll
  <2>4. FlattenSeq(RowsOf(s)) = table.rows
    BY <1>1, <1>2, <1>8, RowsOfType, FlattenOne
  <2>5. table \notin {Throws, Undefined}
    BY <1>8, OutcomesAssumption
  <2>6. Result(<<Zero, k>>, Numbered(i)) = table
    BY <1>11, <2>2
  <2>7. QED
    BY <1>13, <1>14, <2>3, <2>4, <2>5, <2>6 DEF Arrived
<1>15. CASE having # {}
  <2>1. PICK c, strategy, rows : c = Min(having) /\ strategy = strategies[c] /\ rows = table.rows
    OBVIOUS
  <2>2. ShardColumn(strategies, table.columns) = c /\ c \in DOMAIN strategies /\ c # 0
    <3>1. PICK columns : columns = table.columns
      OBVIOUS
    <3>2. having = {j \in DOMAIN strategies : strategies[j].shardCol \in columns}
      BY <1>12a, <3>1
    <3>3. ShardColumn(strategies, columns) = Min(having) /\ Min(having) \in DOMAIN strategies /\ Min(having) # 0
      BY <1>4, <1>15, <3>2, FirstColumn
    <3>4. QED
      BY <2>1, <3>1, <3>3
  <2>3. strategies[c] \in StrategyType
    BY <1>4, <2>2, ElementOfSeq, LenProperties
  <2>4. /\ ~AllBelong(rows, strategy, n) => parts \in {Throws, Undefined}
        /\ AllBelong(rows, strategy, n) =>
             /\ parts \notin {Throws, Undefined}
             /\ \A m \in 1 .. n : parts[m] \in Tables /\ parts[m].rows = KeptAt(rows, PlacesOf(rows, strategy, m, n))
    BY <1>3, <1>8, <1>10, <2>1, <2>2, <2>3, SplitByColumn
  <2>5. \A row, m : BelongsTo(q, row, m) <=> Belongs(strategy, row.key, m, n)
    BY <1>2, <1>13, <2>1 DEF BelongsTo
  <2>6. (\E row \in ToSet(table.rows) : ~HasShard(q, row)) <=> ~AllBelong(rows, strategy, n)
    <3>1. \A row : HasShard(q, row) <=> \E m \in 1 .. n : Belongs(strategy, row.key, m, n)
      BY <1>3, <2>5 DEF HasShard
    <3>2. QED
      BY <2>1, <3>1 DEF AllBelong, ToSet
  <2>7. RowsFor(q, dep, i) = KeptAt(rows, PlacesOf(rows, strategy, i, n))
    <3>1. Meant(dep) = [m \in DOMAIN execs[s] |-> m]
      BY <1>2, <1>3 DEF Meant
    <3> DEFINE all == [m \in DOMAIN Meant(dep) |-> Table(<<s, Meant(dep)[m]>>).rows]
    <3>2. all[1] = rows
      BY <1>6, <1>7, <2>1, <3>1
    <3>3. RowsFor(q, dep, i) = Keep(all[1], LAMBDA row : BelongsTo(q, row, i))
      BY <1>2, <1>13, <1>15 DEF RowsFor
    <3> HIDE DEF all
    <3>4. RowsFor(q, dep, i) = FlattenSeq([j \in DOMAIN rows |-> IF BelongsTo(q, rows[j], i) THEN <<rows[j]>> ELSE <<>>])
      BY <3>2, <3>3 DEF Keep
    <3>5. \A j \in DOMAIN rows : BelongsTo(q, rows[j], i) <=> j \in PlacesOf(rows, strategy, i, n)
      BY <2>5 DEF PlacesOf
    <3>6. [j \in DOMAIN rows |-> IF BelongsTo(q, rows[j], i) THEN <<rows[j]>> ELSE <<>>]
            = [j \in DOMAIN rows |-> IF j \in PlacesOf(rows, strategy, i, n) THEN <<rows[j]>> ELSE <<>>]
      BY <3>5
    <3>7. QED
      BY <3>4, <3>6 DEF KeptAt
  <2>8. i \in 1 .. n
    BY <1>3
  <2>9. CASE AllBelong(rows, strategy, n)
    <3>1. parts \notin {Throws, Undefined} /\ parts[i] \in Tables /\ parts[i].rows = RowsFor(q, dep, i)
      BY <2>4, <2>7, <2>8, <2>9
    <3>2. Result(<<Zero, k>>, Numbered(i)) = parts[i]
      BY <1>11, <3>1
    <3>3. parts[i] \notin {Throws, Undefined}
      BY <3>1, OutcomesAssumption
    <3>4. QED
      BY <1>2, <1>6, <2>6, <2>9, <3>1, <3>2, <3>3 DEF Arrived
  <2>10. CASE ~AllBelong(rows, strategy, n)
    <3>1. Result(<<Zero, k>>, Numbered(i)) \in {Throws, Undefined}
      BY <1>11, <2>4, <2>10
    <3>2. QED
      BY <1>2, <1>6, <1>13, <1>15, <2>6, <2>10, <3>1 DEF Arrived
  <2>11. QED
    BY <2>9, <2>10
<1>16. QED
  BY <1>14, <1>15

\* Every target receives the rows that belong to it, in their order, none lost and none
\* twice, whatever the rows, the strategies and the number of shards; and none receives
\* any of a split in which a row belongs to no shard.
THEOREM RowsArriveWhole == Spec => []RowsArrive
<1>1. ASSUME IInv PROVE RowsArrive
  <2>1. SUFFICES ASSUME phase = "done", NEW q \in Queries, NEW dep \in ToSet(conf.deps[q]), NEW i \in DOMAIN execs[q],
                        Served(q, dep, i), Splits(q, dep) => conf.database[FirstSplit(dep)] = conf.database[q],
                        NEW c, c = Arrival(<<q, i>>, QName(dep.source, dep.shard))
                 PROVE  Arrived(q, dep, i, Result(c.source, c.sourcePort))
    BY DEF RowsArrive, Arrived
  <2>2. Complete
    BY <1>1, <2>1 DEF IInv, TypeOK, GraphInv, IdsFit, Complete
  <2>3. dep.source \in Queries /\ dep.shard \in Nat /\ conf \in ConfigurationsOf(STRING) /\ Populated
    BY <2>2, DependencyFields DEF Complete
  <2>4. PICK e : /\ e.source = dep.source /\ IsLink(c, q, i, e)
                 /\ \/ e = dep /\ (Len(execs[q]) = 1 \/ IsManyToMany(q, dep))
                    \/ /\ Len(execs[q]) > 1 /\ Len(execs[dep.source]) = 1 /\ dep.shard = conf.own[dep.source]
                       /\ Len(Selected(e)) = 1
    BY <2>1, <2>2, ServedArrival
  <2>5. PICK n, m : n = Len(execs[q]) /\ m = Len(Selected(e))
    OBVIOUS
  <2>6. n > 1 => n # 1
    OBVIOUS
  <2>7. CASE e = dep /\ n = 1
    <3>1. ~(n > 1)
      BY <2>7
    <3>2. CASE IsOneToOne(q, dep) /\ c = From(<<dep.source, Selected(dep)[1]>>, Default, <<q, i>>, QName(dep.source, dep.shard))
      <4>1. c.source = <<dep.source, Selected(dep)[1]>>
        BY <3>2, ChannelFields
      <4>2. QED
        BY <2>2, <2>3, <3>2, <4>1, OneToOneArrives
    <3>3. CASE /\ IsManyToOne(q, dep)
               /\ \E k \in DOMAIN nodes : nodes[k].kind = "joined" /\ nodes[k].id = JoinedId(dep.source)
                    /\ c = From(<<Zero, k>>, Default, <<q, i>>, QName(dep.source, Zero))
      <4>1. PICK k \in DOMAIN nodes : nodes[k].kind = "joined" /\ nodes[k].id = JoinedId(dep.source)
                    /\ c = From(<<Zero, k>>, Default, <<q, i>>, QName(dep.source, Zero))
        BY <3>3
      <4>2. c.source = <<Zero, k>>
        BY <4>1, ChannelFields
      <4>3. QED
        BY <2>2, <2>3, <3>3, <4>1, <4>2, JoinArrives
    <3>4. QED
      BY <2>4, <2>5, <2>7, <3>1, <3>2, <3>3 DEF IsLink, IsManyToMany, IsUnsharded, Splits
  <2>8. CASE e = dep /\ IsManyToMany(q, dep)
    <3>1. m = n /\ n > 1 /\ m # 1
      BY <2>5, <2>8 DEF IsManyToMany
    <3>2. c = From(<<dep.source, i>>, Default, <<q, i>>, QName(dep.source, Zero))
      BY <2>4, <2>5, <2>6, <2>8, <3>1 DEF IsLink, IsOneToOne, IsManyToOne, IsUnsharded, Splits
    <3>3. c.source = <<dep.source, i>>
      BY <3>2, ChannelFields
    <3>4. QED
      BY <2>2, <2>3, <2>5, <2>8, <3>1, <3>3, SeveralArrive
  <2>9. CASE n > 1 /\ Len(execs[dep.source]) = 1 /\ dep.shard = conf.own[dep.source] /\ m = 1
    <3>1. m # n /\ n # 1
      BY <2>9
    <3>2. CASE IsUnsharded(q, e) /\ c = From(<<e.source, 1>>, Default, <<q, i>>, execs[e.source][1].name)
      <4>1. c.source = <<dep.source, 1>> /\ conf.own[dep.source] # Zero
        BY <2>4, <3>2, ChannelFields DEF IsUnsharded
      <4>2. QED
        BY <2>2, <2>3, <2>5, <2>9, <4>1, SeveralArrive
    <3>3. CASE Splits(q, e) /\ \E k \in DOMAIN nodes : nodes[k].kind = "splitted" /\ nodes[k].id = SplittedId(e.source)
                  /\ c = From(<<Zero, k>>, Numbered(i), <<q, i>>, execs[e.source][1].name)
      <4>1. PICK k \in DOMAIN nodes : nodes[k].kind = "splitted" /\ nodes[k].id = SplittedId(e.source)
                  /\ c = From(<<Zero, k>>, Numbered(i), <<q, i>>, execs[e.source][1].name)
        BY <3>3
      <4>2. c.source = <<Zero, k>> /\ c.sourcePort = Numbered(i) /\ nodes[k].id = SplittedId(dep.source)
        BY <2>4, <4>1, ChannelFields
      <4>3. conf.own[dep.source] = Zero /\ dep.shard = Zero
        BY <2>4, <2>9, <3>3 DEF Splits
      <4>4. Len(Selected(dep)) = 1
        BY <2>3, <2>9, <4>3, SelectedExecutions
      <4>5. Splits(q, dep)
        BY <2>5, <2>9, <4>3, <4>4 DEF Splits
      <4>6. QED
        BY <2>1, <2>2, <2>3, <2>9, <4>1, <4>2, <4>3, <4>5, SplitArrives
    <3>4. QED
      BY <2>4, <2>5, <2>9, <3>1, <3>2, <3>3 DEF IsLink, IsOneToOne, IsManyToMany, IsManyToOne
  <2>10. QED
    BY <2>4, <2>5, <2>7, <2>8, <2>9
<1>2. IInv => RowsArrive
  BY <1>1
<1>3. QED
  BY <1>2, GraphBuilt, PTL

-----------------------------------------------------------------------------
(***************************************************************************)
(* What a run does to the graph, without what the texts say: where no two  *)
(* executions have the same url and text, the run after an edit takes the  *)
(* steps of the run before it.                                             *)
(***************************************************************************)
PartedBy(text) ==
  \A q, r \in Queries : \A i \in DOMAIN Urls(q) : \A j \in DOMAIN Urls(r) :
    <<Urls(q)[i], text[q]>> = <<Urls(r)[j], text[r]>> => q = r /\ i = j

Picked(dep) ==
  LET all == DOMAIN Urls(dep.source)
  IN  CASE dep.shard = Zero -> [i \in all |-> i]
        [] dep.shard \in all -> <<dep.shard>>
        [] dep.shard \notin all \cup {Zero} -> <<>>
HeadName(s) == ExecName(s, 1, Len(Urls(s)))
Joins(q, dep) == Len(Urls(q)) = 1 /\ Len(Picked(dep)) > 1
Parts(q, dep) == Len(Urls(q)) > 1 /\ Len(Picked(dep)) = 1 /\ conf.own[dep.source] = Zero

\* A transition is the kind it has, the query whose executions it is fed by, and its url.
ShapeType == [kind : {"joined", "splitted"}, source : Queries, url : Url]
IdFor(kind, q) == IF kind = "joined" THEN JoinedId(q) ELSE SplittedId(q)

\* The transition of a kind for a query, or 0, and the number it has or gets.
Known(s, kind, q) ==
  LET I == {k \in 1 .. Len(s.nodes) : s.nodes[k].kind = kind /\ s.nodes[k].source = q}
  IN  IF I # {} THEN Min(I) ELSE 0
NumberOf(s, kind, q) == IF Known(s, kind, q) # 0 THEN Known(s, kind, q) ELSE Len(s.nodes) + 1
With(s, kind, q, url) ==
  IF Known(s, kind, q) # 0 THEN s.nodes ELSE Append(s.nodes, [kind |-> kind, source |-> q, url |-> url])

NodesAfter(s, q, dep) ==
  IF Joins(q, dep) THEN With(s, "joined", dep.source, Urls(q)[1])
  ELSE IF Parts(q, dep) THEN With(s, "splitted", dep.source, Urls(dep.source)[1]) ELSE s.nodes

FeedsAfter(s, q, dep) ==
  LET src == dep.source
  IN  IF Joins(q, dep) /\ Known(s, "joined", src) = 0
      THEN [i \in DOMAIN Urls(src) |-> From(<<src, i>>, Default, <<Zero, Len(s.nodes) + 1>>, Numbered(i))]
      ELSE IF Parts(q, dep) /\ Known(s, "splitted", src) = 0
      THEN <<From(<<src, 1>>, Default, <<Zero, Len(s.nodes) + 1>>, HeadName(src))>>
      ELSE <<>>

LinksAfter(s, q, dep) ==
  LET src == dep.source
      joined == <<Zero, NumberOf(s, "joined", src)>>
      splitted == <<Zero, NumberOf(s, "splitted", src)>>
  IN  IF Len(Urls(q)) = 1 /\ Len(Picked(dep)) = 1
      THEN <<From(<<src, Picked(dep)[1]>>, Default, <<q, 1>>, QName(src, dep.shard))>>
      ELSE IF Joins(q, dep) THEN <<From(joined, Default, <<q, 1>>, QName(src, Zero))>>
      ELSE IF Parts(q, dep)
      THEN [i \in 1 .. Len(Urls(q)) |-> From(splitted, Numbered(i), <<q, i>>, HeadName(src))]
      ELSE IF Len(Urls(q)) > 1 /\ Len(Picked(dep)) = 1
      THEN [i \in 1 .. Len(Urls(q)) |-> From(<<src, 1>>, Default, <<q, i>>, HeadName(src))]
      ELSE IF Len(Urls(q)) > 1 /\ Len(Picked(dep)) = Len(Urls(q))
      THEN [i \in 1 .. Len(Urls(q)) |-> From(<<src, i>>, Default, <<q, i>>, QName(src, Zero))]
      ELSE <<>>

\* populateTransitions(), from one dependency to the next.
Effect(s) ==
  LET q == s.at[1]
      j == s.at[2]
      dep == conf.deps[q][j]
  IN  IF j <= Len(conf.deps[q])
      THEN [phase |-> "transitions", at |-> <<q, j + 1>>, nodes |-> NodesAfter(s, q, dep),
            channels |-> s.channels \o FeedsAfter(s, q, dep) \o LinksAfter(s, q, dep)]
      ELSE [phase |-> IF q = Cardinality(Queries) THEN "over" ELSE "transitions",
            at |-> IF q = Cardinality(Queries) THEN <<1, 1>> ELSE <<q + 1, 1>>,
            nodes |-> s.nodes, channels |-> s.channels]

NodesShaped(seq) ==
  /\ seq \in Seq(ShapeType) /\ Len(seq) = Len(nodes)
  /\ \A k \in DOMAIN nodes : /\ nodes[k].id = IdFor(seq[k].kind, seq[k].source)
                             /\ nodes[k].url = seq[k].url

IsShape(s) ==
  /\ s.phase = (IF phase = "transitions" THEN "transitions" ELSE "over")
  /\ s.at = at /\ s.channels = channels /\ NodesShaped(s.nodes)

-----------------------------------------------------------------------------
\* Where they are all different, the id of a transition says its kind and its query.
LEMMA IdsParted ==
  ASSUME conf \in ConfigurationsOf(STRING), Populated, PartedBy(conf.text),
         NEW k \in {"joined", "splitted"}, NEW l \in {"joined", "splitted"}, NEW q \in Queries, NEW r \in Queries
  PROVE  IdFor(k, q) = IdFor(l, r) <=> k = l /\ q = r
<1>1. SUFFICES ASSUME IdFor(k, q) = IdFor(l, r) PROVE k = l /\ q = r
  OBVIOUS
<1>2. ASSUME NEW s \in Queries
      PROVE  /\ 1 \in DOMAIN Urls(s) /\ 1 \in DOMAIN execs[s] /\ Text(<<s, 1>>) = <<Urls(s)[1], conf.text[s]>>
             /\ JoinedId(s)[2] = "joined" /\ SplittedId(s)[2] = "splitted"
             /\ JoinedId(s)[1][1] = Text(<<s, 1>>) /\ SplittedId(s)[1][1] = Text(<<s, 1>>)
  <2>1. 1 \in DOMAIN execs[s] /\ DOMAIN execs[s] = DOMAIN Urls(s)
    BY ExecutionsMade
  <2>2. execs[s][1].url = Urls(s)[1]
    BY <2>1, ExecutionsOfQuery DEF Populated
  <2>3. SplittedId(s)[1][1] = Text(<<s, 1>>)
    BY DEF SplittedId
  <2>4. QED
    BY <2>1, <2>2, <2>3, TransitionIds
<1>3. k = l
  BY <1>1, <1>2 DEF IdFor
<1>4. IdFor(k, q)[1][1] = Text(<<q, 1>>) /\ IdFor(l, r)[1][1] = Text(<<r, 1>>)
  BY <1>2 DEF IdFor
<1>5. <<Urls(q)[1], conf.text[q]>> = <<Urls(r)[1], conf.text[r]>>
  BY <1>1, <1>2, <1>4
<1>6. q = r
  BY <1>2, <1>5 DEF PartedBy
<1>7. QED
  BY <1>3, <1>6

\* exists() finds the transition of that kind for that query.
LEMMA KnownExists ==
  ASSUME conf \in ConfigurationsOf(STRING), Populated, PartedBy(conf.text), nodes \in Seq(TransitionType),
         NEW s, NodesShaped(s.nodes), NEW kind \in {"joined", "splitted"}, NEW q \in Queries
  PROVE  Existing(IdFor(kind, q)) = Known(s, kind, q)
<1> DEFINE I == {k \in 1 .. Len(nodes) : nodes[k].id = IdFor(kind, q)}
           J == {k \in 1 .. Len(s.nodes) : s.nodes[k].kind = kind /\ s.nodes[k].source = q}
<1>1. Existing(IdFor(kind, q)) = IF I # {} THEN Min(I) ELSE 0
  BY DEF Existing, SelectInSeq
<1>2. Known(s, kind, q) = IF J # {} THEN Min(J) ELSE 0
  BY DEF Known
<1>3. Len(s.nodes) = Len(nodes) /\ s.nodes \in Seq(ShapeType) /\ DOMAIN nodes = 1 .. Len(nodes)
  BY LenProperties DEF NodesShaped
<1>4. ASSUME NEW k \in 1 .. Len(nodes) PROVE k \in I <=> k \in J
  <2>1. s.nodes[k] \in ShapeType
    BY <1>3, ElementOfSeq
  <2>2. s.nodes[k].kind \in {"joined", "splitted"} /\ s.nodes[k].source \in Queries
    BY <2>1 DEF ShapeType
  <2>3. nodes[k].id = IdFor(s.nodes[k].kind, s.nodes[k].source)
    BY <1>3 DEF NodesShaped
  <2>4. PICK l, r : l = s.nodes[k].kind /\ r = s.nodes[k].source
    OBVIOUS
  <2>5. IdFor(l, r) = IdFor(kind, q) <=> l = kind /\ r = q
    BY <2>2, <2>4, IdsParted
  <2>6. QED
    BY <1>3, <2>3, <2>4, <2>5
<1>5. I = J
  <2>1. PICK X, Y : X = I /\ Y = J
    OBVIOUS
  <2>2. X \subseteq 1 .. Len(nodes) /\ Y \subseteq 1 .. Len(nodes)
    BY <1>3, <2>1
  <2>3. \A k \in 1 .. Len(nodes) : k \in X <=> k \in Y
    BY <1>4, <2>1
  <2> HIDE DEF I, J
  <2>4. X = Y
    BY <2>2, <2>3
  <2>5. QED
    BY <2>1, <2>4 DEF I, J
<1> HIDE DEF I, J
<1>6. QED
  BY <1>1, <1>2, <1>5
\* What the texts do not change is said with the urls, once the executions have been made.
LEMMA WhenShaped ==
  ASSUME TypeOK, GraphInv, Pending, NEW t, NEW dep, t = Target, dep = Dep
  PROVE  /\ Len(Urls(t)) = DstSize /\ Picked(dep) = Selected(dep) /\ Len(Picked(dep)) = SrcSize
         /\ DOMAIN Urls(t) = 1 .. DstSize /\ DOMAIN Urls(dep.source) = DOMAIN execs[dep.source]
         /\ execs[dep.source][1].name = HeadName(dep.source) /\ Urls(dep.source)[1] \in Url /\ Urls(t)[1] \in Url
         /\ execs[dep.source][1].url = Urls(dep.source)[1] /\ execs[t][1].url = Urls(t)[1]
<1>1. /\ conf \in ConfigurationsOf(STRING) /\ Populated /\ t \in Queries /\ dep.source \in Queries /\ dep.shard \in Nat
      /\ DstSize = Len(execs[t]) /\ SrcSize = Len(Selected(dep))
  BY WhenPending
<1>2. ASSUME NEW q \in Queries
      PROVE  /\ Len(Urls(q)) = Len(execs[q]) /\ DOMAIN Urls(q) = 1 .. Len(execs[q]) /\ DOMAIN Urls(q) = DOMAIN execs[q]
             /\ execs[q][1].url = Urls(q)[1] /\ execs[q][1].name = HeadName(q) /\ Urls(q)[1] \in Url
  <2>1. execs[q] = Executions(q)
    BY <1>1 DEF Populated
  <2>2. Len(Urls(q)) = Len(execs[q]) /\ DOMAIN Urls(q) = 1 .. Len(execs[q]) /\ 1 \in DOMAIN Urls(q)
    BY <1>1, <2>1, ExecutionsOfQuery, ExecutionsMade
  <2>3. execs[q][1].url = Urls(q)[1] /\ execs[q][1].url \in Url
    BY <1>1, <2>1, <2>2, ExecutionsOfQuery, ExecutionsMade
  <2>4. execs[q][1].name = HeadName(q)
    BY <1>1, <2>1, <2>2, ExecutionsOfQuery DEF HeadName
  <2>5. QED
    BY <1>1, <2>2, <2>3, <2>4, ExecutionsMade
<1>3. Picked(dep) = Selected(dep)
  BY <1>1, <1>2 DEF Picked, Selected
<1>4. QED
  BY <1>1, <1>2, <1>3

\* The id of a query's transition stays while the executions do.
LEMMA IdsStay ==
  ASSUME conf \in ConfigurationsOf(STRING), UNCHANGED <<conf, execs>>
  PROVE  \A kind, q : q \in Queries => IdFor(kind, q)' = IdFor(kind, q)
BY TextsStay DEF IdFor

\* The shape follows a step that takes the next dependency.
LEMMA ShapeStep ==
  ASSUME TypeOK, GraphInv, Pending, Advance, NEW s, IsShape(s), NEW t, NEW dep, t = Target, dep = Dep,
         NEW seq, seq = NodesAfter(s, t, dep), NodesShaped(seq)',
         channels' = channels \o FeedsAfter(s, t, dep) \o LinksAfter(s, t, dep), NEW e, e = Effect(s)
  PROVE  IsShape(e)'
<1>1. /\ phase = "transitions" /\ phase' = phase /\ at' = <<at[1], at[2] + 1>> /\ at[2] <= Len(conf.deps[at[1]])
  BY DEF Pending, Advance
<1>2. s.at = at /\ s.channels = channels
  BY DEF IsShape
<1>3. t = at[1] /\ dep = conf.deps[at[1]][at[2]]
  BY DEF Target, Dep
<1>4. e = [phase |-> "transitions", at |-> <<at[1], at[2] + 1>>, nodes |-> seq,
           channels |-> s.channels \o FeedsAfter(s, t, dep) \o LinksAfter(s, t, dep)]
  BY <1>1, <1>2, <1>3 DEF Effect
<1>5. e.phase = "transitions" /\ e.at = at' /\ e.nodes = seq /\ e.channels = channels'
  BY <1>1, <1>2, <1>4
<1>6. QED
  BY <1>1, <1>5 DEF IsShape

\* Where the nodes stay.
LEMMA NodesShapedStay ==
  ASSUME conf \in ConfigurationsOf(STRING), UNCHANGED <<conf, execs, nodes>>, NEW seq, NodesShaped(seq),
         nodes \in Seq(TransitionType)
  PROVE  NodesShaped(seq)'
<1>1. ASSUME NEW k \in DOMAIN nodes PROVE nodes'[k].id = IdFor(seq[k].kind, seq[k].source)'
  <2>1. seq[k] \in ShapeType
    BY LenProperties, ElementOfSeq DEF NodesShaped
  <2>2. seq[k].source \in Queries
    BY <2>1 DEF ShapeType
  <2>3. PICK kind, q : kind = seq[k].kind /\ q = seq[k].source
    OBVIOUS
  <2>4. IdFor(kind, q)' = IdFor(kind, q)
    BY <2>2, <2>3, IdsStay
  <2>5. nodes'[k].id = IdFor(kind, q)
    BY <2>3 DEF NodesShaped
  <2>6. QED
    BY <2>3, <2>4, <2>5
<1>2. QED
  BY <1>1 DEF NodesShaped

\* Where a transition is new.
LEMMA NodesShapedGrow ==
  ASSUME conf \in ConfigurationsOf(STRING), UNCHANGED <<conf, execs>>, nodes \in Seq(TransitionType),
         NEW seq, NodesShaped(seq), NEW node, nodes' = Append(nodes, node),
         NEW kind \in {"joined", "splitted"}, NEW q \in Queries, NEW url \in Url,
         node.id = IdFor(kind, q), node.url = url,
         NEW longer, longer = Append(seq, [kind |-> kind, source |-> q, url |-> url])
  PROVE  NodesShaped(longer)'
<1>1. PICK shape, n : shape = [kind |-> kind, source |-> q, url |-> url] /\ n = Len(nodes)
  OBVIOUS
<1>2. shape \in ShapeType /\ shape.kind = kind /\ shape.source = q /\ shape.url = url
  BY <1>1 DEF ShapeType
<1>3. seq \in Seq(ShapeType) /\ Len(seq) = n /\ n \in Nat /\ DOMAIN nodes = 1 .. n /\ DOMAIN seq = 1 .. n
  BY <1>1, LenProperties DEF NodesShaped
<1>4. /\ longer \in Seq(ShapeType) /\ Len(longer) = n + 1 /\ longer[n + 1] = shape
      /\ \A k \in 1 .. n : longer[k] = seq[k]
  BY <1>1, <1>2, <1>3, AppendProperties
<1>5. /\ Len(nodes') = n + 1 /\ DOMAIN nodes' = 1 .. n + 1 /\ nodes'[n + 1] = node
      /\ \A k \in 1 .. n : nodes'[k] = nodes[k]
  <2>1. PICK S : S = TransitionType \cup {node}
    OBVIOUS
  <2>2. nodes \in [1 .. n -> TransitionType] /\ TransitionType \subseteq S
    BY <1>1, <2>1, LenProperties
  <2>3. nodes \in [1 .. n -> S]
    BY <2>2
  <2>4. nodes \in Seq(S) /\ node \in S
    BY <1>3, <2>1, <2>3
  <2>5. QED
    BY <1>1, <1>3, <2>4, AppendProperties, LenProperties
<1>6. ASSUME NEW k \in 1 .. n + 1
      PROVE  nodes'[k].id = IdFor(longer[k].kind, longer[k].source)' /\ nodes'[k].url = longer[k].url
  <2>1. CASE k = n + 1
    <3>1. nodes'[k] = node /\ longer[k].kind = kind /\ longer[k].source = q /\ longer[k].url = url
      BY <1>2, <1>4, <1>5, <2>1
    <3>2. IdFor(kind, q)' = IdFor(kind, q)
      BY IdsStay
    <3>3. QED
      BY <3>1, <3>2
  <2>2. CASE k # n + 1
    <3>1. k \in 1 .. n
      BY <1>3, <2>2
    <3>2. nodes'[k] = nodes[k] /\ longer[k] = seq[k]
      BY <1>4, <1>5, <3>1
    <3>3. nodes[k].id = IdFor(seq[k].kind, seq[k].source) /\ nodes[k].url = seq[k].url
      BY <1>3, <3>1 DEF NodesShaped
    <3>4. PICK l, r : l = seq[k].kind /\ r = seq[k].source
      OBVIOUS
    <3>5. r \in Queries
      <4>1. seq[k] \in ShapeType
        BY <1>3, <3>1, ElementOfSeq
      <4>2. QED
        BY <3>4, <4>1 DEF ShapeType
    <3>6. IdFor(l, r)' = IdFor(l, r)
      BY <3>5, IdsStay
    <3>7. nodes'[k].id = IdFor(l, r)
      BY <3>2, <3>3, <3>4
    <3>8. QED
      BY <3>2, <3>3, <3>4, <3>6, <3>7
  <2>3. QED
    BY <2>1, <2>2
<1>7. QED
  BY <1>4, <1>5, <1>6 DEF NodesShaped
-----------------------------------------------------------------------------
\* The dependencies, one after the other, on the graph and on its shape.
LEMMA OneToOneShape ==
  ASSUME TypeOK, GraphInv, OneToOne, NEW s, IsShape(s), NEW e, e = Effect(s)
  PROVE  IsShape(e)'
<1>1. Pending /\ DstSize = 1 /\ SrcSize = 1 /\ Advance /\ UNCHANGED nodes
  BY DEF OneToOne
<1>2. PICK t, dep, seq : t = Target /\ dep = Dep /\ seq = NodesAfter(s, t, dep)
  OBVIOUS
<1>3. /\ Len(Urls(t)) = 1 /\ Picked(dep) = Selected(dep) /\ Len(Picked(dep)) = 1
      /\ conf \in ConfigurationsOf(STRING) /\ channels \in Seq(ChannelType) /\ nodes \in Seq(TransitionType)
  BY <1>1, <1>2, WhenShaped, WhenPending
<1>4. ~Joins(t, dep) /\ ~Parts(t, dep)
  BY <1>3 DEF Joins, Parts
<1>5. /\ seq = s.nodes /\ FeedsAfter(s, t, dep) = <<>>
      /\ LinksAfter(s, t, dep) =
           <<From(<<dep.source, Picked(dep)[1]>>, Default, <<t, 1>>, QName(dep.source, dep.shard))>>
  BY <1>2, <1>3, <1>4 DEF NodesAfter, FeedsAfter, LinksAfter
<1>6. NodesShaped(seq)'
  <2>1. NodesShaped(seq)
    BY <1>5 DEF IsShape
  <2>2. QED
    BY <1>1, <1>3, <2>1, NodesShapedStay DEF Advance
<1>7. channels' = channels \o FeedsAfter(s, t, dep) \o LinksAfter(s, t, dep)
  <2>1. PICK link : link = From(<<dep.source, Picked(dep)[1]>>, Default, <<t, 1>>, QName(dep.source, dep.shard))
    OBVIOUS
  <2>2. channels' = Append(channels, link)
    BY <1>2, <1>3, <2>1 DEF OneToOne, Source
  <2>3. channels' = channels \o <<link>>
    <3>1. Selected(dep)[1] \in Nat /\ t \in Nat /\ dep.source \in Nat /\ dep.shard \in Nat
      <4>1. /\ t \in Nat /\ dep.source \in Queries /\ dep.source \in Nat /\ dep.shard \in Nat
            /\ Populated /\ Len(Selected(dep)) = 1
        BY <1>1, <1>2, WhenPending
      <4>2. conf \in ConfigurationsOf(STRING)
        BY <1>3
      <4>3. Selected(dep)[1] \in Nat
        BY <4>1, <4>2, SelectedExecutions, ExecutionsMade
      <4>4. QED
        BY <4>1, <4>3
    <3>2. link \in ChannelType
      BY <1>3, <2>1, <3>1, PortTypes
    <3>3. QED
      BY <1>3, <2>2, <3>2, AppendIsConcat
  <2>4. channels \o <<>> \o <<link>> = channels \o <<link>>
    BY <1>3, NothingAppended
  <2>5. QED
    BY <1>5, <2>1, <2>3, <2>4
<1>8. QED
  BY <1>1, <1>2, <1>6, <1>7, ShapeStep

\* From shard to shard of the same number: the sizes say how many there are.
LEMMA ManyToManyShape ==
  ASSUME TypeOK, GraphInv, ManyToManyUnsharded, NEW s, IsShape(s), NEW e, e = Effect(s)
  PROVE  IsShape(e)'
<1>1. Pending /\ DstSize > 1 /\ DstSize = SrcSize /\ Advance /\ UNCHANGED nodes
  BY DEF ManyToManyUnsharded
<1>2. PICK t, dep, seq, n : t = Target /\ dep = Dep /\ seq = NodesAfter(s, t, dep) /\ n = DstSize
  OBVIOUS
<1>3. /\ Len(Urls(t)) = n /\ Len(Picked(dep)) = n /\ n \in Nat /\ n > 1
      /\ conf \in ConfigurationsOf(STRING) /\ channels \in Seq(ChannelType) /\ nodes \in Seq(TransitionType)
  BY <1>1, <1>2, WhenShaped, WhenPending
<1>4. n # 1
  BY <1>3
<1>5. ~Joins(t, dep) /\ ~Parts(t, dep)
  BY <1>3, <1>4 DEF Joins, Parts
<1>6. /\ seq = s.nodes /\ FeedsAfter(s, t, dep) = <<>>
      /\ LinksAfter(s, t, dep) = [i \in 1 .. n |-> From(<<dep.source, i>>, Default, <<t, i>>, QName(dep.source, Zero))]
  BY <1>2, <1>3, <1>4, <1>5 DEF NodesAfter, FeedsAfter, LinksAfter
<1>7. NodesShaped(seq)'
  <2>1. NodesShaped(seq)
    BY <1>6 DEF IsShape
  <2>2. QED
    BY <1>1, <1>3, <2>1, NodesShapedStay DEF Advance
<1>8. channels' = channels \o FeedsAfter(s, t, dep) \o LinksAfter(s, t, dep)
  <2>1. PICK links : links = [i \in 1 .. n |-> From(<<dep.source, i>>, Default, <<t, i>>, QName(dep.source, Zero))]
    OBVIOUS
  <2>2. channels' = channels \o links
    BY <1>2, <2>1 DEF ManyToManyUnsharded, Source
  <2>3. channels \o <<>> \o links = channels \o links
    BY <1>3, NothingAppended
  <2>4. QED
    BY <1>6, <2>1, <2>2, <2>3
<1>9. QED
  BY <1>1, <1>2, <1>7, <1>8, ShapeStep

\* One execution that feeds each of the target's, with no transition between them.
LEMMA OneToManyUnshardedShape ==
  ASSUME TypeOK, GraphInv, OneToManyUnsharded, NEW s, IsShape(s), NEW e, e = Effect(s)
  PROVE  IsShape(e)'
<1>1. Pending /\ DstSize > 1 /\ SrcSize = 1 /\ Advance /\ UNCHANGED nodes
  BY DEF OneToManyUnsharded
<1>2. PICK t, dep, seq, n : t = Target /\ dep = Dep /\ seq = NodesAfter(s, t, dep) /\ n = DstSize
  OBVIOUS
<1>3. /\ Len(Urls(t)) = n /\ Len(Picked(dep)) = 1 /\ n \in Nat /\ n > 1 /\ conf.own[dep.source] # Zero
      /\ execs[dep.source][1].name = HeadName(dep.source)
      /\ conf \in ConfigurationsOf(STRING) /\ channels \in Seq(ChannelType) /\ nodes \in Seq(TransitionType)
  BY <1>1, <1>2, WhenShaped, WhenPending DEF OneToManyUnsharded
<1>4. n # 1
  BY <1>3
<1>5. ~Joins(t, dep) /\ ~Parts(t, dep)
  BY <1>3, <1>4 DEF Joins, Parts
<1>6. /\ seq = s.nodes /\ FeedsAfter(s, t, dep) = <<>>
      /\ LinksAfter(s, t, dep) = [i \in 1 .. n |-> From(<<dep.source, 1>>, Default, <<t, i>>, HeadName(dep.source))]
  BY <1>2, <1>3, <1>4, <1>5 DEF NodesAfter, FeedsAfter, LinksAfter
<1>7. NodesShaped(seq)'
  <2>1. NodesShaped(seq)
    BY <1>6 DEF IsShape
  <2>2. QED
    BY <1>1, <1>3, <2>1, NodesShapedStay DEF Advance
<1>8. channels' = channels \o FeedsAfter(s, t, dep) \o LinksAfter(s, t, dep)
  <2>1. PICK links : links = [i \in 1 .. n |-> From(<<dep.source, 1>>, Default, <<t, i>>, HeadName(dep.source))]
    OBVIOUS
  <2>2. channels' = channels \o links
    BY <1>2, <1>3, <2>1 DEF OneToManyUnsharded, SourceName, Source
  <2>3. channels \o <<>> \o links = channels \o links
    BY <1>3, NothingAppended
  <2>4. QED
    BY <1>6, <2>1, <2>2, <2>3
<1>9. QED
  BY <1>1, <1>2, <1>7, <1>8, ShapeStep

\* Of a dependency that no transition serves the graph keeps nothing.
LEMMA NoTransitionShape ==
  ASSUME TypeOK, GraphInv, NoTransition, NEW s, IsShape(s), NEW e, e = Effect(s)
  PROVE  IsShape(e)'
<1>1. Pending /\ Advance /\ UNCHANGED <<nodes, channels>>
  BY DEF NoTransition
<1>2. PICK t, dep, seq, n, m : t = Target /\ dep = Dep /\ seq = NodesAfter(s, t, dep) /\ n = DstSize /\ m = SrcSize
  OBVIOUS
<1>3. /\ Len(Urls(t)) = n /\ Len(Picked(dep)) = m /\ n \in Nat /\ m \in Nat
      /\ m = 0 \/ (m > 1 /\ n > 1 /\ m # n)
      /\ conf \in ConfigurationsOf(STRING) /\ channels \in Seq(ChannelType) /\ nodes \in Seq(TransitionType)
  BY <1>1, <1>2, WhenShaped, WhenPending DEF NoTransition
<1>4. m # 1 /\ ~(n = 1 /\ m > 1) /\ ~(n > 1 /\ m = n)
  BY <1>3
<1>5. ~Joins(t, dep) /\ ~Parts(t, dep)
  BY <1>3, <1>4 DEF Joins, Parts
<1>6. seq = s.nodes /\ FeedsAfter(s, t, dep) = <<>> /\ LinksAfter(s, t, dep) = <<>>
  BY <1>2, <1>3, <1>4, <1>5 DEF NodesAfter, FeedsAfter, LinksAfter
<1>7. NodesShaped(seq)'
  <2>1. NodesShaped(seq)
    BY <1>6 DEF IsShape
  <2>2. QED
    BY <1>1, <1>3, <2>1, NodesShapedStay DEF Advance
<1>8. channels' = channels \o FeedsAfter(s, t, dep) \o LinksAfter(s, t, dep)
  <2>1. channels \o <<>> = channels
    BY <1>3, ConcatEmptySeq
  <2>2. QED
    BY <1>1, <1>6, <2>1
<1>9. QED
  BY <1>1, <1>2, <1>7, <1>8, ShapeStep

\* The next target begins where every dependency of this one was taken.
LEMMA NextTargetShape ==
  ASSUME TypeOK, GraphInv, NextTarget, NEW s, IsShape(s), NEW e, e = Effect(s)
  PROVE  IsShape(e)'
<1>1. /\ phase = "transitions" /\ at[2] > Len(conf.deps[at[1]]) /\ UNCHANGED <<conf, edited, earlier, execs, nodes, channels, ids>>
      /\ phase' = (IF at[1] = Len(conf.text) THEN "ids" ELSE "transitions")
      /\ at' = (IF at[1] = Len(conf.text) THEN <<1, 1>> ELSE <<at[1] + 1, 1>>)
  BY DEF NextTarget, graph
<1>2. /\ conf \in ConfigurationsOf(STRING) /\ at \in Queries \X (Nat \ {0}) /\ nodes \in Seq(TransitionType)
      /\ Len(conf.text) = Cardinality(Queries)
  BY NumberOfTexts DEF TypeOK
<1>3. s.at = at /\ s.channels = channels /\ NodesShaped(s.nodes)
  BY DEF IsShape
<1>4. ~(at[2] <= Len(conf.deps[at[1]]))
  <2>1. conf.deps[at[1]] \in Seq([source : Queries, shard : Nat])
    BY <1>2, ConfigurationFields
  <2>2. Len(conf.deps[at[1]]) \in Nat /\ at[2] \in Nat
    BY <1>2, <2>1, LenProperties
  <2>3. QED
    BY <1>1, <2>2
<1>5. e = [phase |-> IF at[1] = Cardinality(Queries) THEN "over" ELSE "transitions",
           at |-> IF at[1] = Cardinality(Queries) THEN <<1, 1>> ELSE <<at[1] + 1, 1>>,
           nodes |-> s.nodes, channels |-> s.channels]
  BY <1>3, <1>4 DEF Effect
<1>6. PICK seq : seq = s.nodes
  OBVIOUS
<1>7. NodesShaped(seq)'
  BY <1>1, <1>2, <1>3, <1>6, NodesShapedStay
<1>8. /\ e.phase = (IF phase' = "transitions" THEN "transitions" ELSE "over") /\ e.at = at'
      /\ e.nodes = seq /\ e.channels = channels'
  BY <1>1, <1>2, <1>3, <1>5, <1>6
<1>9. QED
  BY <1>7, <1>8 DEF IsShape
\* A join is the one that was made for the source, or a new one.
LEMMA ManyToOneShape ==
  ASSUME TypeOK, GraphInv, ManyToOne, PartedBy(conf.text), NEW s, IsShape(s), NEW e, e = Effect(s)
  PROVE  IsShape(e)'
<1>1. Pending /\ DstSize = 1 /\ SrcSize > 1 /\ Advance
  BY DEF ManyToOne
<1>2. PICK t, dep, seq, src, m, known :
        /\ t = Target /\ dep = Dep /\ seq = NodesAfter(s, t, dep) /\ src = Source /\ m = SrcSize
        /\ known = Existing(JoinedId(Source))
  OBVIOUS
<1>3. /\ conf \in ConfigurationsOf(STRING) /\ Populated /\ channels \in Seq(ChannelType) /\ nodes \in Seq(TransitionType)
      /\ Len(Urls(t)) = 1 /\ Len(Picked(dep)) = m /\ m \in Nat /\ m > 1
      /\ src = dep.source /\ src \in Queries /\ DOMAIN Urls(src) = DOMAIN execs[src]
      /\ execs[t][1].url = Urls(t)[1] /\ Urls(t)[1] \in Url
  BY <1>1, <1>2, WhenShaped, WhenPending
<1>4. m # 1
  BY <1>3
<1>5. Joins(t, dep) /\ NodesShaped(s.nodes) /\ Len(s.nodes) = Len(nodes)
  BY <1>3 DEF Joins, IsShape, NodesShaped
<1>6. known = Known(s, "joined", src) /\ known = Existing(JoinedId(src))
  BY <1>2, <1>3, <1>5, KnownExists DEF IdFor
<1> DEFINE shape == [kind |-> "joined", source |-> src, url |-> Urls(t)[1]]
           number == IF known # 0 THEN known ELSE Len(nodes) + 1
           feeds == IF known # 0 THEN <<>>
                    ELSE [i \in DOMAIN Urls(src) |-> From(<<src, i>>, Default, <<Zero, Len(nodes) + 1>>, Numbered(i))]
           link == From(<<Zero, number>>, Default, <<t, 1>>, QName(src, Zero))
<1>7. seq = IF known # 0 THEN s.nodes ELSE Append(s.nodes, shape)
  BY <1>2, <1>3, <1>5, <1>6 DEF NodesAfter, With
<1>8. FeedsAfter(s, t, dep) = feeds
  <2>1. ~Parts(t, dep)
    BY <1>3, <1>4 DEF Parts
  <2>2. QED
    BY <1>3, <1>5, <1>6, <2>1 DEF FeedsAfter
<1>9. LinksAfter(s, t, dep) = <<link>>
  BY <1>3, <1>4, <1>5, <1>6 DEF LinksAfter, NumberOf
<1>10. channels' = channels \o feeds \o <<link>>
  <2>1. CASE known # 0
    BY <1>2, <2>1 DEF ManyToOne
  <2>2. CASE known = 0
    BY <1>2, <1>3, <2>2 DEF ManyToOne, Collect, NewNode
  <2>3. QED
    BY <2>1, <2>2
<1> HIDE DEF feeds, link
<1>11. NodesShaped(seq)'
  <2>1. CASE known # 0
    <3>1. UNCHANGED nodes /\ seq = s.nodes
      BY <1>2, <1>7, <2>1 DEF ManyToOne
    <3>2. PICK old : old = s.nodes
      OBVIOUS
    <3>3. NodesShaped(old)'
      BY <1>1, <1>3, <1>5, <3>1, <3>2, NodesShapedStay DEF Advance
    <3>4. QED
      BY <3>1, <3>2, <3>3
  <2>2. CASE known = 0
    <3>1. PICK node : node = [kind |-> "joined", id |-> JoinedId(src), url |-> execs[t][1].url, name |-> QName(src, Zero),
                              ports |-> [i \in 1 .. m |-> Numbered(i)], strategies |-> <<>>, count |-> 1]
      OBVIOUS
    <3>2. nodes' = Append(nodes, node)
      BY <1>2, <2>2, <3>1 DEF ManyToOne
    <3>3. node.id = IdFor("joined", src) /\ node.url = Urls(t)[1]
      BY <1>3, <3>1 DEF IdFor
    <3>4. PICK old, url : old = s.nodes /\ url = Urls(t)[1]
      OBVIOUS
    <3>5. seq = Append(old, [kind |-> "joined", source |-> src, url |-> url])
      BY <1>7, <2>2, <3>4
    <3>6. UNCHANGED <<conf, execs>> /\ url \in Url /\ NodesShaped(old) /\ node.url = url
      BY <1>1, <1>3, <1>5, <3>3, <3>4 DEF Advance
    <3>7. QED
      BY <1>3, <3>2, <3>3, <3>5, <3>6, NodesShapedGrow
  <2>3. QED
    BY <2>1, <2>2
<1>12. channels' = channels \o FeedsAfter(s, t, dep) \o LinksAfter(s, t, dep)
  BY <1>8, <1>9, <1>10
<1>13. QED
  BY <1>1, <1>2, <1>11, <1>12, ShapeStep

\* So is a splitter, with a port for each execution of the target.
LEMMA OneToManyShape ==
  ASSUME TypeOK, GraphInv, OneToMany, PartedBy(conf.text), NEW s, IsShape(s), NEW e, e = Effect(s)
  PROVE  IsShape(e)'
<1>1. Pending /\ DstSize > 1 /\ SrcSize = 1 /\ Advance
  BY DEF OneToMany
<1>2. PICK t, dep, seq, src, n, known :
        /\ t = Target /\ dep = Dep /\ seq = NodesAfter(s, t, dep) /\ src = Source /\ n = DstSize
        /\ known = Existing(SplittedId(Source))
  OBVIOUS
<1>3. /\ conf \in ConfigurationsOf(STRING) /\ Populated /\ channels \in Seq(ChannelType) /\ nodes \in Seq(TransitionType)
      /\ Len(Urls(t)) = n /\ Len(Picked(dep)) = 1 /\ n \in Nat /\ n > 1 /\ conf.own[src] = Zero
      /\ src = dep.source /\ src \in Queries /\ execs[src][1].name = HeadName(src)
      /\ execs[src][1].url = Urls(src)[1] /\ Urls(src)[1] \in Url
  BY <1>1, <1>2, WhenShaped, WhenPending DEF OneToMany
<1>4. n # 1
  BY <1>3
<1>5. Parts(t, dep) /\ ~Joins(t, dep) /\ NodesShaped(s.nodes) /\ Len(s.nodes) = Len(nodes)
  BY <1>3, <1>4 DEF Joins, Parts, IsShape, NodesShaped
<1>6. known = Known(s, "splitted", src) /\ known = Existing(SplittedId(src))
  BY <1>2, <1>3, <1>5, KnownExists DEF IdFor
<1> DEFINE shape == [kind |-> "splitted", source |-> src, url |-> Urls(src)[1]]
           number == IF known # 0 THEN known ELSE Len(nodes) + 1
           feeds == IF known # 0 THEN <<>>
                    ELSE <<From(<<src, 1>>, Default, <<Zero, Len(nodes) + 1>>, HeadName(src))>>
           links == [i \in 1 .. n |-> From(<<Zero, number>>, Numbered(i), <<t, i>>, HeadName(src))]
<1>7. seq = IF known # 0 THEN s.nodes ELSE Append(s.nodes, shape)
  BY <1>2, <1>3, <1>5, <1>6 DEF NodesAfter, With
<1>8. FeedsAfter(s, t, dep) = feeds
  BY <1>3, <1>5, <1>6 DEF FeedsAfter
<1>9. LinksAfter(s, t, dep) = links
  BY <1>3, <1>4, <1>5, <1>6 DEF LinksAfter, NumberOf
<1>10. channels' = channels \o feeds \o links
  <2>1. CASE known # 0
    BY <1>2, <1>3, <2>1 DEF OneToMany, SourceName
  <2>2. CASE known = 0
    BY <1>2, <1>3, <2>2 DEF OneToMany, SourceName, NewNode
  <2>3. QED
    BY <2>1, <2>2
<1> HIDE DEF feeds, links
<1>11. NodesShaped(seq)'
  <2>1. CASE known # 0
    <3>1. UNCHANGED nodes /\ seq = s.nodes
      BY <1>2, <1>7, <2>1 DEF OneToMany
    <3>2. PICK old : old = s.nodes
      OBVIOUS
    <3>3. NodesShaped(old)'
      BY <1>1, <1>3, <1>5, <3>1, <3>2, NodesShapedStay DEF Advance
    <3>4. QED
      BY <3>1, <3>2, <3>3
  <2>2. CASE known = 0
    <3>1. PICK node : node = [kind |-> "splitted", id |-> SplittedId(src), url |-> execs[src][1].url, name |-> SourceName,
                              ports |-> <<SourceName>>, strategies |-> Strategies, count |-> n]
      OBVIOUS
    <3>2. nodes' = Append(nodes, node)
      BY <1>2, <2>2, <3>1 DEF OneToMany
    <3>3. node.id = IdFor("splitted", src) /\ node.url = Urls(src)[1]
      BY <1>3, <3>1 DEF IdFor
    <3>4. PICK old, url : old = s.nodes /\ url = Urls(src)[1]
      OBVIOUS
    <3>5. seq = Append(old, [kind |-> "splitted", source |-> src, url |-> url])
      BY <1>7, <2>2, <3>4
    <3>6. UNCHANGED <<conf, execs>> /\ url \in Url /\ NodesShaped(old) /\ node.url = url
      BY <1>1, <1>3, <1>5, <3>3, <3>4 DEF Advance
    <3>7. QED
      BY <1>3, <3>2, <3>3, <3>5, <3>6, NodesShapedGrow
  <2>3. QED
    BY <2>1, <2>2
<1>12. channels' = channels \o FeedsAfter(s, t, dep) \o LinksAfter(s, t, dep)
  BY <1>8, <1>9, <1>10
<1>13. QED
  BY <1>1, <1>2, <1>11, <1>12, ShapeStep
-----------------------------------------------------------------------------
(***************************************************************************)
(* The history of a run, as far as it has come; after an edit, that of the *)
(* first run to its end, the ids that it had then, and how far the second  *)
(* has followed it.                                                        *)
(***************************************************************************)
Begin == [phase |-> "transitions", at |-> <<1, 1>>, nodes |-> <<>>, channels |-> <<>>]
Story(h, K) ==
  /\ K \in Nat /\ h[0] = Begin
  /\ \A k \in 0 .. K - 1 : h[k].phase # "over" /\ h[k + 1] = Effect(h[k])

\* getDependencies() and calculateExecutionIds() of a graph that is given.
DependenciesAmong(all, links, bound, n) ==
  LET deps[depth \in 0 .. bound] ==
        [m \in all |->
           IF depth = 0 THEN <<>> ELSE FlattenSeq([i \in DOMAIN links |->
             IF links[i].target # m THEN <<>>
             ELSE <<links[i].source>> \o deps[depth - 1][links[i].source]])]
  IN  deps[bound][n]

QueriesIn == UNION {{<<q, i>> : i \in DOMAIN Urls(q)} : q \in Queries}
NodesIn(s) == QueriesIn \cup {<<Zero, k>> : k \in DOMAIN s.nodes}
DependenciesIn(s, n) == DependenciesAmong(NodesIn(s), s.channels, Cardinality(QueriesIn) + Len(s.nodes), n)
TextIn(s, text, n) ==
  IF n[1] = Zero THEN <<s.nodes[n[2]].url, "query">> ELSE <<Urls(n[1])[n[2]], text[n[1]]>>
IdIn(s, text, n) ==
  <<TextIn(s, text, n),
    Counts([i \in DOMAIN DependenciesIn(s, n) |-> TextIn(s, text, DependenciesIn(s, n)[i])])>>

Told == phase \in {"transitions", "ids", "done"} /\ ~Uninitialised

FirstRun ==
  edited = Zero /\ Told /\ PartedBy(conf.text) => \E h, K : Story(h, K) /\ IsShape(h[K])

SecondRun ==
  edited # Zero => \E text :
    /\ \A q \in Queries \ {edited} : text[q] = conf.text[q]
    /\ \A q \in Queries : \A i \in DOMAIN Urls(q) : earlier[<<q, i>>][1] = <<Urls(q)[i], text[q]>>
    /\ PartedBy(text) =>
         /\ PartedBy(conf.text)
         /\ \E h, K :
              /\ Story(h, K) /\ h[K].phase = "over"
              /\ \A n \in NodesIn(h[K]) : earlier[n] = IdIn(h[K], text, n)
              /\ Told => \E k \in 0 .. K : IsShape(h[k])

HistoryInv == FirstRun /\ SecondRun

-----------------------------------------------------------------------------
\* What is said without the texts stays true when a text is edited.
LEMMA StoryStays ==
  ASSUME conf'.database = conf.database, conf'.own = conf.own, conf'.size = conf.size, conf'.deps = conf.deps
  PROVE  /\ \A q : Urls(q)' = Urls(q)
         /\ \A s : Effect(s)' = Effect(s)
         /\ \A h, K : Story(h, K)' <=> Story(h, K)
         /\ \A text : PartedBy(text)' <=> PartedBy(text)
         /\ \A s : NodesIn(s)' = NodesIn(s)
         /\ \A s, text, n : IdIn(s, text, n)' = IdIn(s, text, n)
<1>1. \A q : Urls(q)' = Urls(q)
  BY DEF Urls
<1>2. \A dep : Picked(dep)' = Picked(dep)
  BY <1>1 DEF Picked
<1>3. \A q, dep : (Joins(q, dep)' <=> Joins(q, dep)) /\ (Parts(q, dep)' <=> Parts(q, dep))
  BY <1>1, <1>2 DEF Joins, Parts
<1>4. \A q : HeadName(q)' = HeadName(q)
  BY <1>1 DEF HeadName, ExecName
<1>5. ASSUME NEW s, NEW q, NEW dep PROVE NodesAfter(s, q, dep)' = NodesAfter(s, q, dep)
  BY <1>1, <1>3 DEF NodesAfter, With, Known
<1>6. ASSUME NEW s, NEW q, NEW dep PROVE FeedsAfter(s, q, dep)' = FeedsAfter(s, q, dep)
  BY <1>1, <1>3, <1>4 DEF FeedsAfter, Known
<1>7. ASSUME NEW s, NEW q, NEW dep PROVE LinksAfter(s, q, dep)' = LinksAfter(s, q, dep)
  BY <1>1, <1>2, <1>3, <1>4 DEF LinksAfter, NumberOf, Known
<1>8. ASSUME NEW s PROVE Effect(s)' = Effect(s)
  BY <1>5, <1>6, <1>7 DEF Effect
<1>9. \A h, K : Story(h, K)' <=> Story(h, K)
  BY <1>8 DEF Story
<1>10. \A text : PartedBy(text)' <=> PartedBy(text)
  BY <1>1 DEF PartedBy
<1>11. QueriesIn' = QueriesIn
  BY <1>1 DEF QueriesIn
<1>12. \A s : NodesIn(s)' = NodesIn(s)
  BY <1>11 DEF NodesIn
<1>13. \A s, n : DependenciesIn(s, n)' = DependenciesIn(s, n)
  BY <1>11, <1>12 DEF DependenciesIn
<1>14. \A s, text, n : TextIn(s, text, n)' = TextIn(s, text, n)
  BY <1>1 DEF TextIn
<1>15. \A s, text, n : IdIn(s, text, n)' = IdIn(s, text, n)
  BY <1>13, <1>14 DEF IdIn
<1>16. QED
  BY <1>1, <1>8, <1>9, <1>10, <1>12, <1>15

\* A story goes on.
LEMMA StoryGoesOn ==
  ASSUME NEW h, NEW K, Story(h, K), h[K].phase # "over"
  PROVE  \E g, L : Story(g, L) /\ g[L] = Effect(h[K])
<1>1. K \in Nat
  BY DEF Story
<1>2. PICK g : g = [k \in 0 .. K + 1 |-> IF k = K + 1 THEN Effect(h[K]) ELSE h[k]]
  OBVIOUS
<1>3. \A k \in 0 .. K : g[k] = h[k]
  BY <1>1, <1>2
<1>4. g[K + 1] = Effect(h[K])
  BY <1>1, <1>2
<1>5. ASSUME NEW k \in 0 .. (K + 1) - 1 PROVE g[k].phase # "over" /\ g[k + 1] = Effect(g[k])
  <2>1. CASE k = K
    BY <1>1, <1>3, <1>4, <2>1
  <2>2. CASE k # K
    <3>1. k \in 0 .. K - 1 /\ k \in 0 .. K /\ k + 1 \in 0 .. K
      BY <1>1, <2>2
    <3>2. QED
      BY <1>3, <3>1 DEF Story
  <2>3. QED
    BY <2>1, <2>2
<1>6. K + 1 \in Nat /\ g[0] = Begin
  BY <1>1, <1>3 DEF Story
<1>7. Story(g, K + 1)
  BY <1>5, <1>6 DEF Story
<1>8. QED
  BY <1>4, <1>7

\* A step that stays, moves on or begins is one of both runs.
Stays == Told /\ \A s : IsShape(s) => IsShape(s)'
Moves == Told /\ phase = "transitions" /\ \A s, e : IsShape(s) /\ e = Effect(s) => IsShape(e)'
Begins == \A s : s = Begin => IsShape(s)'

\* What a run did so far is kept where its graph stays, moves on or begins.
LEMMA HistoryKept ==
  ASSUME HistoryInv, UNCHANGED <<conf, edited, earlier>>,
         Told' /\ PartedBy(conf.text) => Stays \/ Moves \/ Begins
  PROVE  HistoryInv'
<1>1. /\ \A q : Urls(q)' = Urls(q)
      /\ \A h, K : Story(h, K)' <=> Story(h, K)
      /\ \A text : PartedBy(text)' <=> PartedBy(text)
      /\ \A s : NodesIn(s)' = NodesIn(s)
      /\ \A s, text, n : IdIn(s, text, n)' = IdIn(s, text, n)
  BY StoryStays
<1>2. FirstRun'
  <2>1. SUFFICES ASSUME edited = Zero, Told', PartedBy(conf.text)
                 PROVE  \E h, K : Story(h, K) /\ IsShape(h[K])'
    BY <1>1 DEF FirstRun
  <2>2. CASE Stays
    <3>1. PICK h, K : Story(h, K) /\ IsShape(h[K])
      BY <2>1, <2>2 DEF HistoryInv, FirstRun, Stays
    <3>2. QED
      BY <2>2, <3>1 DEF Stays
  <2>3. CASE Moves
    <3>1. PICK h, K : Story(h, K) /\ IsShape(h[K])
      BY <2>1, <2>3 DEF HistoryInv, FirstRun, Moves
    <3>2. h[K].phase # "over"
      BY <2>3, <3>1 DEF Moves, IsShape
    <3>3. PICK g, L : Story(g, L) /\ g[L] = Effect(h[K])
      BY <3>1, <3>2, StoryGoesOn
    <3>4. QED
      BY <2>3, <3>1, <3>3 DEF Moves
  <2>4. CASE Begins
    <3>1. PICK h : h = [k \in {0} |-> Begin]
      OBVIOUS
    <3>2. 0 \in Nat /\ h[0] = Begin /\ 0 .. 0 - 1 = {}
      BY <3>1
    <3>3. Story(h, 0)
      BY <3>2 DEF Story
    <3>4. QED
      BY <2>4, <3>2, <3>3 DEF Begins
  <2>5. QED
    BY <2>1, <2>2, <2>3, <2>4
<1>3. SecondRun'
  <2>1. SUFFICES ASSUME edited # Zero PROVE SecondRun'
    BY DEF SecondRun
  <2>2. PICK text :
          /\ \A q \in Queries \ {edited} : text[q] = conf.text[q]
          /\ \A q \in Queries : \A i \in DOMAIN Urls(q) : earlier[<<q, i>>][1] = <<Urls(q)[i], text[q]>>
          /\ PartedBy(text) =>
               /\ PartedBy(conf.text)
               /\ \E h, K :
                    /\ Story(h, K) /\ h[K].phase = "over"
                    /\ \A n \in NodesIn(h[K]) : earlier[n] = IdIn(h[K], text, n)
                    /\ Told => \E k \in 0 .. K : IsShape(h[k])
    BY <2>1 DEF HistoryInv, SecondRun
  <2>3. ASSUME PartedBy(text)
        PROVE  \E h, K :
                    /\ Story(h, K) /\ h[K].phase = "over"
                    /\ \A n \in NodesIn(h[K]) : earlier[n] = IdIn(h[K], text, n)
                    /\ Told' => \E k \in 0 .. K : IsShape(h[k])'
    <3>1. PICK h, K :
            /\ Story(h, K) /\ h[K].phase = "over"
            /\ \A n \in NodesIn(h[K]) : earlier[n] = IdIn(h[K], text, n)
            /\ Told => \E k \in 0 .. K : IsShape(h[k])
      BY <2>2, <2>3
    <3>2. K \in Nat /\ h[0] = Begin /\ \A k \in 0 .. K - 1 : h[k + 1] = Effect(h[k])
      BY <3>1 DEF Story
    <3>3. ASSUME Told' PROVE \E k \in 0 .. K : IsShape(h[k])'
      <4>1. PartedBy(conf.text)
        BY <2>2, <2>3
      <4>2. CASE Stays
        BY <3>1, <4>2 DEF Stays
      <4>3. CASE Moves
        <5>1. PICK k \in 0 .. K : IsShape(h[k])
          BY <3>1, <4>3 DEF Moves
        <5>2. k # K
          BY <3>1, <4>3, <5>1 DEF Moves, IsShape
        <5>3. k \in 0 .. K - 1 /\ k + 1 \in 0 .. K
          BY <3>2, <5>2
        <5>4. IsShape(h[k + 1])'
          BY <3>2, <4>3, <5>1, <5>3 DEF Moves
        <5>5. QED
          BY <5>3, <5>4
      <4>4. CASE Begins
        <5>1. 0 \in 0 .. K
          BY <3>2
        <5>2. QED
          BY <3>2, <4>4, <5>1 DEF Begins
      <4>5. QED
        BY <3>3, <4>1, <4>2, <4>3, <4>4
    <3>4. QED
      BY <3>1, <3>3
  <2>4. PartedBy(text) =>
               /\ PartedBy(conf.text)'
               /\ \E h, K :
                    /\ Story(h, K)' /\ h[K].phase = "over"
                    /\ \A n \in NodesIn(h[K])' : earlier'[n] = IdIn(h[K], text, n)'
                    /\ Told' => \E k \in 0 .. K : IsShape(h[k])'
    BY <1>1, <2>2, <2>3
  <2>5. /\ \A q \in Queries \ {edited'} : text[q] = conf'.text[q]
        /\ \A q \in Queries : \A i \in DOMAIN Urls(q)' : earlier'[<<q, i>>][1] = <<Urls(q)'[i], text[q]>>
    BY <1>1, <2>2
  <2>6. QED
    BY <1>1, <2>4, <2>5 DEF SecondRun
<1>4. QED
  BY <1>2, <1>3 DEF HistoryInv
-----------------------------------------------------------------------------
\* The ids of a graph are those of its shape, with the texts there are.
LEMMA NodesOfShape ==
  ASSUME Complete, NEW s, IsShape(s)
  PROVE  /\ QueriesIn = QueryNodes /\ NodesIn(s) = Nodes
         /\ \A n \in Nodes : DependenciesIn(s, n) = Dependencies(n)
<1>1. QueriesIn = QueryNodes
  <2>1. \A q \in Queries : DOMAIN Urls(q) = DOMAIN execs[q]
    BY ExecutionsMade DEF Complete
  <2>2. \A q \in Queries : {<<q, i>> : i \in DOMAIN Urls(q)} = {<<q, i>> : i \in DOMAIN execs[q]}
    BY <2>1
  <2>3. QED
    BY <2>2 DEF QueriesIn, QueryNodes
<1>2. s.channels = channels /\ Len(s.nodes) = Len(nodes) /\ DOMAIN s.nodes = DOMAIN nodes
  BY LenProperties DEF IsShape, NodesShaped, Complete
<1>3. NodesIn(s) = Nodes
  BY <1>1, <1>2 DEF NodesIn, Nodes, TransitionNodes
<1>4. ASSUME NEW n \in Nodes PROVE DependenciesIn(s, n) = Dependencies(n)
  <2>1. Dependencies(n) = DependenciesAmong(QueryNodes \cup TransitionNodes, channels,
                                            Cardinality(QueryNodes) + Len(nodes), n)
    BY DEF Dependencies, DependenciesAmong
  <2>2. QED
    BY <1>1, <1>2, <1>3, <2>1 DEF DependenciesIn, Nodes
<1>5. QED
  BY <1>1, <1>3, <1>4

\* The ids too.
LEMMA IdsOfShape ==
  ASSUME Complete, NEW s, IsShape(s), NEW n \in Nodes
  PROVE  ExecutionId(n) = IdIn(s, conf.text, n)
<1>1. ASSUME NEW m \in Nodes PROVE TextOf(m) = TextIn(s, conf.text, m)
  <2>1. CASE m \in TransitionNodes
    <3>1. PICK k \in DOMAIN nodes : m = <<Zero, k>>
      BY <2>1 DEF TransitionNodes
    <3>2. nodes[k].url = s.nodes[k].url
      BY DEF IsShape, NodesShaped
    <3>3. TextOf(m) = <<nodes[k].url, "query">>
      BY <3>1 DEF TextOf, Node
    <3>4. QED
      BY <3>1, <3>2, <3>3 DEF TextIn
  <2>2. CASE m \in QueryNodes
    <3>1. PICK q, i : q \in Queries /\ i \in DOMAIN execs[q] /\ m = <<q, i>>
      BY <2>2 DEF QueryNodes
    <3>2. q # 0
      BY <3>1, QueriesAreNumbers
    <3>3. TextOf(m) = <<execs[q][i].url, conf.text[q]>>
      <4>1. Text(<<q, i>>) = <<execs[q][i].url, conf.text[q]>>
        BY <3>1, TransitionIds DEF Complete
      <4>2. TextOf(m) = Text(<<q, i>>) /\ m[1] = q
        BY <3>1, <3>2 DEF TextOf
      <4>3. QED
        BY <4>1, <4>2
    <3>4. execs[q][i].url = Urls(q)[i]
      <4>1. conf \in ConfigurationsOf(STRING) /\ execs[q] = Executions(q) /\ DOMAIN execs[q] = DOMAIN Urls(q)
        BY <3>1, ExecutionsMade DEF Complete, Populated
      <4>2. QED
        BY <3>1, <4>1, ExecutionsOfQuery
    <3>5. TextIn(s, conf.text, m) = <<Urls(q)[i], conf.text[q]>>
      <4>1. m[1] = q /\ m[2] = i
        BY <3>1
      <4>2. QED
        BY <3>2, <4>1 DEF TextIn
    <3>6. QED
      BY <3>3, <3>4, <3>5
  <2>3. QED
    BY <2>1, <2>2 DEF Nodes
<1>2. PICK deps : deps = Dependencies(n)
  OBVIOUS
<1>3. DependenciesIn(s, n) = deps
  BY <1>2, NodesOfShape
<1>4. \A i \in DOMAIN deps : deps[i] \in Nodes
  <2>1. ToSet(deps) \subseteq Nodes
    BY <1>2, IdOfNode
  <2>2. QED
    BY <2>1 DEF ToSet
<1>5. [i \in DOMAIN deps |-> TextOf(deps[i])] = [i \in DOMAIN deps |-> TextIn(s, conf.text, deps[i])]
  BY <1>1, <1>4
<1>6. QED
  BY <1>1, <1>2, <1>3, <1>5 DEF ExecutionId, IdIn

\* A text that no id contains does not change it.
LEMMA IdSpared ==
  ASSUME Complete, NEW s, IsShape(s), NEW n \in Nodes, NEW text, NEW e,
         \A q \in Queries \ {e} : text[q] = conf.text[q],
         \A m \in {n} \cup ToSet(Dependencies(n)) : m[1] # e
  PROVE  IdIn(s, text, n) = IdIn(s, conf.text, n)
<1>1. PICK deps : deps = Dependencies(n)
  OBVIOUS
<1>2. DependenciesIn(s, n) = deps
  BY <1>1, NodesOfShape
<1>3. ASSUME NEW m \in Nodes, m[1] # e PROVE TextIn(s, text, m) = TextIn(s, conf.text, m)
  <2>1. m[1] = Zero \/ m[1] \in Queries
    BY DEF Nodes, QueryNodes, TransitionNodes
  <2>2. QED
    BY <1>3, <2>1 DEF TextIn
<1>4. \A i \in DOMAIN deps : deps[i] \in Nodes /\ deps[i][1] # e
  <2>1. ToSet(deps) \subseteq Nodes
    BY <1>1, IdOfNode
  <2>2. \A i \in DOMAIN deps : deps[i] \in ToSet(deps)
    BY DEF ToSet
  <2>3. QED
    BY <1>1, <2>1, <2>2
<1>5. [i \in DOMAIN deps |-> TextIn(s, text, deps[i])] = [i \in DOMAIN deps |-> TextIn(s, conf.text, deps[i])]
  BY <1>3, <1>4
<1>6. QED
  BY <1>2, <1>3, <1>5 DEF IdIn

-----------------------------------------------------------------------------
\* The user writes a text: what the first run did is kept.
LEMMA EditHistory ==
  ASSUME IInv, HistoryInv, NEW q \in Queries, Edit(q)
  PROVE  HistoryInv'
<1>1. /\ phase = "done" /\ edited = Zero /\ edited' = q /\ earlier' = ids
      /\ conf' = [conf EXCEPT !.text[q] = NewText] /\ phase' = "urls" /\ q # 0
  BY QueriesAreNumbers DEF Edit, Starts
<1>2. /\ Complete /\ ~Uninitialised /\ (\A r \in Queries : conf.text[r] # NewText)
      /\ ids = [n \in Nodes |-> ExecutionId(n)] /\ conf \in ConfigurationsOf(STRING)
  BY <1>1 DEF IInv, TypeOK, GraphInv, IdsFit, Complete, Nodes
<1>3. /\ conf'.database = conf.database /\ conf'.own = conf.own /\ conf'.size = conf.size /\ conf'.deps = conf.deps
      /\ conf'.text = [conf.text EXCEPT ![q] = NewText] /\ conf.text \in [Queries -> STRING]
  BY <1>1, <1>2 DEF ConfigurationsOf
<1>4. /\ \A r : Urls(r)' = Urls(r)
      /\ \A h, K : Story(h, K)' <=> Story(h, K)
      /\ \A text : PartedBy(text)' <=> PartedBy(text)
      /\ \A s : NodesIn(s)' = NodesIn(s)
      /\ \A s, text, n : IdIn(s, text, n)' = IdIn(s, text, n)
  BY <1>3, StoryStays
<1>5. PICK old, new : old = conf.text /\ new = conf'.text
  OBVIOUS
<1>6. \A r \in Queries \ {q} : old[r] = new[r]
  BY <1>3, <1>5
<1>7. ASSUME NEW r \in Queries, NEW i \in DOMAIN Urls(r) PROVE ids[<<r, i>>][1] = <<Urls(r)[i], old[r]>>
  <2>1. i \in DOMAIN execs[r] /\ execs[r] = Executions(r)
    BY <1>2, ExecutionsMade DEF Complete, Populated
  <2>2. <<r, i>> \in Nodes
    BY <2>1 DEF Nodes, QueryNodes
  <2>3. ids[<<r, i>>][1] = TextOf(<<r, i>>)
    BY <1>2, <2>2, IdOfNode
  <2>4. r # 0
    BY QueriesAreNumbers
  <2>5. Text(<<r, i>>) = <<execs[r][i].url, conf.text[r]>>
    BY <1>2, <2>1, TransitionIds DEF Complete
  <2>6. execs[r][i].url = Urls(r)[i]
    BY <1>2, <2>1, ExecutionsOfQuery
  <2>7. TextOf(<<r, i>>) = Text(<<r, i>>)
    <3>1. PICK m : m = <<r, i>>
      OBVIOUS
    <3>2. m[1] # 0
      BY <2>4, <3>1
    <3>3. TextOf(m) = Text(m)
      BY <3>2 DEF TextOf
    <3>4. QED
      BY <3>1, <3>3
  <2>8. QED
    BY <1>5, <2>3, <2>5, <2>6, <2>7
<1>8. ASSUME PartedBy(old) PROVE PartedBy(new)
  <2>1. SUFFICES ASSUME NEW r \in Queries, NEW t \in Queries, NEW i \in DOMAIN Urls(r), NEW j \in DOMAIN Urls(t),
                        <<Urls(r)[i], new[r]>> = <<Urls(t)[j], new[t]>>
                 PROVE  r = t /\ i = j
    BY DEF PartedBy
  <2>2. new[q] = NewText /\ \A u \in Queries : old[u] # NewText
    BY <1>2, <1>3, <1>5
  <2>3. r = q <=> t = q
    BY <1>6, <2>1, <2>2
  <2>4. old[r] = old[t]
    BY <1>6, <2>1, <2>3
  <2>5. QED
    BY <1>8, <2>1, <2>4 DEF PartedBy
<1>9. ASSUME PartedBy(old)
      PROVE  \E h, K : /\ Story(h, K) /\ h[K].phase = "over"
                       /\ \A n \in NodesIn(h[K]) : ids[n] = IdIn(h[K], old, n)
  <2>1. PICK h, K : Story(h, K) /\ IsShape(h[K])
    BY <1>1, <1>2, <1>5, <1>9 DEF HistoryInv, FirstRun, Told
  <2>2. PICK s : s = h[K]
    OBVIOUS
  <2>3. s.phase = "over"
    BY <1>1, <2>1, <2>2 DEF IsShape
  <2>4. NodesIn(s) = Nodes
    BY <1>2, <2>1, <2>2, NodesOfShape
  <2>5. \A n \in Nodes : ids[n] = IdIn(s, old, n)
    BY <1>2, <1>5, <2>1, <2>2, IdsOfShape
  <2>6. QED
    BY <2>1, <2>2, <2>3, <2>4, <2>5
<1>10. ~Told'
  BY <1>1 DEF Told
<1>11. /\ \A r \in Queries \ {edited'} : old[r] = new[r]
       /\ \A r \in Queries : \A i \in DOMAIN Urls(r)' : earlier'[<<r, i>>][1] = <<Urls(r)'[i], old[r]>>
  <2>1. ASSUME NEW r \in Queries, NEW i \in DOMAIN Urls(r)' PROVE earlier'[<<r, i>>][1] = <<Urls(r)'[i], old[r]>>
    <3>1. Urls(r)' = Urls(r)
      BY <1>4
    <3>2. QED
      BY <1>1, <1>7, <3>1
  <2>2. ASSUME NEW r \in Queries \ {edited'} PROVE old[r] = new[r]
    <3>1. edited' = q
      BY <1>1
    <3>2. QED
      BY <1>6, <2>2, <3>1
  <2>3. QED
    BY <2>1, <2>2
<1>12. SecondRun'
  <2>1. PartedBy(new) => PartedBy(conf.text)'
    BY <1>4, <1>5 DEF PartedBy
  <2>2. PartedBy(old) =>
          /\ PartedBy(conf.text)'
          /\ \E h, K : /\ Story(h, K)' /\ h[K].phase = "over"
                       /\ \A n \in NodesIn(h[K])' : earlier'[n] = IdIn(h[K], old, n)'
                       /\ Told' => \E k \in 0 .. K : IsShape(h[k])'
    BY <1>1, <1>4, <1>8, <1>9, <1>10, <2>1
  <2>3. \A r \in Queries \ {edited'} : old[r] = conf'.text[r]
    BY <1>5, <1>11
  <2>4. \A r \in Queries : \A i \in (DOMAIN Urls(r))' : earlier'[<<r, i>>][1] = <<Urls(r)[i]', old[r]>>
    BY <1>11
  <2>5. \E text :
          /\ \A r \in Queries \ {edited'} : text[r] = conf'.text[r]
          /\ \A r \in Queries : \A i \in (DOMAIN Urls(r))' : earlier'[<<r, i>>][1] = <<Urls(r)[i]', text[r]>>
          /\ PartedBy(text)' =>
               /\ PartedBy(conf.text)'
               /\ \E h, K : /\ Story(h, K)' /\ h[K].phase = "over"
                            /\ \A n \in NodesIn(h[K])' : earlier'[n] = IdIn(h[K], text, n)'
                            /\ Told' => \E k \in 0 .. K : IsShape(h[k])'
    BY <1>4, <2>2, <2>3, <2>4
  <2>6. QED
    BY <2>5 DEF SecondRun
<1>13. FirstRun'
  BY <1>10 DEF FirstRun
<1>14. QED
  BY <1>12, <1>13 DEF HistoryInv

\* A dependency that is next moves both runs on.
LEMMA MoveHistory ==
  ASSUME IInv, HistoryInv, UNCHANGED <<conf, edited, earlier>>, phase = "transitions",
         ~Uninitialised' => ~Uninitialised,
         PartedBy(conf.text) => \A s, e : IsShape(s) /\ e = Effect(s) => IsShape(e)'
  PROVE  HistoryInv'
<1>1. Told' /\ PartedBy(conf.text) => Moves
  BY DEF Told, Moves
<1>2. QED
  BY <1>1, HistoryKept

\* And a graph that stays is followed as it was.
LEMMA StayHistory ==
  ASSUME IInv, HistoryInv, UNCHANGED <<conf, edited, earlier, at, execs, nodes, channels>>,
         phase' = phase \/ phase' = "failed" \/ (phase = "ids" /\ phase' = "done")
  PROVE  HistoryInv'
<1>1. conf \in ConfigurationsOf(STRING) /\ nodes \in Seq(TransitionType)
  BY DEF IInv, TypeOK
<1>2. Told' => Stays
  <2>1. SUFFICES ASSUME Told' PROVE Stays
    OBVIOUS
  <2>2. Told /\ (phase' = "transitions" <=> phase = "transitions")
    BY <2>1 DEF Told, Uninitialised
  <2>3. ASSUME NEW s, IsShape(s) PROVE IsShape(s)'
    <3>1. PICK seq : seq = s.nodes
      OBVIOUS
    <3>2. NodesShaped(seq)'
      BY <1>1, <2>3, <3>1, NodesShapedStay DEF IsShape
    <3>3. QED
      BY <2>2, <2>3, <3>1, <3>2 DEF IsShape
  <2>4. QED
    BY <2>2, <2>3 DEF Stays
<1>3. QED
  BY <1>2, HistoryKept

\* The graph is begun when the last query has its urls.
LEMMA BeginHistory ==
  ASSUME IInv, HistoryInv, PopulateUrls
  PROVE  HistoryInv'
<1>1. /\ phase = "urls" /\ phase' = NextQuery[1] /\ at' = <<NextQuery[2], 1>>
      /\ UNCHANGED <<conf, edited, earlier, nodes, channels, ids>>
  BY DEF PopulateUrls
<1>2. nodes = <<>> /\ channels = <<>>
  BY <1>1 DEF IInv, GraphInv, Populating
<1>3. Told' => Begins
  <2>1. SUFFICES ASSUME Told' PROVE Begins
    OBVIOUS
  <2>2. phase' = "transitions" /\ at' = <<1, 1>>
    BY <1>1, <2>1 DEF Told, NextQuery
  <2>3. ASSUME NEW s, s = Begin PROVE IsShape(s)'
    <3>1. PICK seq : seq = <<>>
      OBVIOUS
    <3>2. seq \in Seq(ShapeType) /\ Len(seq) = Len(nodes') /\ DOMAIN nodes' = {}
      BY <1>1, <1>2, <3>1
    <3>3. NodesShaped(seq)'
      BY <3>2 DEF NodesShaped, ShapeType, Url
    <3>4. s.phase = "transitions" /\ s.at = at' /\ s.channels = channels' /\ s.nodes = seq
      BY <1>1, <1>2, <2>2, <2>3, <3>1 DEF Begin
    <3>5. QED
      BY <2>2, <3>3, <3>4 DEF IsShape
  <2>4. QED
    BY <2>3 DEF Begins
<1>4. QED
  BY <1>1, <1>3, HistoryKept
LEMMA NodesGrow ==
  ASSUME IInv, Pending,
         OneToOne \/ ManyToManyUnsharded \/ ManyToOne \/ OneToManyUnsharded \/ OneToMany \/ NoTransition
  PROVE  ~Uninitialised' => ~Uninitialised
<1>1. nodes \in Seq(TransitionType)
  BY DEF IInv, TypeOK
<1>2. nodes' = nodes \/ \E node : node.kind \in {"joined", "splitted"} /\ nodes' = Append(nodes, node)
  <2>1. CASE ManyToOne
    BY <2>1 DEF ManyToOne
  <2>2. CASE OneToMany
    BY <2>2 DEF OneToMany
  <2>3. QED
    BY <2>1, <2>2 DEF OneToOne, ManyToManyUnsharded, OneToManyUnsharded, NoTransition
<1>3. \A k \in DOMAIN nodes : k \in DOMAIN nodes' /\ nodes'[k] = nodes[k]
  <2>1. CASE nodes' = nodes
    BY <2>1
  <2>2. ASSUME NEW node, nodes' = Append(nodes, node) PROVE \A k \in DOMAIN nodes : k \in DOMAIN nodes' /\ nodes'[k] = nodes[k]
    BY <1>1, <2>2
  <2>3. QED
    BY <1>2, <2>1, <2>2
<1>4. QED
  BY <1>3 DEF Uninitialised

\* A ManyToMany that is made is never initialised.
LEMMA ShardedHistory ==
  ASSUME IInv, HistoryInv, ManyToManySharded
  PROVE  HistoryInv'
<1>1. /\ UNCHANGED <<conf, edited, earlier>>
      /\ nodes' = Append(nodes, [kind |-> "m2m", id |-> <<>>, url |-> <<>>, name |-> Default,
           ports |-> <<>>, strategies |-> Strategies, count |-> DstSize])
  BY DEF ManyToManySharded, Advance
<1>2. PICK node, n : /\ n = Len(nodes) /\ nodes' = Append(nodes, node)
                    /\ node = [kind |-> "m2m", id |-> <<>>, url |-> <<>>, name |-> Default,
                         ports |-> <<>>, strategies |-> Strategies, count |-> DstSize]
  BY <1>1
<1>3. nodes \in Seq(TransitionType) /\ n \in Nat
  BY <1>2, LenProperties DEF IInv, TypeOK
<1>4. n + 1 \in DOMAIN nodes' /\ nodes'[n + 1] = node
  BY <1>2, <1>3
<1>5. Uninitialised'
  BY <1>2, <1>4 DEF Uninitialised
<1>6. QED
  BY <1>1, <1>5, HistoryKept DEF Told

\* Each way a dependency is taken, but for the one that makes a ManyToMany.
LEMMA PendingHistory ==
  ASSUME IInv, HistoryInv,
         OneToOne \/ ManyToManyUnsharded \/ ManyToOne \/ OneToManyUnsharded \/ OneToMany \/ NoTransition
  PROVE  HistoryInv'
<1>1. Pending /\ Advance
  BY DEF OneToOne, ManyToManyUnsharded, ManyToOne, OneToManyUnsharded, OneToMany, NoTransition
<1>2. phase = "transitions" /\ UNCHANGED <<conf, edited, earlier>>
  BY <1>1 DEF Pending, Advance
<1>3. TypeOK /\ GraphInv
  BY DEF IInv
<1>4. ASSUME PartedBy(conf.text), NEW s, NEW e, IsShape(s), e = Effect(s) PROVE IsShape(e)'
  BY <1>3, <1>4, OneToOneShape, ManyToManyShape, ManyToOneShape, OneToManyUnshardedShape, OneToManyShape,
     NoTransitionShape
<1>5. ~Uninitialised' => ~Uninitialised
  BY <1>1, NodesGrow
<1>6. QED
  BY <1>2, <1>4, <1>5, MoveHistory

\* The next target moves them on as well.
LEMMA TargetHistory ==
  ASSUME IInv, HistoryInv, NextTarget
  PROVE  HistoryInv'
<1>1. phase = "transitions" /\ UNCHANGED <<conf, edited, earlier, nodes>>
  BY DEF NextTarget, graph
<1>2. TypeOK /\ GraphInv
  BY DEF IInv
<1>3. ASSUME NEW s, NEW e, IsShape(s), e = Effect(s) PROVE IsShape(e)'
  BY <1>2, <1>3, NextTargetShape
<1>4. ~Uninitialised' => ~Uninitialised
  BY <1>1 DEF Uninitialised
<1>5. QED
  BY <1>1, <1>3, <1>4, MoveHistory

\* At first there is nothing to tell.
LEMMA InitHistory ==
  ASSUME Init
  PROVE  HistoryInv
BY DEF Init, HistoryInv, FirstRun, SecondRun, Told

\* The second run repeats the first, whatever text was changed.
THEOREM SecondRunFollows == Spec => []HistoryInv
<1>1. Init => HistoryInv
  BY InitHistory
<1>2. IInv /\ HistoryInv /\ [Next]_vars => HistoryInv'
  <2>1. SUFFICES ASSUME IInv, HistoryInv, [Next]_vars PROVE HistoryInv'
    OBVIOUS
  <2>2. CASE PopulateUrls
    BY <2>1, <2>2, BeginHistory
  <2>3. CASE NoUrlFound
    BY <2>1, <2>3, StayHistory DEF NoUrlFound, graph
  <2>4. CASE OneToOne \/ ManyToManyUnsharded \/ ManyToOne \/ OneToManyUnsharded \/ OneToMany \/ NoTransition
    BY <2>1, <2>4, PendingHistory
  <2>5. CASE ManyToManySharded
    BY <2>1, <2>5, ShardedHistory
  <2>6. CASE StrategyRefuses
    BY <2>1, <2>6, StayHistory DEF StrategyRefuses, graph
  <2>7. CASE NextTarget
    BY <2>1, <2>7, TargetHistory
  <2>8. CASE CalculateIds
    BY <2>1, <2>8, StayHistory DEF CalculateIds, graph
  <2>9. CASE NoUrlOfTransition
    BY <2>1, <2>9, StayHistory DEF NoUrlOfTransition, graph
  <2>10. CASE EndlessDependencies
    BY <2>1, <2>10, StayHistory DEF EndlessDependencies, graph
  <2>11. CASE \E q \in Queries : Edit(q)
    BY <2>1, <2>11, EditHistory
  <2>12. CASE UNCHANGED vars
    BY <2>1, <2>12, StayHistory DEF vars
  <2>13. CASE Done
    BY <2>1, <2>13, StayHistory DEF Done, vars
  <2>14. QED
    BY <2>1, <2>2, <2>3, <2>4, <2>5, <2>6, <2>7, <2>8, <2>9, <2>10, <2>11, <2>12, <2>13 DEF Next
<1>3. QED
  BY <1>1, <1>2, GraphBuilt, PTL DEF Spec

\* Two runs that took the same steps give an execution that the edit does not concern one id.
LEMMA SparesFromHistory ==
  ASSUME IInv, HistoryInv
  PROVE  EditSpares
<1>1. SUFFICES ASSUME phase = "done", edited # Zero,
                      \A n, m \in QueryNodes : n # m => earlier[n][1] # earlier[m][1],
                      NEW n \in QueryNodes, \A m \in {n} \cup ToSet(Dependencies(n)) : m[1] # edited
               PROVE  ids[n] = earlier[n]
  BY DEF EditSpares
<1>2. Complete /\ ~Uninitialised /\ ids = [m \in Nodes |-> ExecutionId(m)]
  BY <1>1 DEF IInv, TypeOK, GraphInv, IdsFit, Complete, Nodes
<1>3. PICK text :
        /\ \A q \in Queries \ {edited} : text[q] = conf.text[q]
        /\ \A q \in Queries : \A i \in DOMAIN Urls(q) : earlier[<<q, i>>][1] = <<Urls(q)[i], text[q]>>
        /\ PartedBy(text) =>
             /\ PartedBy(conf.text)
             /\ \E h, K :
                  /\ Story(h, K) /\ h[K].phase = "over"
                  /\ \A m \in NodesIn(h[K]) : earlier[m] = IdIn(h[K], text, m)
                  /\ Told => \E k \in 0 .. K : IsShape(h[k])
  BY <1>1 DEF HistoryInv, SecondRun
<1>4. PartedBy(text)
  <2>1. SUFFICES ASSUME NEW q \in Queries, NEW r \in Queries, NEW i \in DOMAIN Urls(q), NEW j \in DOMAIN Urls(r),
                        <<Urls(q)[i], text[q]>> = <<Urls(r)[j], text[r]>>
                 PROVE  q = r /\ i = j
    BY DEF PartedBy
  <2>2. i \in DOMAIN execs[q] /\ j \in DOMAIN execs[r]
    BY <1>2, ExecutionsMade DEF Complete
  <2>3. <<q, i>> \in QueryNodes /\ <<r, j>> \in QueryNodes
    BY <2>2 DEF QueryNodes
  <2>4. earlier[<<q, i>>][1] = earlier[<<r, j>>][1]
    BY <1>3, <2>1
  <2>5. <<q, i>> = <<r, j>>
    BY <1>1, <2>3, <2>4
  <2>6. QED
    BY <2>5
<1>5. PICK h, K :
        /\ Story(h, K) /\ h[K].phase = "over"
        /\ \A m \in NodesIn(h[K]) : earlier[m] = IdIn(h[K], text, m)
        /\ Told => \E k \in 0 .. K : IsShape(h[k])
  BY <1>3, <1>4
<1>6. PICK k \in 0 .. K : IsShape(h[k])
  BY <1>1, <1>2, <1>5 DEF Told
<1>7. k = K
  <2>1. h[k].phase = "over"
    BY <1>1, <1>6 DEF IsShape
  <2>2. K \in Nat /\ \A l \in 0 .. K - 1 : h[l].phase # "over"
    BY <1>5 DEF Story
  <2>3. QED
    BY <2>1, <2>2
<1>8. PICK s : s = h[K]
  OBVIOUS
<1>9. IsShape(s) /\ n \in Nodes /\ NodesIn(s) = Nodes
  BY <1>2, <1>6, <1>7, <1>8, NodesOfShape DEF Nodes
<1>10. earlier[n] = IdIn(s, text, n)
  BY <1>5, <1>8, <1>9
<1>11. IdIn(s, text, n) = IdIn(s, conf.text, n)
  BY <1>1, <1>2, <1>3, <1>9, IdSpared
<1>12. ids[n] = IdIn(s, conf.text, n)
  BY <1>2, <1>9, IdsOfShape
<1>13. QED
  BY <1>10, <1>11, <1>12

\* And no result is lost that the edit does not concern, where all urls and texts differ.
THEOREM EditsSpare == Spec => []EditSpares
<1>1. IInv /\ HistoryInv => EditSpares
  BY SparesFromHistory
<1>2. QED
  BY <1>1, GraphBuilt, SecondRunFollows, PTL
=============================================================================
