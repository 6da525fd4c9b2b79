------------------------------ MODULE Registries ------------------------------
(***************************************************************************)
(* Where a query is run and by what: urls, the two registries that know    *)
(* the servers, and the extensions that provide the executions.            *)
(***************************************************************************)
EXTENDS Outcomes, Integers, Sequences, FiniteSets, SequencesExt, FiniteSetsExt, TLC

-----------------------------------------------------------------------------
(***************************************************************************)
(* Url.  The path and the parameters of a text come split (libxml2).       *)
(***************************************************************************)
NewUrl == [protocol |-> "", host |-> "", port |-> "", path |-> <<>>, parameters |-> <<>>,
           user |-> "", password |-> ""]

\* Of each item of the query, split at "=": a key alone has the value "".
ParseParameters(items) ==
  IF \E i \in ToSet(items) : Len(i) \notin {1, 2} THEN Throws
  ELSE [k \in {i[1] : i \in ToSet(items)} |->
          LET last == items[SelectLastInSeq(items, LAMBDA i : i[1] = k)]
          IN  IF Len(last) = 1 THEN "" ELSE last[2]]

\* Leading slashes are skipped; an item between two slashes is kept, though it is empty.
SetPath(url, items) ==
  LET first == SelectInSeq(items, LAMBDA i : i # "")
  IN  [url EXCEPT !.path = IF first = 0 THEN <<>> ELSE SubSeq(items, first, Len(items))]

\* The part of a text after "?": "&" after each parameter but the last, and after this one
\* before the credentials, which only a url with parameters shows.
Encoded(word) == <<"encoded", word>>
UrlText(url, includeParameters, includeCredentials, maskPassword) ==
  LET keys == SetToSeq(DOMAIN url.parameters)
      Item(i) == <<Encoded(keys[i]), "=", Encoded(url.parameters[keys[i]])>>
                   \o (IF i # Len(keys) \/ includeCredentials THEN <<"&">> ELSE <<>>)
      credentials == <<"user", "=", url.user, "&", "password", "=",
                       IF maskPassword THEN "xxxxxxxx" ELSE url.password>>
  IN  <<url.protocol, url.host, url.port>> \o url.path
        \o IF ~includeParameters \/ keys = <<>> THEN <<>>
           ELSE <<"?">> \o FlattenSeq([i \in DOMAIN keys |-> Item(i)])
                  \o (IF includeCredentials THEN credentials ELSE <<>>)

\* matches(): "*" stands for anything, and the longer of two paths may go on.
Fits(pattern, value) == pattern \in {"*", value}
MatchesUrl(url, wildcard) ==
  /\ Fits(wildcard.protocol, url.protocol) /\ Fits(wildcard.host, url.host) /\ Fits(wildcard.port, url.port)
  /\ \A i \in DOMAIN url.path \cap DOMAIN wildcard.path : Fits(wildcard.path[i], url.path[i])

-----------------------------------------------------------------------------
(***************************************************************************)
(* UrlRegistry.  A document is its elements, parents before children: each *)
(* is [parent, name, value, id, ref, worker], parent 0 for an environment, *)
(* whose value is its name; of a match, value is the expression.  worker   *)
(* is the type of query the element is the worker of.  What is under       *)
(* globals has the parent -1 and is reached by a ref only.                 *)
(***************************************************************************)
UrlParts == {"protocol", "host", "port", "path"}
Children(doc, n) == {k \in DOMAIN doc : doc[k].parent = n}
ElementById(doc, id) == Max({k \in DOMAIN doc : doc[k].id = id})

\* recurse(): a url goes on in the elements below, or below the element of a ref.
HasTarget(doc, n) == \E k \in DOMAIN doc : doc[k].id = doc[n].ref
Below(doc, n) ==
  IF doc[n].name = "match" THEN {}
  ELSE IF doc[n].value # None THEN Children(doc, n)
  ELSE IF doc[n].ref # None /\ HasTarget(doc, n) THEN Children(doc, ElementById(doc, doc[n].ref))
  ELSE {}
Chains(doc, env) ==
  LET chains[i \in 1 .. Len(doc) + 1] ==
        IF i = 1 THEN {<<k>> : k \in Children(doc, env)}
        ELSE UNION {{Append(c, k) : k \in Below(doc, Last(c))} : c \in chains[i - 1]}
  IN  chains
Grown(url, e) ==
  CASE e.value = None \/ e.name \notin UrlParts -> url
    [] e.name = "path" -> [url EXCEPT !.path = Append(@, e.value)]
    [] OTHER -> [url EXCEPT ![e.name] = e.value]

\* The urls of an environment: of the chains to an element without any below.  A ref that
\* leads nowhere is a null pointer, one that leads back to itself never ends.
IsLeaf(doc, n) == doc[n].value # None /\ doc[n].name # "match" /\ Children(doc, n) = {}
RecurseUrls(doc, env) ==
  LET chains == Chains(doc, env)
      all == UNION {chains[i] : i \in DOMAIN chains}
      Url(c) == FoldLeft(LAMBDA url, k : Grown(url, doc[k]), NewUrl, c)
  IN  IF \/ chains[Len(doc) + 1] # {}
         \/ \E c \in all : doc[Last(c)].value = None /\ doc[Last(c)].ref # None /\ ~HasTarget(doc, Last(c))
      THEN Aborts
      ELSE {Url(c) : c \in {d \in all : IsLeaf(doc, Last(d))}}

\* getUrl(): up from an element.  Of two hosts the outer one stays, of two refs, too.
Upwards(doc, n) ==
  LET up[k \in 0 .. Len(doc)] == IF k = 0 THEN <<>> ELSE Append(up[IF doc[k].parent < 0 THEN 0 ELSE doc[k].parent], k)
  IN  up[n]
UrlOf(doc, n) ==
  LET outwards == Reverse(Upwards(doc, n))
      url == FoldLeft(LAMBDA u, k : Grown(u, doc[k]), NewUrl, outwards)
  IN  IF \E k \in ToSet(outwards) : doc[k].name \in UrlParts /\ doc[k].value = None THEN Aborts
      ELSE [url EXCEPT !.path = Reverse(@)]
ServerId(doc, n) ==
  LET refs == SelectSeq(Upwards(doc, n), LAMBDA k : doc[k].ref # None)
  IN  IF refs = <<>> THEN "" ELSE doc[refs[1]].ref

InEnvironment(doc, n, env) ==
  LET top == Upwards(doc, n)[1] IN doc[top].name = "environment" /\ doc[top].value = env
IsWorker(doc, n, type) == doc[n].worker = type /\ doc[Upwards(doc, n)[1]].name = "environment"

\* Mutant: the worker of the environment.
GetOwnWorker(doc, env, type) ==
  LET found == {n \in DOMAIN doc : IsWorker(doc, n, type) /\ InEnvironment(doc, n, env)}
  IN  IF Cardinality(found) = 1 THEN CHOOSE n \in found : TRUE ELSE None

\* The worker for a type of query, if there is one only, in whichever environment it is.
GetWorker(doc, env, type) ==
  LET found == {n \in DOMAIN doc : IsWorker(doc, n, type)}
  IN  IF Cardinality(found) = 1 THEN CHOOSE n \in found : TRUE ELSE None

\* findUrls(): one url for each match the query hits, else the worker's; all of one server.
FindUrls(doc, env, type, hits) ==
  LET found == SelectSeq([i \in DOMAIN doc |-> i],
                 LAMBDA n : doc[n].name = "match" /\ doc[n].value \in hits /\ InEnvironment(doc, n, env))
      worker == GetWorker(doc, env, type)
      nodes == IF found = <<>> /\ worker # None THEN <<worker>> ELSE found
      servers == {ServerId(doc, nodes[i]) : i \in DOMAIN nodes}
      urls == [i \in DOMAIN nodes |-> UrlOf(doc, nodes[i])]
  IN  CASE Aborts \in ToSet(urls) -> Aborts
        [] Cardinality(servers) > 1 -> Throws
        [] OTHER -> [urls |-> urls, server |-> IF servers = {} THEN None ELSE CHOOSE s \in servers : TRUE]

-----------------------------------------------------------------------------
(***************************************************************************)
(* DatabaseRegistry.  An instance is [system, host, port, id, shard, name, *)
(* worker], a naming strategy a sequence of words that may be "system",    *)
(* "id" or "shardId".                                                      *)
(***************************************************************************)
DatabaseName(naming, instance) ==
  IF instance.name # None THEN <<instance.name>>
  ELSE IF naming = <<>> THEN Throws
  ELSE [i \in DOMAIN naming |->
          CASE naming[i] = "system" -> instance.system
            [] naming[i] = "id" -> instance.id
            [] naming[i] = "shardId" -> IF instance.shard = -1 THEN "" ELSE ToString(instance.shard)
            [] OTHER -> naming[i]]
InstanceUrl(naming, instance) ==
  LET name == DatabaseName(naming, instance)
  IN  IF name = Throws THEN Throws
      ELSE [NewUrl EXCEPT !.protocol = "postgres", !.host = instance.host, !.port = instance.port, !.path = name]
UrlsOf(naming, instances) ==
  LET urls == [i \in DOMAIN instances |-> InstanceUrl(naming, instances[i])]
  IN  IF Throws \in ToSet(urls) THEN Throws ELSE urls

DatabaseUrls(naming, instances, database, environment, shard) ==
  UrlsOf(naming, SelectSeq(instances, LAMBDA i :
    i.system = environment /\ i.id = database /\ (shard # -1 => i.shard = shard)))

\* Of the instances with an attribute worker, whatever it says, there must be one.
DatabaseWorker(naming, instances) ==
  LET workers == SelectSeq(instances, LAMBDA i : i.worker # None)
  IN  IF Len(workers) # 1 THEN Throws ELSE InstanceUrl(naming, workers[1])

Systems(instances) == {i.system : i \in ToSet(instances)}

-----------------------------------------------------------------------------
(***************************************************************************)
(* Extensions.  A file of the directory and of those in it, in the order   *)
(* they are read, is [name, shared, opens, entry, provides]; provides maps *)
(* a type of component to names.  A later file replaces one of its name.   *)
(***************************************************************************)
Execution == "QUERY_EXECUTION"
Builtin == [SHARDING_STRATEGY |-> <<"md5", "explicit", "modulo">>, QUERY_EXECUTION |-> <<"resource">>,
            DEPENDENCY_INJECTOR |-> <<"default", "noresult", "worker">>]
Modules == {<<"memcached2">>, <<"postgresql">>, <<"soap">>, <<"sqlite3">>}

LoadExtensions(files) ==
  LET loaded == SelectSeq(files, LAMBDA f : f.shared /\ f.opens /\ f.entry)
  IN  [name \in {f.name : f \in ToSet(loaded)} \cup {"builtin"} |->
         IF name = "builtin" THEN Builtin
         ELSE loaded[SelectLastInSeq(loaded, LAMBDA f : f.name = name)].provides]

NamesOf(provides, type) == IF type \in DOMAIN provides THEN provides[type] ELSE <<>>
Candidates(extensions, type, name) ==
  {<<e, i>> \in (DOMAIN extensions) \X (1 .. 3) :
     i \in DOMAIN NamesOf(extensions[e], type) /\ NamesOf(extensions[e], type)[i] = name}
GetExtension(extensions, type, name) ==
  LET candidates == Candidates(extensions, type, name)
  IN  IF Cardinality(candidates) # 1 THEN Throws ELSE (CHOOSE c \in candidates : TRUE)[1]
ExecutorNames(extensions) == UNION {ToSet(NamesOf(extensions[e], Execution)) : e \in DOMAIN extensions}

-----------------------------------------------------------------------------
\* A text shows its parameters and its path so that they are read as they were, and fits the
\* url without a path.  A masked text, or one without credentials, is the same whatever the
\* password is; its items are those of its parameters, with nothing between two of them lost.
UrlTextFits(url) ==
  LET other == [url EXCEPT !.password = "other"]
      Items(text) == Cardinality({i \in DOMAIN text : text[i] = "="})
      Marks(text) == Cardinality({i \in DOMAIN text : text[i] = "&"})
      keys == SetToSeq(DOMAIN url.parameters)
      asItems == [i \in DOMAIN keys |-> IF url.parameters[keys[i]] = "" THEN <<keys[i]>>
                                       ELSE <<keys[i], url.parameters[keys[i]]>>]
  IN  /\ ParseParameters(asItems) = url.parameters
      /\ SetPath(NewUrl, <<"", "">> \o url.path).path = url.path
      /\ MatchesUrl(url, SetPath(url, <<>>)) /\ MatchesUrl(url, SetPath(url, Append(url.path, "more")))
      /\ \A p, c, mask \in BOOLEAN :
        LET text == UrlText(url, p, c, mask)
            shown == Cardinality(DOMAIN url.parameters)
        IN  /\ (text # UrlText(other, p, c, mask)) <=> p /\ c /\ ~mask /\ shown > 0 /\ url.password # "other"
            /\ Items(text) = IF p /\ shown > 0 THEN shown + (IF c THEN 2 ELSE 0) ELSE 0
            /\ Items(text) > 0 => Marks(text) = Items(text) - 1 /\ Last(text) # "&"

\* A query gets the urls of the matches it hits, of its own environment; only a worker may
\* be another's (getWorker does not look at the environment).  A url that a match gives is
\* one of those the registry knows where no host lies within a host and no ref is between.
UrlLookupFits(doc, env, type, hits) ==
  LET result == FindUrls(doc, env, type, hits)
      own == {n \in DOMAIN doc : InEnvironment(doc, n, env)}
      matches == {n \in own : doc[n].name = "match" /\ doc[n].value \in hits}
      workers == {n \in DOMAIN doc : IsWorker(doc, n, type)}
  IN  result \notin {Aborts, Throws} =>
        /\ matches # {} => ToSet(result.urls) = {UrlOf(doc, n) : n \in matches} /\ Len(result.urls) = Cardinality(matches)
        /\ matches = {} => Len(result.urls) = IF Cardinality(workers) = 1 THEN 1 ELSE 0
        /\ result.urls = <<>> <=> result.server = None
        /\ \A n \in matches : ServerId(doc, n) = result.server

\* recurse() and getUrl() see the same url at an element of an environment, unless an inner
\* element repeats what an outer one sets.
WaysAgree(doc, env) ==
  LET root == CHOOSE n \in DOMAIN doc : doc[n].name = "environment" /\ doc[n].value = env
      urls == RecurseUrls(doc, root)
      leaves == {n \in DOMAIN doc : IsLeaf(doc, n) /\ InEnvironment(doc, n, env) /\ n # root}
      Repeats(n) == LET up == Upwards(doc, n)
                    IN  \E i, j \in DOMAIN up : i < j /\ doc[up[i]].name = doc[up[j]].name
                                                /\ doc[up[i]].name \in UrlParts \ {"path"}
      Plain(n) == \A k \in ToSet(Upwards(doc, n)) : doc[k].value # None
  IN  urls # Aborts =>
        \A n \in leaves : Plain(n) => (UrlOf(doc, n) \in urls \/ Repeats(n))

\* The shards of a database are found one by one as they are found together, and the worker
\* is found among those of one of the systems.
ShardsFound(naming, instances, database, environment) ==
  LET all == DatabaseUrls(naming, instances, database, environment, -1)
      shards == {i.shard : i \in ToSet(instances)} \ {-1}
      parts == [s \in shards |-> DatabaseUrls(naming, instances, database, environment, s)]
      worker == DatabaseWorker(naming, instances)
      systems == {DatabaseUrls(naming, instances, database, s, -1) : s \in Systems(instances)}
  IN  all # Throws =>
        /\ worker = Throws \/ Throws \in systems \/ \E urls \in systems : worker \in ToSet(urls)
        /\ \A s \in shards : parts[s] # Throws /\ ToSet(parts[s]) \subseteq ToSet(all)
        /\ (\A i \in ToSet(instances) : i.shard # -1) =>
             Len(all) = MapThenSumSet(LAMBDA s : Len(parts[s]), shards)

\* The provider of a component is found whatever else is in the directory, or it is refused
\* because there are two; a builtin can be made ambiguous, never replaced.
ProvidersFound(files) ==
  LET extensions == LoadExtensions(files)
  IN  /\ extensions["builtin"] = Builtin
      /\ \A name \in ExecutorNames(extensions) :
           LET e == GetExtension(extensions, Execution, name)
           IN  e # Throws => name \in ToSet(NamesOf(extensions[e], Execution))
      /\ \A f \in ToSet(files) : f.shared /\ f.opens /\ f.entry =>
           f.name \in DOMAIN extensions /\ \E g \in ToSet(files) : g.name = f.name /\ extensions[f.name] = g.provides
=============================================================================
