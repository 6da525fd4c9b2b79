------------------------------- MODULE MCData -------------------------------
\* Tables through their lives and executions in chunks, each in behaviours of its own; and
\* states that hold an input of one of the pure parts, where its results are looked at.
EXTENDS StoredTable, ChunkedExecution, QueryParsing, Configuring, Registries, Templates, Workbooks,
        DependencyInjector, ProgressScreen

VARIABLES
  part,   \* "table", "execution", or the pure part whose input this is
  input

vars == <<part, input, storedVars, execVars>>

MCColumns == <<[name |-> "id", type |-> "int4"], [name |-> "ok", type |-> "bool"]>>
MCCharacters == {Tab, NL, Backslash, "N", "t", "n", "a", "x", "y"}
MCValues == {<<>>, <<Backslash, "t", Tab>>}
MCSourceTables == UNION {[1 .. n -> {<<<<"a">>>>, <<NullText>>}] : n \in 0 .. 4}
MCReplies == {<<>>, <<"x">>, <<"x", NL, "y">>, <<Tab, "y">>}

Letters == {"x", " ", "NL", "-", "/", "*", "'"}
MCTexts == UNION {[1 .. n -> Letters] : n \in 0 .. 5}

MCNames == {<<"a">>, <<"a", "b">>, <<"a", "1">>}
MCSentences ==
  {<<<<"from">>, n, k, m, l>> : n \in {<<"a">>, <<"a", "b">>, <<"b">>, <<"a", "(">>},
     k \in {<<"join">>, <<"JOIN">>, <<"on">>, <<"x">>, <<"(">>},
     m \in {<<"a">>, <<"join">>, <<"JOIN">>, <<"valid_from">>}, l \in {<<"a">>, <<"a", "$", "2">>, <<"x">>}}
MCQNames == [name : MCNames, shard : {<<>>, <<"1">>, <<"1", "2">>}, env : {<<>>, <<"e">>, <<"b", "1">>}]

MCLocators == {Locator("a", -1, ""), Locator("a", 1, ""), Locator("a", -1, "e"), Locator("a", 2, "e"),
               Locator("b", -1, "")}
MCLists == UNION {[1 .. n -> MCLocators] : n \in 1 .. 3}

MCDefinitions ==
  UNION {[1 .. n -> {Definition(l, d, <<<<"f", <<"x">>>>, <<"g", <<>>>>>>, <<<<"k", 1>>, <<"k", 2>>>>) :
           l \in MCLocators,
           d \in {<<>>, <<Locator("a", -1, "")>>, <<Locator("b", -1, ""), Locator("a", -1, "e")>>}}] : n \in 1 .. 2}
MCBlocks == UNION {[1 .. n -> [margin : 0 .. 2, text : {"", "x"}]] : n \in 1 .. 3}

\* Arguments and what they mean.
MCPartsOf == [x |-> <<"x">>, n1 |-> <<"1">>, minus |-> <<"-1">>, kv |-> <<"k", "v">>, kw |-> <<"k", "w">>]
MCNumberOf == [x |-> Throws, n1 |-> 1, minus |-> -1, kv |-> Throws, kw |-> Throws]
MCTokens ==
  {[option |-> "environment", value |-> "x"], [option |-> "environment", value |-> "n1"],
   [option |-> "query-parameter", value |-> "kv"], [option |-> "query-parameter", value |-> "kw"],
   [option |-> "query-parameter", value |-> "x"], [option |-> "copy-threshold", value |-> "minus"],
   [option |-> "copy-threshold", value |-> "x"], [option |-> "external-excel-sources", value |-> "x"],
   [option |-> "dont-execute", value |-> ""], [option |-> "help", value |-> ""],
   [option |-> "use-reg-exp-parser", value |-> "x"], [option |-> None, value |-> "x"]}
MCArguments == UNION {[1 .. n -> MCTokens] : n \in 0 .. 3}
MCKeys == UNION {[1 .. n -> {"a", "x", Backspace}] : n \in 0 .. 4}
MCLines == UNION {[1 .. n -> {<<"h", "1", "*", <<"u1">>, <<"p1">>>>, <<"h", "1", "*", <<>>, <<"p2">>>>,
                              <<"g", "1", "*", <<"u3">>, <<"p3">>>>, <<"h", "1", "*", <<"u4">>>>}] : n \in 0 .. 3}

MCUrls == {[NewUrl EXCEPT !.host = "h", !.path = <<"p", "", "q">>, !.parameters = ps, !.user = "u", !.password = w] :
             ps \in UNION {[K -> {"", "v"}] : K \in SUBSET {"a", "b"}}, w \in {"secret", "other"}}
Element(parent, name, value, id, ref, worker) ==
  [parent |-> parent, name |-> name, value |-> value, id |-> id, ref |-> ref, worker |-> worker]
MCElements(parents) ==
  {Element(p, n, v, None, None, w) : p \in parents, n \in {"host", "path"}, v \in {"v"}, w \in {None, "t"}}
    \cup {Element(p, "match", v, None, None, None) : p \in parents, v \in {"m1", "m2"}}
    \cup {Element(p, "path", v, None, r, None) : p \in parents, v \in {None, "v"}, r \in {"s", "q"}}
    \cup {Element(p, "path", "g", i, None, None) : p \in {-1, 1}, i \in {"s"}}
MCDocuments ==
  LET all == {<<Element(0, "environment", "e", None, None, None), Element(0, "environment", "f", None, None, None),
                a, b, c>> : a \in MCElements({1, 2}), b \in MCElements({1, 2, 3}), c \in MCElements({1, 3, 4})}
  IN  {d \in all : \A k \in 3 .. 5 : d[k].parent > 0 => d[d[k].parent].name # "match"}
MCInstances ==
  {[system |-> s, host |-> "h", port |-> "1", id |-> "d", shard |-> n, name |-> m, worker |-> w] :
     s \in {"e", "f"}, n \in {-1, 1, 2}, m \in {None, "db"}, w \in {None, "w"}}
MCInstanceLists == UNION {[1 .. n -> MCInstances] : n \in 1 .. 2}
MCFiles ==
  [name : {"a.so", "b.so"}, shared : {TRUE}, opens : BOOLEAN, entry : {TRUE},
   provides : {[QUERY_EXECUTION |-> m] : m \in Modules \cup {<<"resource">>}}]
MCDirectories == UNION {[1 .. n -> MCFiles] : n \in 0 .. 3}

Pieces ==
  {<<"{", "{">>, <<"}", "}">>, <<"{", "%">>, <<"%", "}">>, <<"{">>, <<"}">>, <<" ">>, <<"f", "o", "r">>, <<"i", "n">>,
   <<"x">>, <<"1">>}
MCTemplateTexts == {FlattenSeq(s) : s \in UNION {[1 .. n -> Pieces] : n \in 0 .. 4}}
MCVars ==
  AnyOf("map", <<"l">> :> AnyOf("list", <<AnyOf("map", <<"k">> :> AnyOf("list", <<AnyOf("string", <<"u">>)>>)),
                                          AnyOf("map", <<"k">> :> AnyOf("list", <<AnyOf("int", 7), AnyOf("bool", TRUE)>>))>>)
               @@ <<"x">> :> AnyOf("string", <<"w">>))
Leaf == {Node("text", <<"a", "%">>, <<>>), Node("text", <<"{">>, <<>>)}
          \cup {Node("subst", <<>>, <<Node("var", v, <<>>)>>) :
                  v \in {<<"x">>, <<"y">>, <<"y", ".", "k">>, <<"x", ".", "k", ".", "0">>}}
Loop(v, list, body) ==
  Node("for", <<>>, <<Node("loop_expr", list, <<>>), Node("var", v, <<>>), Node("template", <<>>, body)>>)
Loops(bodies) ==
  {Loop(v, list, b) : v \in {<<"x">>, <<"y">>}, list \in {<<"l">>, <<"x", ".", "k">>, <<"y", ".", "k">>}, b \in bodies}
Bodies == {<<a>> : a \in Leaf} \cup {<<a, b>> : a \in Leaf, b \in Leaf}
MCTrees ==
  {Node("root", <<>>, <<f, a>>) :
     f \in Loops(Bodies) \cup Loops({<<f, a>> : f \in Loops({<<b>> : b \in Leaf}), a \in Leaf}), a \in Leaf}
Scalars == {AnyOf("string", <<"s">>), AnyOf("bool", FALSE), AnyOf("null", <<>>)} \cup {AnyOf("int", n) : n \in {1, 9}}
MCKeyWords == {<<"k">>, <<"m">>, <<"k", ".", "m">>}
Level1 == Scalars \cup {AnyOf("list", s) : s \in {<<>>, <<AnyOf("int", 1), AnyOf("int", 8)>>}}
            \cup {AnyOf("map", f) : f \in [{<<"m">>} -> Scalars]}
MCJson == Level1 \cup {AnyOf("list", <<a, b>>) : a \in Level1, b \in Level1}
            \cup UNION {{AnyOf("map", f) : f \in [K -> Level1]} : K \in {L \in SUBSET MCKeyWords : Cardinality(L) < 3}}
MCPaths == {<<>>, <<<<"k">>>>, <<<<"0">>>>, <<<<"3">>>>, <<<<"k">>, <<"m">>>>, <<<<"1">>, <<"0">>>>, <<<<"m">>, <<"x">>, <<"1">>>>}

MCNumberOfText == <<"0">> :> 0 @@ <<"1">> :> 1 @@ <<"2">> :> 2 @@ <<"u", "TAB">> :> Throws
SheetCells(texts) == {[letters |-> <<l>>, shared |-> h, texts |-> t] : l \in {"A", "B", "C"}, h \in BOOLEAN, t \in texts}
                  \cup {[letters |-> <<"A", "A">>, shared |-> FALSE, texts |-> <<<<"1">>>>]}
RowsOf(cells) ==
  {r \in UNION {[1 .. n -> cells] : n \in 0 .. 2} :
     \A i \in 2 .. Len(r) : Len(r[i].letters) = 1 /\ Len(r[i - 1].letters) = 1 => RegionToPoint(r[i - 1].letters) < RegionToPoint(r[i].letters)}
MCSheets ==
  {<<h, a>> : h \in RowsOf(SheetCells({<<<<"1">>>>})), a \in RowsOf(SheetCells({<<>>, <<<<"1">>>>, <<<<"u", "TAB">>, <<"2">>>>}))}
    \cup {<<h, a, b>> : h \in RowsOf(SheetCells({<<<<"0">>>>})), a \in RowsOf(SheetCells({<<<<"2">>>>})), b \in RowsOf(SheetCells({<<>>}))}
MCStrings == UNION {[1 .. n -> {<<>>, <<<<"x">>>>, <<<<"y">>, <<"z">>>>}] : n \in 0 .. 3}
MCEntry(n) == <<<<[letters |-> <<"A">>, shared |-> TRUE, texts |-> <<n>>]>>>>
MCWords == {w \in UNION {[1 .. n -> {"x", "limit", "LIMIT", "0", "5", "0)", "5)"}] : n \in 1 .. 5} : Accepted(w)}
MCWidths == <<3, 2, 2>>
MCScreens == [lines : {3, 4, 5, 6, 8}, cols : {0, 4, 8, 14, 20}]
MCBooks ==
  {[sheets |-> [i \in 1 .. 2 |-> [name |-> n[i], id |-> i]], rels |-> r, strings |-> s,
    entries |-> (1 :> MCEntry(<<"0">>) @@ 2 :> MCEntry(<<"1">>))] :
     n \in [1 .. 2 -> {"s", "t"}], s \in MCStrings,
     r \in UNION {{q \in [1 .. k -> [id : 1 .. 3, target : 1 .. 3]] :
                     \A i, j \in 1 .. k : i # j => q[i].id # q[j].id /\ q[i].target # q[j].target} : k \in 0 .. 2}}

TableInput ==
  /\ part = "table" /\ input = None /\ StoredInit
  /\ kind = None /\ source = <<>> /\ lastOffset = 0 /\ result = None /\ delivered = None
  /\ outcome = "idle" /\ cursor = 0 /\ served = <<>> /\ calls = 0
ExecutionInput == part = "execution" /\ input = None /\ StoredInit /\ ExecInit
PureInput ==
  /\ \/ part = "text" /\ input \in MCTexts
     \/ part = "sentence" /\ input \in MCSentences
     \/ part = "name" /\ input \in MCQNames
     \/ part = "source" /\ input \in MCLocators \X MCLists
     \/ part = "definitions" /\ input \in MCDefinitions
     \/ part = "arguments" /\ input \in MCArguments
     \/ part = "keys" /\ input \in MCKeys
     \/ part = "lines" /\ input \in MCLines
     \/ part = "url" /\ input \in MCUrls
     \/ part = "document" /\ input \in MCDocuments
     \/ part = "instances" /\ input \in MCInstanceLists
     \/ part = "directory" /\ input \in MCDirectories
     \/ part = "template" /\ input \in MCTemplateTexts
     \/ part = "tree" /\ input \in MCTrees
     \/ part = "json" /\ input \in MCJson
     \/ part = "steps" /\ input \in UNION {[1 .. n -> 0 .. 2] : n \in 0 .. 4}
     \/ part = "words" /\ input \in MCWords
     \/ part = "screen" /\ input \in MCScreens \X MCScreens \X (0 .. 6)
     \/ part = "sheet" /\ input \in MCSheets
     \/ part = "book" /\ input \in MCBooks
     \/ part = "block" /\ input \in {b \in MCBlocks : \E l \in ToSet(b) : l.text # ""}
  /\ StoredInit
  /\ kind = None /\ source = <<>> /\ lastOffset = 0 /\ result = None /\ delivered = None
  /\ outcome = "idle" /\ cursor = 0 /\ served = <<>> /\ calls = 0

Init == TableInput \/ ExecutionInput \/ PureInput

Next ==
  \/ part = "table" /\ StoredNext /\ UNCHANGED <<part, input, execVars>>
  \/ part = "execution" /\ ExecNext /\ UNCHANGED <<part, input, storedVars>>

Spec == Init /\ [][Next]_vars

-----------------------------------------------------------------------------
\* A text is sent to the server as normalizeQuery() leaves it: it must mean what was
\* written; it is sent with its tables, each to be filled once, and asked for its columns
\* before.  A query is run for every name that is used: each is found, read as the locator
\* it writes and given a source that fits, in both parsers.
QueriesParsed ==
  /\ part = "text" => NormalizeKeepsMeaning(input)
  /\ part = "sentence" => FindsNames(input, MCNames)
  /\ part = "name" => ReadsBack(input, MCNames)
  /\ part = "source" => SourceFits(input[1], input[2])
  /\ part = "definitions" =>
       /\ ParsedWhole(ParseDocument(input, <<"a">>, {"f"}), input)
       /\ \A deps \in {<<>>, <<Locator("a", -1, "")>>} :
            ParsedWhole(ParseText(input, deps, <<"b">>, {"f"}), Append(input, MainQuery(deps)))
  /\ part = "steps" => \A copyThreshold \in 0 .. 2 : TablesFilled(input, copyThreshold)
  /\ part = "words" => TypesQueryFits(input)
  /\ part = "block" => KeepsShape(input)

\* What the user hands over is taken as it is given: a client of the API that asks for what
\* the command line says gets the same run, except for the flags nobody set; no typing error
\* stays in a password, and none goes to another server or into a text that is logged; a
\* sheet arrives as it is shown; and the same server is found in whichever way it is looked
\* for, what is not unique being refused.
InputsTaken ==
  /\ part = "arguments" => SameSettings(input)
  /\ part = "keys" => TakenBack(input)
  /\ part = "lines" => OwnCredentials(input, [host |-> "h", port |-> "1"])
  /\ part = "sheet" => SheetArrives(input, <<<<"x">>, <<"y", "NL">>>>)
  /\ part = "book" => SourcesArrive(input)
  /\ part = "url" => UrlTextFits(input)
  /\ part = "document" =>
       \A env \in {"e", "f"} :
         WaysAgree(input, env) /\ \A hits \in {{}, {"m1"}, {"m1", "m2"}} : UrlLookupFits(input, env, "t", hits)
  /\ part = "instances" =>
       \A naming \in {<<>>, <<"id", "shardId">>} : ShardsFound(naming, input, "d", "e")
  /\ part = "directory" => ProvidersFound(input)

\* A text with parameters is rendered as a whole or is empty, each of its variables with what
\* it is bound to where it stands; a document of variables comes back as it was put in; and
\* what the progress display shows has places of its own on the screen.
TextsShown ==
  /\ part = "template" => AllOrNothing(input, MCVars)
  /\ part = "tree" => MeansWhatItSays(input, MCVars)
  /\ part = "json" => ComesBack(input, MCPaths)
  /\ part = "screen" => OwnPlaces(input[1], input[2], input[3])
=============================================================================
