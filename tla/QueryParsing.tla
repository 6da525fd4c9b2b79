---------------------------- MODULE QueryParsing ----------------------------
(***************************************************************************)
(* From a text to queries that know their sources: comments are removed,   *)
(* the names of other queries are found after "from" and "join", and each  *)
(* of these dependencies is given the query it means.                      *)
(***************************************************************************)
EXTENDS Integers, Sequences, FiniteSets, SequencesExt, FiniteSetsExt

CONSTANTS NoQuery, Rejected, Default  \* Default: Locator::defaultEnvironment

\* Characters and words are strings; the white space there is:
Spaces == {" ", "NL"}

-----------------------------------------------------------------------------
(***************************************************************************)
(* normalizeQuery(): one pass over the characters.  The state is what the  *)
(* loop keeps; skip are the characters it has looked at in advance.        *)
(***************************************************************************)
CharAt(text, i) == IF i \in DOMAIN text THEN text[i] ELSE "END"

\* The token a character opens outside of, or inside, a string.
Opens(s, text, i) ==
  CASE text[i] = "'" /\ ~s.line /\ ~s.block -> "quote"
    [] text[i] = "/" /\ CharAt(text, i + 1) = "*" /\ ~s.string -> "block"
    [] text[i] = "*" /\ CharAt(text, i + 1) = "/" /\ ~s.string -> "endOfBlock"
    [] text[i] = "-" /\ CharAt(text, i + 1) = "-" /\ ~s.string -> "line"
    [] text[i] = "NL" /\ s.line -> "endOfLine"
    [] OTHER -> "plain"

\* The character after a mark is never looked at, also the one after the end of a line.
Emit(s, c) ==
  [s EXCEPT !.text = IF c \in Spaces /\ s.afterSpace THEN @ ELSE Append(@, IF c \in Spaces THEN " " ELSE c),
            !.afterSpace = c \in Spaces]
Scan(s, text, i) ==
  LET mark == Opens(s, text, i)
  IN  IF s.skip THEN [s EXCEPT !.skip = FALSE]
      ELSE CASE mark = "block" -> [s EXCEPT !.block = TRUE, !.skip = TRUE]
             [] mark = "endOfBlock" -> [s EXCEPT !.block = FALSE, !.skip = TRUE]
             [] mark = "line" -> [s EXCEPT !.line = TRUE, !.skip = TRUE]
             [] mark = "endOfLine" -> [s EXCEPT !.line = FALSE, !.skip = TRUE]
             [] s.line \/ s.block -> s
             [] mark = "quote" -> Emit([s EXCEPT !.string = ~@], text[i])
             [] OTHER -> Emit(s, text[i])

\* The last character before the first one is uninitialised: a space or not.
NormalizeQuery(text, firstIsAfterSpace) ==
  FoldLeftDomain(LAMBDA s, i : Scan(s, text, i),
    [text |-> <<>>, string |-> FALSE, line |-> FALSE, block |-> FALSE, skip |-> FALSE,
     afterSpace |-> firstIsAfterSpace], text).text

-----------------------------------------------------------------------------
(***************************************************************************)
(* cutBlock(): blank lines go, and the margin all others have.  A line is  *)
(* [margin, text]: the spaces before its text.                             *)
(***************************************************************************)
CutBlock(lines) ==
  LET left == SelectSeq(lines, LAMBDA l : l.text # "")
      margin == Min({l.margin : l \in ToSet(left)})
  IN  [i \in DOMAIN left |-> [left[i] EXCEPT !.margin = @ - margin]]

-----------------------------------------------------------------------------
(***************************************************************************)
(* Locators.  shard is -1 and env "" where the name says nothing.          *)
(***************************************************************************)
Locator(name, shard, env) == [name |-> name, shard |-> shard, env |-> env]
EnvOf(locator) == IF locator.env = "" THEN Default ELSE locator.env

\* compare() > -1: one name, one environment, and a shard that is the same or left open.
Matches(query, dep) ==
  /\ query.name = dep.name /\ EnvOf(query) = EnvOf(dep)
  /\ query.shard = dep.shard \/ query.shard = -1 \/ dep.shard = -1

\* A query of another system, where the dependency names no environment.
IsInterSystem(query, dep) == query.name = dep.name /\ query.env # "" /\ dep.env = ""

\* Mutant: a query of another system is taken whenever it comes later.
GetSourceQueryAnySystem(dep, queries) ==
  LET found == {i \in DOMAIN queries : Matches(queries[i], dep) \/ IsInterSystem(queries[i], dep)}
  IN  IF found = {} THEN NoQuery ELSE Max(found)

\* The last query that matches; if there is none, the first of another system.
GetSourceQuery(dep, queries) ==
  LET found == {i \in DOMAIN queries : Matches(queries[i], dep)}
      others == {i \in DOMAIN queries : IsInterSystem(queries[i], dep)}
  IN  IF found # {} THEN Max(found) ELSE IF others # {} THEN Min(others) ELSE NoQuery

-----------------------------------------------------------------------------
(***************************************************************************)
(* detectDependencies().  A text is a sequence of words, a word a sequence *)
(* of characters; the expression is searched again behind each match.      *)
(***************************************************************************)
Digits == {"1", "2"}
NameChars == {"a", "b", "e"} \cup Digits
Run(word, i, chars) ==  \* the first position from i on that is not one of chars
  Min({j \in i .. Len(word) + 1 : j = Len(word) + 1 \/ word[j] \notin chars})
SkipDollar(word, i) == IF CharAt(word, i) = "$" THEN i + 1 ELSE i

From == {<<"from">>, <<"FROM">>, <<"valid_from">>}  \* also at the end of a word
Join == {<<"join">>, <<"JOIN">>}
Keywords == {<<"join">>, <<"on">>, <<"where">>}     \* no alias, in lower case only
IsAlias(words, i) == i \in DOMAIN words /\ words[i][1] # "("

\* The longest name the word begins with, a shard and an environment.
NamesIn(word, names) == {n \in names : IsPrefix(n, word)}
Read(word, names) ==
  LET name == CHOOSE n \in NamesIn(word, names) : \A m \in NamesIn(word, names) : Len(m) <= Len(n)
      shard == SkipDollar(word, Len(name) + 1)
      endOfShard == Run(word, shard, Digits)
      env == SkipDollar(word, endOfShard)
      end == Run(word, env, NameChars)
  IN  [name |-> name, shard |-> SubSeq(word, shard, endOfShard - 1),
       env |-> SubSeq(word, env, end - 1), whole |-> end > Len(word)]

\* Where the expression matches, from a position on; and where the search goes on.
Found(words, names, from) ==
  {i \in from .. Len(words) - 1 : words[i] \in From \cup Join /\ NamesIn(words[i + 1], names) # {}}
Next1(words, names, i) ==
  IF ~Read(words[i + 1], names).whole \/ ~IsAlias(words, i + 2) \/ words[i + 2] \in Keywords
  THEN i + 2 ELSE i + 3
DetectDependencies(words, names) ==
  LET rest[from \in 1 .. Len(words) + 2] ==
        IF Found(words, names, from) = {} THEN <<>>
        ELSE LET i == Min(Found(words, names, from))
             IN  <<i>> \o rest[Next1(words, names, i)]
  IN  rest[1]

-----------------------------------------------------------------------------
(***************************************************************************)
(* detectScriptQueries() and extractMetaData(): of the calls of a function *)
(* in a text, and of the values of a key, the last counts.                 *)
(***************************************************************************)
Script(calls, functions, type) ==
  LET known == SelectSeq(calls, LAMBDA c : c[1] \in functions)
  IN  IF known = <<>> THEN [type |-> type, arguments |-> <<>>]
      ELSE [type |-> Last(known)[1], arguments |-> Last(known)[2]]
MetaData(pairs) ==
  [k \in {p[1] : p \in ToSet(pairs)} |-> pairs[SelectLastInSeq(pairs, LAMBDA p : p[1] = k)][2]]

-----------------------------------------------------------------------------
(***************************************************************************)
(* parse().  A definition is [locator, deps, calls, pairs]; an external    *)
(* source is a name.  The common table expressions of a text have distinct *)
(* locators and the main query comes after them; the elements of a         *)
(* document may name a dependency, and their locators are not compared.    *)
(***************************************************************************)
Definition(locator, deps, calls, pairs) ==
  [locator |-> locator, deps |-> deps, calls |-> calls, pairs |-> pairs]
MainQuery(deps) == Definition(Locator("__main_query__", -1, ""), deps, <<>>, <<>>)
Resource(name) == Definition(Locator(name, -1, ""), <<>>, <<>>, <<>>)
HasDuplicate(defs) ==
  \E i, j \in DOMAIN defs : i # j /\ defs[i].locator = defs[j].locator

Resolve(defs, functions) ==
  LET locators == [i \in DOMAIN defs |-> defs[i].locator]
      Source(d) == GetSourceQuery(d, locators)
  IN  IF \E i \in DOMAIN defs : \E d \in ToSet(defs[i].deps) : Source(d) = NoQuery THEN Rejected
      ELSE [i \in DOMAIN defs |->
              [locator |-> defs[i].locator,
               sources |-> [k \in DOMAIN defs[i].deps |-> Source(defs[i].deps[k])],
               script |-> Script(defs[i].calls, functions, "postgres"),
               meta |-> MetaData(defs[i].pairs)]]

ParseText(defs, mainDeps, externals, functions) ==
  IF HasDuplicate(defs) THEN Rejected
  ELSE Resolve(defs \o <<MainQuery(mainDeps)>> \o [i \in DOMAIN externals |-> Resource(externals[i])],
               functions)
ParseDocument(defs, externals, functions) ==
  Resolve(defs \o [i \in DOMAIN externals |-> Resource(externals[i])], functions)

-----------------------------------------------------------------------------
(***************************************************************************)
(* What SQL means by a text: strings as they are, a comment or any run of  *)
(* spaces as one space.  odd tells what the one pass above does not stand: *)
(* a run of spaces in a string, a mark within a comment, a comment that    *)
(* touches what follows it, or has no space on either side.                *)
(***************************************************************************)
Touches(text, i) == CharAt(text, i) \notin Spaces \cup {"END"}
Space(s) == [s EXCEPT !.text = IF s.after THEN @ ELSE Append(@, " "), !.after = TRUE]
Put(s, c) == [s EXCEPT !.text = Append(@, c), !.after = FALSE]
Lex(s, text, i) ==
  LET c == text[i]
      d == CharAt(text, i + 1)
  IN  IF s.skip THEN [s EXCEPT !.skip = FALSE]
      ELSE CASE s.mode = "string" ->
                  [Put(s, c) EXCEPT !.mode = IF c = "'" THEN "sql" ELSE @,
                                    !.odd = @ \/ c = "NL" \/ (c = " " /\ text[i - 1] \in Spaces)]
             [] s.mode = "line" ->
                  IF c = "NL" THEN [Space(s) EXCEPT !.mode = "sql", !.odd = @ \/ Touches(text, i + 1)]
                  ELSE [s EXCEPT !.odd = @ \/ <<c, d>> = <<"/", "*">>]
             [] s.mode = "block" ->
                  IF <<c, d>> = <<"*", "/">>
                  THEN [Space(s) EXCEPT !.mode = "sql", !.skip = TRUE,
                                        !.odd = @ \/ (~s.after /\ Touches(text, i + 2))]
                  ELSE [s EXCEPT !.odd = @ \/ <<c, d>> \in {<<"-", "-">>, <<"/", "*">>}]
             [] c = "'" -> [Put(s, c) EXCEPT !.mode = "string"]
             [] <<c, d>> = <<"/", "*">> -> [s EXCEPT !.mode = "block", !.skip = TRUE]
             [] <<c, d>> = <<"-", "-">> -> [s EXCEPT !.mode = "line", !.skip = TRUE, !.odd = @ \/ ~s.after]
             [] c \in Spaces -> Space(s)
             [] OTHER -> [Put(s, c) EXCEPT !.odd = @ \/ <<c, d>> = <<"*", "/">>]
Lexed(text) ==
  FoldLeftDomain(LAMBDA s, i : Lex(s, text, i),
    [text |-> <<>>, mode |-> "sql", skip |-> FALSE, after |-> TRUE, odd |-> FALSE], text)

LeftTrimmed(text) == IF text # <<>> /\ text[1] = " " THEN Tail(text) ELSE text
RightTrimmed(text) == IF text # <<>> /\ Last(text) = " " THEN Front(text) ELSE text

NormalizeKeepsMeaning(text) ==
  Lexed(text).odd
    \/ \A afterSpace \in BOOLEAN :
         RightTrimmed(LeftTrimmed(NormalizeQuery(text, afterSpace))) = RightTrimmed(Lexed(text).text)

\* A name after a keyword is found, unless the keyword was taken for the alias of the name
\* before it: only those in lower case are known for keywords.
FindsNames(words, names) ==
  LET found == ToSet(DetectDependencies(words, names))
  IN  \A i \in Found(words, names, 1) : i \in found \/ (i - 2 \in found /\ words[i] \notin Keywords)

\* The name of a locator is read back as this locator.
QNameOf(l) ==
  l.name \o (IF l.shard = <<>> THEN <<>> ELSE <<"$">> \o l.shard)
         \o (IF l.env = <<>> THEN <<>> ELSE <<"$">> \o l.env)
ReadsBack(l, names) ==
  LET read == Read(QNameOf(l), names)
  IN  read.whole /\ read.name = l.name /\ read.shard = l.shard /\ read.env = l.env

\* The source has the name and, if one has, the environment and the shard.
SourceFits(dep, queries) ==
  LET src == GetSourceQuery(dep, queries)
      named == {i \in DOMAIN queries : queries[i].name = dep.name}
  IN  /\ src = NoQuery <=> \A i \in named : ~Matches(queries[i], dep) /\ ~IsInterSystem(queries[i], dep)
      /\ src # NoQuery => src \in named
      /\ (\E i \in named : Matches(queries[i], dep)) => Matches(queries[src], dep)

\* Queries that are parsed all have sources of the names they use, and the main query sees
\* every common table expression; the last call of a function makes the query a script.
ParsedWhole(queries, defs) ==
  queries # Rejected =>
    \A i \in DOMAIN defs :
      /\ queries[i].locator = defs[i].locator /\ Len(queries[i].sources) = Len(defs[i].deps)
      /\ \A k, l \in DOMAIN defs[i].pairs :
           k > l => queries[i].meta[defs[i].pairs[k][1]] \notin {defs[i].pairs[l][2]} \ {defs[i].pairs[k][2]}
      /\ \A k \in DOMAIN defs[i].deps :
           LET src == queries[queries[i].sources[k]].locator
           IN  src.name = defs[i].deps[k].name /\ (defs[i].deps[k].env # "" => EnvOf(src) = defs[i].deps[k].env)

KeepsShape(lines) ==
  LET cut == CutBlock(lines)
      left == SelectSeq(lines, LAMBDA l : l.text # "")
  IN  /\ Len(cut) = Len(left) /\ \E i \in DOMAIN cut : cut[i].margin = 0
      /\ \A i, j \in DOMAIN cut : cut[i].margin - cut[j].margin = left[i].margin - left[j].margin
=============================================================================
