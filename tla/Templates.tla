------------------------------ MODULE Templates ------------------------------
(***************************************************************************)
(* The templates in which queries, database names and paths are written: a *)
(* scanner with three start conditions, the LALR automaton made from the   *)
(* grammar, the trees it builds, and the variables they are filled with.   *)
(* A text is a sequence of characters.                                     *)
(***************************************************************************)
EXTENDS Outcomes, Integers, Sequences, FiniteSets, SequencesExt, FiniteSetsExt, TLC

Digit == {"0", "1", "2", "3"}
NoWord == {"{", "%", "}", " ", "LF"}
ExprChar(c) == c \notin NoWord
StmtChar(c) == c \notin NoWord \cup Digit \cup {"_", "X"}
RawChar(c) == c \notin {"{", "%"}

-----------------------------------------------------------------------------
(***************************************************************************)
(* The scanner.                                                            *)
(***************************************************************************)
RunOf(text, Ok(_)) == LET stop == SelectInSeq(text, LAMBDA c : ~Ok(c)) IN IF stop = 0 THEN Len(text) ELSE stop - 1
Word(word) ==
  CASE word = <<"i", "n">> -> "IN"
    [] word = <<"f", "o", "r">> -> "FOR"
    [] word = <<"e", "n", "d", "f", "o", "r">> -> "ENDFOR"
    [] OTHER -> "VAR"

\* The rule of the longest match, the start condition after it and its length; 0: no rule.
Rule(token, begin, length) == [token |-> token, begin |-> begin, length |-> length]
MatchIn(condition, text) ==
  LET Starts(a, b) == Len(text) > 1 /\ text[1] = a /\ text[2] = b
      raw == RunOf(text, RawChar)
      expr == RunOf(text, ExprChar)
      stmt == RunOf(text, StmtChar)
  IN  CASE condition = "INITIAL" /\ Starts("{", "%") -> Rule("BLOCK_START", "stmt", 2)
        [] condition = "INITIAL" /\ Starts("{", "{") -> Rule("VAR_START", "expr", 2)
        [] condition = "INITIAL" -> Rule("RAW_TEXT", condition, IF raw > 0 THEN raw ELSE 1)
        [] condition = "expr" /\ Starts("}", "}") -> Rule("VAR_END", "INITIAL", 2)
        [] condition = "expr" -> Rule("VAR", condition, expr)
        [] condition = "stmt" /\ Starts("%", "}") -> Rule("BLOCK_END", "INITIAL", 2)
        [] condition = "stmt" -> Rule(Word(SubSeq(text, 1, stmt)), condition, stmt)

\* What is read and does not match is read again, but of no rule the first character, which
\* goes to the terminal.
Matched(rule, text) == SubSeq(text, 1, rule.length)
ReadAgain(rule, text) == SubSeq(text, Max({rule.length, 1}) + 1, Len(text))
RECURSIVE Tokens(_, _)
Tokens(condition, text) ==
  LET rule == MatchIn(condition, text)
      rest == Tokens(rule.begin, ReadAgain(rule, text))
  IN  IF text = <<>> THEN <<>>
      ELSE IF rule.length = 0 THEN rest
      ELSE <<[token |-> rule.token, is |-> Matched(rule, text)]>> \o rest

-----------------------------------------------------------------------------
(***************************************************************************)
(* The automaton: its productions, and the shifts and the reduction of     *)
(* each state.  No state expects an error, so that one ends the parsing.   *)
(***************************************************************************)
Node(type, value, childs) == [type |-> type, value |-> value, childs |-> childs]

Production ==
  <<<<"unit", 0>>, <<"unit", 2>>, <<"template", 1>>, <<"template", 1>>, <<"template", 1>>, <<"subst_expr", 3>>,
    <<"template_list", 1>>, <<"template_list", 2>>, <<"block", 1>>, <<"for_block", 10>>, <<"var", 1>>,
    <<"raw_text", 1>>>>
OfTemplate ==
  [block |-> 3, raw_text |-> 4, subst_expr |-> 5, for_block |-> 6, RAW_TEXT |-> 7, VAR_START |-> 8, BLOCK_START |-> 9]
Var(next) == [var |-> next, VAR |-> 12]
Shifts ==
  0 :> ([unit |-> 1, template |-> 2] @@ OfTemplate) @@ 2 :> ([unit |-> 10, template |-> 2] @@ OfTemplate)
    @@ 8 :> Var(11) @@ 9 :> [FOR |-> 13] @@ 11 :> [VAR_END |-> 14] @@ 13 :> Var(15) @@ 15 :> [IN |-> 16]
    @@ 16 :> Var(17) @@ 17 :> [BLOCK_END |-> 18]
    @@ 18 :> ([template_list |-> 19, template |-> 20] @@ OfTemplate)
    @@ 19 :> ([template |-> 22, BLOCK_START |-> 21] @@ OfTemplate)
    @@ 21 :> [ENDFOR |-> 23, FOR |-> 13] @@ 23 :> [BLOCK_END |-> 24]
Reduction ==
  0 :> 1 @@ 2 :> 1 @@ 3 :> 3 @@ 4 :> 4 @@ 5 :> 5 @@ 6 :> 9 @@ 7 :> 12 @@ 10 :> 2 @@ 12 :> 11 @@ 14 :> 6
    @@ 20 :> 7 @@ 22 :> 8 @@ 24 :> 10

\* What an action makes of the values of its right side.
Built(production, v) ==
  CASE production = 4 -> Node("text", v[1], <<>>)
    [] production = 5 -> Node("subst", <<>>, <<v[1]>>)
    [] production = 6 -> Node("var", v[2], <<>>)
    [] production = 7 -> Node("template", <<>>, <<v[1]>>)
    [] production = 8 -> [v[1] EXCEPT !.childs = Append(@, v[2])]
    [] production = 10 -> Node("for", <<>>, <<Node("loop_expr", v[5], <<>>), Node("var", v[3], <<>>), v[7]>>)
    [] production \in {1, 2} -> None     \* the root, which is filled from the back
    [] OTHER -> v[1]

\* A parser is its stack of [state, is], the tokens ahead of it, and the children of the root.
EOF == [token |-> "EOF", is |-> <<>>]
NextToken(parser) == IF parser.ahead = <<>> THEN EOF ELSE parser.ahead[1]
Push(parser, state) ==
  [parser EXCEPT !.stack = Append(@, [state |-> state, is |-> parser.ahead[1].is]), !.ahead = Tail(@)]
Pop(parser, count) == [parser EXCEPT !.stack = SubSeq(@, 1, Len(@) - count)]
Reduced(parser, production) ==
  LET size == Production[production][2]
      values == [i \in 1 .. size |-> parser.stack[Len(parser.stack) - size + i].is]
      made == [token |-> Production[production][1], is |-> Built(production, values)]
  IN  [Pop(parser, size) EXCEPT !.ahead = <<made>> \o @,
                                !.root = IF production = 2 THEN <<values[1]>> \o @ ELSE @]

\* Positive: a state to shift to; negative: a production to reduce by; 0: accepted.
LookUp(state, token) ==
  LET next == IF state \in DOMAIN Shifts THEN Shifts[state] ELSE <<>>
  IN  CASE token \in DOMAIN next -> next[token]
        [] token \notin DOMAIN next /\ state \in DOMAIN Reduction -> -Reduction[state]
        [] state = 1 /\ token = "EOF" -> 0
        [] OTHER -> Throws

\* The stack is popped up to a state that expects an error, and below the first it aborts.
ErrorStates == {}
RECURSIVE ErrorRecovery(_)
ErrorRecovery(parser) ==
  IF Last(parser.stack).state \in ErrorStates THEN parser
  ELSE IF Len(parser.stack) = 1 THEN Aborts ELSE ErrorRecovery(Pop(parser, 1))

RECURSIVE Act(_, _)
Parse(parser) == Act(parser, LookUp(Last(parser.stack).state, NextToken(parser).token))
Act(parser, action) ==
  CASE action = Throws -> ErrorRecovery(parser)
    [] action = 0 -> parser.root
    [] action > 0 -> Parse(Push(parser, action))
    [] action < 0 -> Parse(Reduced(parser, -action))
Tree(text) == Parse([stack |-> <<[state |-> 0, is |-> None]>>, ahead |-> Tokens("INITIAL", text), root |-> <<>>])

-----------------------------------------------------------------------------
(***************************************************************************)
(* The variables: JsonVar.  A value is [type, is]; a path is the sequence  *)
(* of its components.  A name that is missing in a map is put there, with  *)
(* no value; what is neither map nor list holds empty texts.               *)
(***************************************************************************)
CONSTANT IntLimit   \* 2^31

AnyOf(type, is) == [type |-> type, is |-> is]
Void == AnyOf("void", <<>>)
EmptyAny == AnyOf("string", <<>>)

RECURSIVE Components(_)
Components(name) ==
  LET dot == SelectInSeq(name, LAMBDA c : c = ".")
  IN  IF dot = 0 THEN <<name>> ELSE <<SubSeq(name, 1, dot - 1)>> \o Components(SubSeq(name, dot + 1, Len(name)))

ValueOfDigit(c) == CASE c = "0" -> 0 [] c = "1" -> 1 [] c = "2" -> 2 [] c = "3" -> 3
IndexText(n) == <<ToString(n)>>
IndexOf(word) ==
  IF word = <<>> \/ ~(ToSet(word) \subseteq Digit) THEN Throws
  ELSE FoldLeft(LAMBDA n, c : 10 * n + ValueOfDigit(c), 0, word)

RECURSIVE Get(_, _)
Get(value, path) ==
  IF path = <<>> THEN value
  ELSE CASE value.type = "map" -> Get(IF path[1] \in DOMAIN value.is THEN value.is[path[1]] ELSE Void, Tail(path))
         [] value.type = "list" ->
              LET i == IndexOf(path[1])
              IN  IF i = Throws THEN Throws ELSE IF i >= Len(value.is) THEN Throws ELSE Get(value.is[i + 1], Tail(path))
         [] OTHER -> EmptyAny

\* The document after a get().
RECURSIVE Touched(_, _)
Touched(value, path) ==
  IF path = <<>> \/ value.type \notin {"map", "list"} THEN value
  ELSE IF value.type = "map"
  THEN LET old == IF path[1] \in DOMAIN value.is THEN value.is[path[1]] ELSE Void
       IN  [value EXCEPT !.is = (path[1] :> Touched(old, Tail(path))) @@ @]
  ELSE LET i == IndexOf(path[1])
       IN  IF i = Throws THEN value ELSE IF i >= Len(value.is) THEN value
           ELSE [value EXCEPT !.is[i + 1] = Touched(@, Tail(path))]

RECURSIVE SetVar(_, _, _)
SetVar(value, path, x) ==
  IF path = <<>> THEN x
  ELSE IF value.type \notin {"map", "list"} THEN Throws
  ELSE LET i == IF value.type = "map" THEN 0 ELSE IndexOf(path[1])
           old == IF value.type = "map" THEN (IF path[1] \in DOMAIN value.is THEN value.is[path[1]] ELSE Void)
                  ELSE IF i \in 0 .. Len(value.is) - 1 THEN value.is[i + 1] ELSE Void
           new == SetVar(old, Tail(path), x)
       IN  CASE i = Throws \/ new = Throws -> Throws
             [] value.type = "map" -> [value EXCEPT !.is = (path[1] :> new) @@ @]
             [] i > Len(value.is) -> Throws
             [] i = Len(value.is) -> IF Len(path) = 1 THEN [value EXCEPT !.is = Append(@, x)] ELSE Throws
             [] OTHER -> [value EXCEPT !.is[i + 1] = new]

\* The type of a map is looked for with the wrong words.
TypeOfVar(value) == IF value.type \in {"string", "int", "bool", "double", "list"} THEN value.type ELSE Throws
SizeOf(value) == IF value = Throws THEN Throws ELSE IF value.type = "list" THEN Len(value.is) ELSE Throws
Keys(value) == IF value.type = "map" THEN DOMAIN value.is ELSE Throws
\* get_bool(), get_integer(), get_double(): the last takes a double for a bool.
GetAs(value, type) == IF value.type # type \/ type = "double" THEN Throws ELSE value.is

RECURSIVE Shown(_)
Shown(value) ==
  LET Between(items) == FlattenSeq([i \in DOMAIN items |-> items[i] \o IF i < Len(items) THEN <<",">> ELSE <<>>])
  IN  CASE value.type = "list" -> <<"[">> \o Between([i \in DOMAIN value.is |-> Shown(value.is[i])]) \o <<"]">>
        [] value.type = "map" ->
             LET keys == SetToSeq(DOMAIN value.is)
             IN  <<"{">> \o Between([i \in DOMAIN keys |-> keys[i] \o <<":">> \o Shown(value.is[keys[i]])]) \o <<"}">>
        [] value.type = "bool" -> <<IF value.is THEN "1" ELSE "0">>
        [] value.type = "void" -> <<"n", "u", "l", "l">>
        [] value.type = "string" -> value.is
        [] OTHER -> <<ToString(value.is)>>

\* A key of JSON is taken for a path; an integer is cut to an int.
AsInt(n) == ((n + IntLimit) % (2 * IntLimit)) - IntLimit
RECURSIVE FromJsonAt(_, _, _)
FromJsonAt(root, path, json) ==
  LET Into(r, p, j) == IF r = Throws THEN Throws ELSE FromJsonAt(r, p, j)
      keys == SetToSeq(DOMAIN json.is)
  IN  CASE json.type = "list" ->
             FoldLeft(LAMBDA r, i : Into(r, Append(path, IndexText(i - 1)), json.is[i]),
                      SetVar(root, path, AnyOf("list", <<>>)), [i \in DOMAIN json.is |-> i])
        [] json.type = "map" ->
             FoldLeft(LAMBDA r, k : Into(r, path \o Components(k), json.is[k]),
                      SetVar(root, path, AnyOf("map", <<>>)), keys)
        [] json.type = "int" -> SetVar(root, path, AnyOf("int", AsInt(json.is)))
        [] OTHER -> SetVar(root, path, json)

RECURSIVE HasVoid(_)
HasVoid(value) ==
  \/ value.type = "void"
  \/ value.type \in {"list", "map"} /\ \E k \in DOMAIN value.is : HasVoid(value.is[k])
ToJson(value) == IF HasVoid(value) THEN Throws ELSE value

-----------------------------------------------------------------------------
(***************************************************************************)
(* Rendering.  The context maps the variables of loops to paths; none is   *)
(* taken out of it when its loop ends.                                     *)
(***************************************************************************)
\* Mutant: the name is looked up as a whole.
TranslateWholeVar(name, context) == IF name \in DOMAIN context THEN context[name] ELSE Components(name)
TranslateVar(name, context) ==
  LET Path(items) == IF items[1] \in DOMAIN context THEN context[items[1]] \o Tail(items) ELSE items
  IN  Path(Components(name))

Child(node, type) == node.childs[SelectInSeq(node.childs, LAMBDA c : c.type = type)].value
Rendered(text, context) == [text |-> text, context |-> context]
RECURSIVE RenderNode(_, _, _)
RenderNode(node, vars, done) ==
  LET All(nodes, from) ==
        FoldLeft(LAMBDA d, n : IF d = Throws THEN Throws ELSE RenderNode(n, vars, d), from, nodes)
  IN  CASE node.type = "text" -> [done EXCEPT !.text = @ \o node.value]
        [] node.type = "subst" ->
             LET value == Get(vars, TranslateVar(Child(node, "var"), done.context))
             IN  IF value = Throws THEN Throws ELSE [done EXCEPT !.text = @ \o Shown(value)]
        [] node.type = "for" ->
             LET over == TranslateVar(Child(node, "loop_expr"), done.context)
                 len == SizeOf(Get(vars, over))
                 Turn(d, i) ==
                   IF d = Throws THEN Throws
                   ELSE All(node.childs[3].childs,
                            [d EXCEPT !.context = (Child(node, "var") :> Append(over, IndexText(i - 1))) @@ @])
             IN  IF len = Throws THEN Throws ELSE FoldLeft(Turn, done, [i \in 1 .. len |-> i])
        [] OTHER -> All(node.childs, done)

\* The result of parse() is not looked at.
Render(parsed, vars) ==
  LET done == RenderNode(Node("root", <<>>, IF parsed = Aborts THEN <<>> ELSE parsed), vars, Rendered(<<>>, <<>>))
  IN  IF done = Throws THEN Throws ELSE done.text

-----------------------------------------------------------------------------
(***************************************************************************)
(* What templates promise.  The grammar once more, and the meaning of a    *)
(* tree in which each variable is bound in its loop only.                  *)
(***************************************************************************)
TypesOf(tokens) == [i \in DOMAIN tokens |-> tokens[i].token]
RECURSIVE IsUnit(_)
IsUnit(s) ==
  LET IsFor(f) ==
        /\ Len(f) > 9 /\ SubSeq(f, 1, 6) = <<"BLOCK_START", "FOR", "VAR", "IN", "VAR", "BLOCK_END">>
        /\ SubSeq(f, Len(f) - 2, Len(f)) = <<"BLOCK_START", "ENDFOR", "BLOCK_END">>
        /\ IsUnit(SubSeq(f, 7, Len(f) - 3))
      IsTemplate(f) == f \in {<<"RAW_TEXT">>, <<"VAR_START", "VAR", "VAR_END">>} \/ IsFor(f)
  IN  s = <<>> \/ \E n \in DOMAIN s : IsTemplate(SubSeq(s, 1, n)) /\ IsUnit(SubSeq(s, n + 1, Len(s)))

\* All of a text is rendered or nothing is; what has no marks stays as it is.
AllOrNothing(text, vars) ==
  LET Marked == \E i \in 1 .. Len(text) - 1 : text[i] = "{" /\ text[i + 1] \in {"{", "%"}
  IN  \A parsed \in {Tree(text)} : \A shown \in {Render(parsed, vars)} :
        /\ (parsed = Aborts) <=> ~IsUnit(TypesOf(Tokens("INITIAL", text)))
        /\ parsed = Aborts => shown = <<>>
        /\ ~Marked => shown = text

RECURSIVE SourceOf(_)
SourceOf(node) ==
  LET All(nodes) == FlattenSeq([i \in DOMAIN nodes |-> SourceOf(nodes[i])])
  IN  CASE node.type = "text" -> node.value
        [] node.type = "subst" -> <<"{", "{">> \o Child(node, "var") \o <<"}", "}">>
        [] node.type = "for" ->
             <<"{", "%", " ", "f", "o", "r", " ">> \o Child(node, "var") \o <<" ", "i", "n", " ">>
               \o Child(node, "loop_expr") \o <<"%", "}">> \o All(node.childs[3].childs)
               \o <<"{", "%", "e", "n", "d", "f", "o", "r", "%", "}">>
        [] OTHER -> All(node.childs)

RECURSIVE Meaning(_, _, _)
Meaning(node, vars, scope) ==
  LET At(name) == LET items == Components(name)
                  IN  Get(IF items[1] \in DOMAIN scope THEN scope[items[1]] ELSE Get(vars, <<items[1]>>), Tail(items))
      Several(nodes, s) == FlattenSeq([i \in DOMAIN nodes |-> Meaning(nodes[i], vars, s)])
  IN  CASE node.type = "text" -> node.value
        [] node.type = "subst" -> Shown(At(Child(node, "var")))
        [] node.type = "for" ->
             LET list == At(Child(node, "loop_expr")).is
             IN  FlattenSeq([i \in DOMAIN list |->
                   Several(node.childs[3].childs, (Child(node, "var") :> list[i]) @@ scope)])
        [] OTHER -> Several(node.childs, scope)

RECURSIVE LoopNames(_)
LoopNames(node) ==
  (IF node.type = "for" THEN {Child(node, "var")} ELSE {}) \cup UNION {LoopNames(c) : c \in ToSet(node.childs)}
RECURSIVE Free(_)
Free(node) ==
  CASE node.type = "subst" -> {Components(Child(node, "var"))[1]}
    [] node.type = "for" -> {Components(Child(node, "loop_expr"))[1]} \cup (Free(node.childs[3]) \ {Child(node, "var")})
    [] OTHER -> UNION {Free(c) : c \in ToSet(node.childs)}
RECURSIVE Rebinds(_)
Rebinds(node) ==
  \/ node.type = "for" /\ Child(node, "var") \in LoopNames(node.childs[3])
  \/ \E c \in ToSet(node.childs) : Rebinds(c)

\* A template renders to its meaning, unless a name of a loop is used outside of it, too, or
\* a brace stands before a mark.
Crowded(source) ==
  \E i \in 1 .. Len(source) - 2 : source[i] = "{" /\ source[i + 1] = "{" /\ source[i + 2] \in {"{", "%"}
MeansWhatItSays(node, vars) ==
  \/ Free(node) \cap LoopNames(node) # {} \/ Rebinds(node)
  \/ \A source \in {SourceOf(node)} : \A text \in {Render(Tree(source), vars)} :
       text = Throws \/ Crowded(source) \/ text = Meaning(node, vars, <<>>)

\* A document comes back from the variables as it went in, unless a key is no name or a
\* number no int; and it stays what it is while no name is read that it does not have.
RECURSIVE Fits32(_)
Fits32(json) ==
  /\ json.type = "int" => json.is \in -IntLimit .. IntLimit - 1
  /\ json.type = "map" => \A k \in DOMAIN json.is : "." \notin ToSet(k)
  /\ json.type \in {"list", "map"} => \A k \in DOMAIN json.is : Fits32(json.is[k])
RECURSIVE Leaves(_, _)
Leaves(value, path) ==
  /\ path # <<>>
  /\ \/ value.type = "map" /\ path[1] \notin DOMAIN value.is
     \/ value.type = "map" /\ path[1] \in DOMAIN value.is /\ Leaves(value.is[path[1]], Tail(path))
     \/ value.type = "list" /\ \E i \in DOMAIN value.is : IndexText(i - 1) = path[1] /\ Leaves(value.is[i], Tail(path))
ComesBack(json, paths) ==
  \A root \in {FromJsonAt(Void, <<>>, json)} :
      /\ Fits32(json) => root # Throws /\ ToJson(root) = json /\ Keys(root) = Keys(json)
      /\ root # Throws =>
           \A p \in paths :
             \A value \in {Get(root, p)} :
                 /\ value # Throws /\ (value.type # "void") => Get(Touched(root, p), p) = value
                 /\ IF Leaves(root, p) THEN ToJson(Touched(root, p)) = Throws ELSE Touched(root, p) = root
                 /\ value # Throws /\ value.type \in {"int", "bool", "list"} =>
                      /\ TypeOfVar(value) = value.type /\ SetVar(root, p, value) = root
                      /\ value.type # "list" => GetAs(value, value.type) = value.is
=============================================================================
