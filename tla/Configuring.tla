----------------------------- MODULE Configuring -----------------------------
(***************************************************************************)
(* The settings of a run: from the arguments of the command or from a JSON *)
(* document of a client of the API; and the credentials of a server.       *)
(* Arguments are an argv of strings in the build that this models: a       *)
(* std::string there is one pointer, as parse() takes it for a char*.      *)
(***************************************************************************)
EXTENDS Outcomes, Integers, Sequences, FiniteSets, SequencesExt, FiniteSetsExt

CONSTANTS
  Exits,       \* the usage is shown and the process ends
  SizeLimit,   \* 2^64, the values of size_t
  PartsOf,     \* a value split at "="
  NumberOf     \* stoi() of a value, or Throws

-----------------------------------------------------------------------------
(***************************************************************************)
(* The options, by what their value is, and what holds without them.       *)
(***************************************************************************)
TextOptions ==
  {"environment", "log-level", "output-dir", "result-dir", "cache-dir", "prefix", "database-registry-file",
   "url-registry-file", "extension-dir", "log-conf", "log-file"}
NumberOptions == {"copy-threshold", "statement-timeout", "max-parallel-executions"}
MapOptions == {"external-sources", "query-parameter"}
ListOptions == {"external-excel-sources"}
Unset == {"help", "show-progress", "dont-execute", "disable-cache"}   \* never initialised
FlagOptions == Unset \cup {"search-password-in-pg-pass", "use-reg-exp-parser"}
TakesValue(o) == o \notin Unset
Options == TextOptions \cup NumberOptions \cup MapOptions \cup ListOptions \cup FlagOptions

Defaults ==
  [o \in Options \cup {"query-file"} |->
     CASE o \in Unset -> Undefined
       [] o \in FlagOptions -> TRUE
       [] o = "copy-threshold" -> 0
       [] o = "statement-timeout" -> 600000 % SizeLimit
       [] o = "max-parallel-executions" -> 1000 % SizeLimit
       [] o \in MapOptions \cup ListOptions -> <<>>
       [] o \in TextOptions -> "default"
       [] OTHER -> ""]

\* The setters; an error ends the reading.
Set(config, o, value) ==
  IF config \in {Throws, Aborts} THEN config
  ELSE IF value \in {Throws, Aborts} THEN value
  ELSE [config EXCEPT ![o] = value]
ToSize(n) == IF n = Throws THEN Throws ELSE n % SizeLimit

-----------------------------------------------------------------------------
(***************************************************************************)
(* The command line.  A token is [option, value] where the option is known *)
(* or [option |-> None, value]: a positional argument; getopt_long reports *)
(* and skips all others, and finds the options behind the positional ones. *)
(***************************************************************************)
ValuesOf(tokens, o) ==
  LET of == SelectSeq(tokens, LAMBDA t : t.option = o)
  IN  [i \in DOMAIN of |-> IF o # None /\ ~TakesValue(o) THEN "" ELSE of[i].value]
HasOption(tokens, o) == ValuesOf(tokens, o) # <<>>
\* Mutant: the last value counts.
GetLastOptionValue(tokens, o) == Last(ValuesOf(tokens, o))
GetOptionValue(tokens, o) == ValuesOf(tokens, o)[1]
GetOptionMapValue(tokens, o) ==
  LET entries == [i \in DOMAIN ValuesOf(tokens, o) |-> PartsOf[ValuesOf(tokens, o)[i]]]
      valid == SelectSeq(entries, LAMBDA e : Len(e) = 2)
  IN  [k \in {e[1] : e \in ToSet(valid)} |-> valid[SelectLastInSeq(valid, LAMBDA e : e[1] = k)][2]]

\* Two positional arguments, where one has a name; then help; then none at all.
ByArguments(tokens) ==
  LET Value(o) == CASE o \in NumberOptions -> ToSize(NumberOf[GetOptionValue(tokens, o)])
                    [] o \in MapOptions -> GetOptionMapValue(tokens, o)
                    [] o \in ListOptions -> ValuesOf(tokens, o)
                    [] OTHER -> GetOptionValue(tokens, o)
      flags == [o \in DOMAIN Defaults |->
                  IF o \in FlagOptions THEN HasOption(tokens, o) ELSE Defaults[o]]
  IN  CASE Len(ValuesOf(tokens, None)) > 1 -> Undefined
        [] HasOption(tokens, "help") \/ ~HasOption(tokens, None) -> Exits
        [] OTHER -> FoldSet(LAMBDA o, c : Set(c, o, Value(o)),
                            Set(flags, "query-file", ValuesOf(tokens, None)[1]),
                            {o \in Options \ FlagOptions : HasOption(tokens, o)})

\* What main() makes of it: the parser and the passwords are no choice there.
OfMain(tokens) ==
  LET config == ByArguments(tokens)
  IN  IF config \in {Undefined, Exits, Throws} THEN config
      ELSE [config EXCEPT !["use-reg-exp-parser"] = TRUE, !["search-password-in-pg-pass"] = TRUE]

-----------------------------------------------------------------------------
(***************************************************************************)
(* fromJson().  A value is [type, is]; a text that is no JSON has no keys. *)
(* A std::string of a null pointer throws, the assignment of one crashes.  *)
(***************************************************************************)
Json(type, is) == [type |-> type, is |-> is]
StringOf(value, otherwise) == IF value.type = "string" THEN value.is ELSE otherwise
ListOf(values) ==
  IF \E v \in ToSet(values) : v.type # "string" THEN Throws
  ELSE [i \in DOMAIN values |-> values[i].is]
MapOf(values) ==
  IF \E k \in DOMAIN values : values[k].type # "string" THEN Aborts
  ELSE [k \in DOMAIN values |-> values[k].is]
FromJson(document) ==
  LET Value(o, value) ==
        CASE o \in NumberOptions -> IF value.type = "integer" THEN ToSize(value.is) ELSE 0
          [] o \in FlagOptions -> value.type = "true"
          [] o \in MapOptions -> IF value.type = "object" THEN MapOf(value.is) ELSE <<>>
          [] o \in ListOptions -> IF value.type = "array" THEN ListOf(value.is) ELSE <<>>
          [] OTHER -> StringOf(value, Throws)
  IN  FoldSet(LAMBDA o, c : Set(c, o, Value(o, document[o])), Defaults, DOMAIN document)

-----------------------------------------------------------------------------
(***************************************************************************)
(* Credentials: from ~/.pgpass, a sequence of lines split at ":", or from  *)
(* what the user types.                                                    *)
(***************************************************************************)
Backspace == "BACKSPACE"
GetPass(keys) ==
  FoldLeft(LAMBDA password, key : IF key # Backspace THEN Append(password, key)
                                  ELSE IF password = <<>> THEN <<>> ELSE Front(password), <<>>, keys)
GetInput(keys) == keys

\* The first of five fields that names the host and the port; split() drops an empty last field.
FromPgPass(lines, url) ==
  LET Names(l) == Len(l) = 5 /\ l[1] = url.host /\ l[2] = url.port
      i == SelectInSeq(lines, Names)
  IN  IF i = 0 THEN <<<<>>, <<>>>> ELSE <<lines[i][4], lines[i][5]>>
GetCredential(searchInPgPass, lines, url, user, password) ==
  LET found == FromPgPass(lines, url)
  IN  IF searchInPgPass /\ found[1] # <<>> THEN found ELSE <<GetInput(user), GetPass(password)>>

-----------------------------------------------------------------------------
\* The document that says the same as the tokens: the first value of an option counts, but
\* of a map the last of each key.
DocumentOf(tokens) ==
  [o \in {t.option : t \in ToSet(tokens)} \ {None} |->
     LET values == ValuesOf(tokens, o)
         Strings(f) == [k \in DOMAIN f |-> Json("string", f[k])]
         entries == SelectSeq(values, LAMBDA v : Len(PartsOf[v]) = 2)
         keys == {PartsOf[v][1] : v \in ToSet(entries)}
     IN  CASE o \in TextOptions -> Json("string", values[1])
           [] o \in NumberOptions -> Json("integer", NumberOf[values[1]])
           [] o \in FlagOptions -> Json("true", TRUE)
           [] o \in ListOptions -> Json("array", Strings(values))
           [] o \in MapOptions ->
                Json("object", [k \in keys |-> Json("string",
                  PartsOf[entries[Max({i \in DOMAIN entries : PartsOf[entries[i]][1] = k})]][2])])]

\* A flag that is not given is false on the command line, and what the memory holds in the
\* API; but the two that main() sets are true in both.
SameSettings(tokens) ==
  LET byArguments == OfMain(tokens)
      byJson == FromJson(DocumentOf(tokens))
      named == {t.option : t \in ToSet(tokens)}
  IN  byArguments \notin {Undefined, Exits} =>
        IF Throws \in {byArguments, byJson} THEN byArguments = byJson
        ELSE \A o \in Options :
               IF o \notin FlagOptions \/ o \in named THEN byArguments[o] = byJson[o]
               ELSE IF o \in Unset THEN ~byArguments[o] /\ byJson[o] = Undefined
               ELSE byArguments[o] /\ byJson[o]

\* Typing a character and taking it back changes no password; a user name keeps both.
TakenBack(keys) ==
  \A i \in 0 .. Len(keys) :
    LET typed == SubSeq(keys, 1, i) \o <<"x", Backspace>> \o SubSeq(keys, i + 1, Len(keys))
    IN  GetPass(typed) = GetPass(keys) /\ GetInput(typed) # GetInput(keys)

\* No server gets the credentials of another: they come from its line, or are asked for.
OwnCredentials(lines, url) ==
  LET credential == GetCredential(TRUE, lines, url, <<"u">>, <<"p">>)
  IN  credential # <<<<"u">>, <<"p">>>> =>
        \E l \in ToSet(lines) : Len(l) = 5 /\ l[1] = url.host /\ l[2] = url.port /\ <<l[4], l[5]>> = credential
=============================================================================
