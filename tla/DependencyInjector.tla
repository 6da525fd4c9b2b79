-------------------------- MODULE DependencyInjector --------------------------
(***************************************************************************)
(* The statements that a database execution sends as one query: its in     *)
(* ports become temporary tables, filled by INSERT or by COPY, and the     *)
(* query runs twice, for its columns and for its rows.  The executor       *)
(* counts the results that come back to know which step it is at.          *)
(***************************************************************************)
EXTENDS Integers, SequencesExt, FiniteSets

Step(action, table) == [action |-> action, table |-> table]

\* Creating the t-th table and pushing its rows.
PushSteps(t, rows, copyThreshold) ==
  <<Step("COMMAND", 0)>> \o
    (IF rows = 0 THEN <<>>
     ELSE IF rows < copyThreshold THEN <<Step("INSERT", t)>> ELSE <<Step("COPY_IN", t)>>)

\* The query itself; one that is declared to have no result is run first, and
\* "select 1" stands in for it.
QuerySteps(injector) ==
  (IF injector = "noresult" THEN <<Step("COMMAND", 0)>> ELSE <<>>)
    \o <<Step("GET_COLUMN_TYPES", 0), Step("GET_RESULT", 0)>>

\* tables[t] is the number of rows at the t-th in port.
Inject(injector, tables, copyThreshold) ==
  FlattenSeq([t \in DOMAIN tables |-> PushSteps(t, tables[t], copyThreshold)])
    \o QuerySteps(injector)

-----------------------------------------------------------------------------
\* The worker injector puts all statements into one DO block; what creates a table is
\* appended to the last statement there was, not put in its place.
WorkerBlock(tables, copyThreshold) ==
  LET Fill(t) == Tail(PushSteps(t, tables[t], copyThreshold))
      AddTable(block, t) ==
        LET create == block.last \o <<Step("CREATE", t)>>
        IN  [sql |-> block.sql \o create \o Fill(t), last |-> IF Fill(t) = <<>> THEN create ELSE Fill(t)]
  IN  FoldLeft(AddTable, [sql |-> <<>>, last |-> <<>>], [t \in DOMAIN tables |-> t]).sql
        \o QuerySteps("default")

\* The query that is run for its columns: each limit, in whichever case, is made 0, and one
\* is added if there is none.  The query is a sequence of words; 0 is no number for the search.
LimitWords == {"limit", "LIMIT"}
NoRows == [w \in {"5", "5)"} |-> IF w = "5" THEN "0" ELSE "0)"]
TypesQuery(words) ==
  LET limits == {i \in 2 .. Len(words) : words[i - 1] \in LimitWords /\ words[i] \in DOMAIN NoRows}
  IN  IF limits = {} THEN words \o <<"limit", "0">>
      ELSE [i \in DOMAIN words |-> IF i \in limits THEN NoRows[words[i]] ELSE words[i]]

-----------------------------------------------------------------------------
Pushes(steps, t) == {i \in DOMAIN steps : steps[i].table = t /\ steps[i].action \in {"INSERT", "COPY_IN"}}

\* Each table that has rows is filled once; but a worker fills it once more for each table
\* that follows, up to the next one with rows.
TablesFilled(tables, copyThreshold) ==
  \A t \in DOMAIN tables :
    LET Again == {u \in t + 1 .. Len(tables) : \A v \in t + 1 .. u - 1 : tables[v] = 0}
    IN  /\ \A injector \in {"default", "noresult"} :
             Cardinality(Pushes(Inject(injector, tables, copyThreshold), t)) = IF tables[t] = 0 THEN 0 ELSE 1
        /\ Cardinality(Pushes(WorkerBlock(tables, copyThreshold), t)) =
             IF tables[t] = 0 THEN 0 ELSE 1 + Cardinality(Again)

\* A query the server accepts is accepted, too, when it is asked for its columns, and has no
\* rows then unless only a part of it is limited; one whose last limit is 0 gets a second one.
Accepted(words) ==
  \A i \in DOMAIN words :
    /\ words[i] \in LimitWords => i < Len(words) /\ words[i + 1] \in {"0", "5", "0)", "5)"}
    /\ words[i] \in {"0", "5", "0)", "5)"} => i > 1 /\ words[i - 1] \in LimitWords
    /\ words[i] \in {"0", "5"} => i = Len(words)
TypesQueryFits(words) ==
  LET types == TypesQuery(words)
      limited == Last(words) \in {"0", "5"}
      inner == \E w \in ToSet(words) : w = "5)"
  IN  words # <<>> /\ Accepted(words) =>
        /\ Accepted(types) <=> ~(Last(words) = "0" /\ ~inner)
        /\ "0" \in ToSet(types) \/ (inner /\ ~limited)
=============================================================================
