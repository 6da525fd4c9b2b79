------------------------------- MODULE Tables -------------------------------
(***************************************************************************)
(* The tables that results are kept in.  A CsvTableData holds the rows in  *)
(* PostgreSQL's text format, cells ended by a tab or a newline, and an     *)
(* index of where each cell starts; joined, splitted, extended and range   *)
(* tables are views of others.  Rows, columns and offsets count from 0.    *)
(***************************************************************************)
EXTENDS Outcomes, Integers, Sequences, FiniteSets, SequencesExt, FiniteSetsExt

CONSTANT Characters   \* of a text

Tab == "TAB"
NL == "NL"
Backslash == "\\"
Separators == {Tab, NL}
Letter == [TAB |-> "t", NL |-> "n"]

\* No outcome is a text, a number or the size of an index.
ASSUME TextAssumption ==
  /\ Separators \cup {Backslash} \cup {Letter[s] : s \in Separators} \subseteq Characters
  /\ \A outcome \in {None, Throws, Aborts, Undefined} :
       outcome \notin Seq(Characters) /\ outcome \notin Nat /\ outcome \notin [rows : Nat, cols : Nat]

NullText == <<Backslash, "N">>

At(s, i) == s[i + 1]
Ascending(S) == [k \in 1 .. Cardinality(S) |-> CHOOSE x \in S : Cardinality({y \in S : y < x}) = k - 1]

-----------------------------------------------------------------------------
(***************************************************************************)
(* TypeRegistry: an unknown name is TEXT.                                  *)
(***************************************************************************)
Types == {"text", "int4", "bool", "json", "date"}
TypeOf(typeName) == IF typeName \in Types THEN typeName ELSE "text"

\* A column heading is <<name>> or <<name, type>>; an empty one is refused in a file.
ColDef(heading) == [name |-> heading[1], type |-> IF Len(heading) = 1 THEN "text" ELSE TypeOf(heading[2])]
ReadColumns(headings) ==
  IF <<>> \in ToSet(headings) THEN Throws ELSE [i \in DOMAIN headings |-> ColDef(headings[i])]

-----------------------------------------------------------------------------
(***************************************************************************)
(* CsvTableData                                                            *)
(***************************************************************************)
NewTable(columns) ==
  [columns |-> columns, data |-> None, count |-> 0, offsets |-> <<>>, index |-> Undefined]

CalculateRowCount(data) == Cardinality({i \in DOMAIN data : data[i] = NL})

\* The index after the first chunk: where the text starts, and after each separator but the last.
BuildIndex(data) ==
  LET ends == Ascending({i \in DOMAIN data : data[i] \in Separators})
  IN  [k \in DOMAIN ends |-> IF k = 1 THEN 0 ELSE ends[k - 1]]

Filled(table, data) ==
  [table EXCEPT !.data = data, !.count = CalculateRowCount(data), !.offsets = BuildIndex(data),
                !.index = [rows |-> CalculateRowCount(data), cols |-> Len(table.columns)]]

\* Mutant: a later chunk is scanned from its own first character.
AppendRawFromItsStart(table, raw) ==
  IF table.data = None THEN Filled(table, raw)
  ELSE LET size == Len(table.data)
           data == table.data \o raw
           found == {i \in size + 1 .. Len(data) : data[i] \in Separators}
           rows == table.count + Cardinality({i \in found : data[i] = NL})
       IN  [table EXCEPT !.data = data, !.count = rows, !.index.rows = rows,
                         !.offsets = @ \o [k \in DOMAIN Ascending(found) |-> Ascending(found)[k] - 1]]

\* A later chunk is scanned from the character before it, so that the end of the chunk
\* before gives the start of its first cell.
AppendRaw(table, raw) ==
  IF table.data = None THEN Filled(table, raw)
  ELSE LET size == Len(table.data)
           data == table.data \o raw
           found == {i \in size .. Len(data) - 1 : data[i] \in Separators}
           rows == table.count + Cardinality({i \in found : data[i] = NL})
       IN  [table EXCEPT !.data = data, !.count = rows, !.index.rows = rows,
                         !.offsets = @ \o Ascending(found)]

RowText(row) == FlattenSeq([c \in DOMAIN row |-> row[c] \o <<IF c = Len(row) THEN NL ELSE Tab>>])
AddRow(table, row) ==
  IF Len(row) # Len(table.columns) THEN Aborts ELSE AppendRaw(table, RowText(row))

GetOffset(table, row, col) ==
  IF table.index = Undefined THEN Undefined
  ELSE IF row >= table.index.rows \/ col >= table.index.cols THEN Aborts
  ELSE LET k == row * table.index.cols + col
       IN  IF k \in 0 .. Len(table.offsets) - 1 THEN At(table.offsets, k) ELSE Undefined

Faults == {Aborts, Undefined, Throws}

\* The cell ends at the next separator, or with the text.
GetColumn(table, row, col) ==
  LET start == GetOffset(table, row, col)
      ends == {i \in start .. Len(table.data) - 1 : At(table.data, i) \in Separators}
  IN  IF start \in Faults THEN start
      ELSE IF start > Len(table.data) THEN Undefined
      ELSE SubSeq(table.data, start + 1, IF ends = {} THEN Len(table.data) ELSE Min(ends))

GetRows(table, start, rows) ==
  LET first == GetOffset(table, start, 0)
      last == IF start + rows = table.count THEN Len(table.data) ELSE GetOffset(table, start + rows, 0)
  IN  IF start + rows > table.count THEN Aborts
      ELSE IF first \in Faults THEN first
      ELSE IF last \in Faults THEN last ELSE SubSeq(table.data, first + 1, last)

\* save() writes the text and, beside it, the index; the index must be rectangular.
SaveTable(table) ==
  IF table.count # 0 /\ Len(table.offsets) % table.count # 0 THEN Aborts
  ELSE [columns |-> table.columns, data |-> IF table.data = None THEN <<>> ELSE table.data,
        index |-> [rows |-> table.count, cols |-> Len(table.columns), offsets |-> table.offsets]]

\* An index beside the file is taken as it is; else the text is scanned.
Load(file) ==
  IF file.columns = Throws THEN Throws
  ELSE IF file.index = None THEN Filled(NewTable(file.columns), file.data)
  ELSE IF Len(file.columns) # file.index.cols THEN Aborts
  ELSE [columns |-> file.columns, data |-> file.data, count |-> file.index.rows,
        offsets |-> file.index.offsets, index |-> [rows |-> file.index.rows, cols |-> file.index.cols]]

-----------------------------------------------------------------------------
(***************************************************************************)
(* encode() and decode().  A control character is its own value here and   *)
(* the letter after a backslash there.                                     *)
(***************************************************************************)
Encode(value) ==
  FlattenSeq([i \in DOMAIN value |->
    IF value[i] = Backslash THEN <<Backslash, Backslash>>
    ELSE IF value[i] \in Separators THEN <<Backslash, Letter[value[i]]>> ELSE <<value[i]>>])

\* A character after an odd run of backslashes is escaped; an unknown escape is dropped.
Escaped(value) ==
  LET odd[i \in 0 .. Len(value)] == i > 0 /\ value[i] = Backslash /\ ~odd[i - 1]
  IN  {i \in DOMAIN value : odd[i - 1]}
Decode(value) ==
  LET escaped == Escaped(value)
      Char(i) == IF i \notin escaped THEN IF value[i] = Backslash THEN <<>> ELSE <<value[i]>>
                 ELSE IF value[i] = Backslash THEN <<Backslash>>
                 ELSE [c \in 1 .. Cardinality({s \in Separators : Letter[s] = value[i]}) |->
                         CHOOSE s \in Separators : Letter[s] = value[i]]
  IN  FlattenSeq([i \in DOMAIN value |-> Char(i)])

-----------------------------------------------------------------------------
(***************************************************************************)
(* A table as the other components see it: its columns, its row count,     *)
(* column[r, c] and rows[start, count], whatever kind of table it is.      *)
(***************************************************************************)
Cells(count, columns) == (0 .. count - 1) \X (0 .. Len(columns) - 1)
Spans(count) == {s \in (0 .. count) \X (0 .. count) : s[1] + s[2] <= count}
View(columns, count, Column(_, _), Rows(_, _)) ==
  [columns |-> columns, count |-> count,
   column |-> [p \in Cells(count, columns) |-> Column(p[1], p[2])],
   rows |-> [p \in Spans(count) |-> Rows(p[1], p[2])]]

AsView(table) ==
  View(table.columns, table.count, LAMBDA r, c : GetColumn(table, r, c), LAMBDA s, n : GetRows(table, s, n))

\* The text of rows start .. start + n - 1, each asked for alone; a fault ends the call.
Collected(n, Row(_)) ==
  LET texts == [k \in 1 .. n |-> Row(k - 1)]
      bad == ToSet(texts) \cap Faults
  IN  IF bad = {} THEN FlattenSeq(texts) ELSE CHOOSE f \in bad : TRUE
OneRow(source, row) == IF row < source.count THEN source.rows[<<row, 1>>] ELSE Aborts
OneCell(source, row, col) == IF row < source.count THEN source.column[<<row, col>>] ELSE Aborts

\* JoinedTableData: the row of the source whose rows it falls into.
Starts(sources) ==
  LET before[i \in 0 .. Len(sources)] == IF i = 0 THEN 0 ELSE before[i - 1] + sources[i].count
  IN  before
Relative(sources, row) ==
  LET starts == Starts(sources)
      i == CHOOSE k \in DOMAIN sources : row >= starts[k - 1] /\ row < starts[k]
  IN  IF row >= starts[Len(sources)] THEN Throws ELSE <<i, row - starts[i - 1]>>
Joined(sources) ==
  LET In(row) == Relative(sources, row)
      Line(row) == OneRow(sources[In(row)[1]], In(row)[2])
  IN  IF \E s \in ToSet(sources) : Len(s.columns) # Len(sources[1].columns) THEN Aborts
      ELSE View(sources[1].columns, Starts(sources)[Len(sources)],
                LAMBDA r, c : sources[In(r)[1]].column[<<In(r)[2], c>>],
                LAMBDA s, n : Collected(n, LAMBDA k : Line(s + k)))

\* SplittedTableData: the rows of a shard.
Splitted(source, picked) ==
  View(source.columns, Len(picked), LAMBDA r, c : OneCell(source, At(picked, r), c),
       LAMBDA s, n : Collected(n, LAMBDA k : OneRow(source, At(picked, s + k))))

\* TableDataRange: its cells are the source's from startRow on, its rows the first of
\* those that are asked for, as often as there are rows.  Mutant: the first of the range.
RangeFromItsStart(source, startRow, count) ==
  View(source.columns, count, LAMBDA r, c : OneCell(source, startRow, c),
       LAMBDA s, n : Collected(n, LAMBDA k : OneRow(source, startRow)))
Range0(source, startRow, count) ==
  View(source.columns, count, LAMBDA r, c : OneCell(source, startRow + r, c),
       LAMBDA s, n : Collected(n, LAMBDA k : OneRow(source, startRow + s)))

\* ExtendedTableData: columns of tables of the same row count, side by side.
ColRefs(tables) ==
  FlattenSeq([t \in DOMAIN tables |-> [c \in DOMAIN tables[t].columns |-> <<t, c - 1>>]])
Extended(tables) ==
  LET refs == ColRefs(tables)
      Cell(r, c) == tables[At(refs, c)[1]].column[<<r, At(refs, c)[2]>>]
      Line(r) == Collected(Len(refs), LAMBDA c :
                   IF Cell(r, c) \in Faults THEN Cell(r, c)
                   ELSE Append(Cell(r, c), IF c = Len(refs) - 1 THEN NL ELSE Tab))
  IN  IF \E t \in ToSet(tables) : t.count # tables[1].count THEN Throws
      ELSE View([k \in DOMAIN refs |-> tables[refs[k][1]].columns[refs[k][2] + 1]], tables[1].count,
                Cell, LAMBDA s, n : Collected(n, LAMBDA k : Line(s + k)))

\* save() of a view writes the text only; it leaves an index file that is there.
SaveView(view, index) == [columns |-> view.columns, data |-> view.rows[<<0, view.count>>], index |-> index]
=============================================================================
