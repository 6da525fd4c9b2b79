---------------------------- MODULE StoredTable ----------------------------
(***************************************************************************)
(* The life of one table: the execution appends what arrives, the cache or *)
(* the output saves it, someone edits the file, a later run loads it.      *)
(***************************************************************************)
EXTENDS Tables

CONSTANTS
  Columns,    \* of the table
  Values,     \* what a cell may stand for; the text format encodes it
  MaxRows     \* bound: the rows of a table

\* A result has a column.
ASSUME StoredAssumption ==
  Columns \in Seq(ToSet(Columns)) \ {<<>>} /\ Columns # Throws /\ Values \subseteq Seq(Characters)

VARIABLES
  table,      \* the CsvTableData
  written,    \* the rows that were put into it
  origin,     \* "built", "loaded" or "misled": loaded with an index of another text
  file,       \* [columns, data, index] or None
  fileRows,   \* the rows the file was written with
  stale       \* the index file is older than the file beside it

storedVars == <<table, written, origin, file, fileRows, stale>>

Row == {[c \in DOMAIN Columns |-> Encode(v[c])] : v \in [DOMAIN Columns -> Values]}

StoredInit ==
  /\ table = NewTable(Columns) /\ written = <<>> /\ origin = "built" /\ file = None
  /\ fileRows = <<>> /\ stale = FALSE

\* A buffer of COPY holds whole rows.
AppendChunk ==
  \E rows \in {<<r>> : r \in Row} \cup {<<r, r>> : r \in Row} :
    /\ origin = "built" /\ Len(written) + Len(rows) <= MaxRows
    /\ table' = AppendRaw(table, FlattenSeq([i \in DOMAIN rows |-> RowText(rows[i])]))
    /\ written' = written \o rows
    /\ UNCHANGED <<origin, file, fileRows, stale>>

AddOneRow ==
  \E row \in Row :
    /\ origin = "built" /\ Len(written) < MaxRows
    /\ table' = AddRow(table, row) /\ written' = Append(written, row)
    /\ UNCHANGED <<origin, file, fileRows, stale>>

Save ==
  /\ origin # "misled"
  /\ file' = SaveTable(table) /\ fileRows' = written /\ stale' = FALSE
  /\ UNCHANGED <<table, written, origin>>

\* A view of the table is the result: its file has no index.
SaveAsView ==
  /\ origin # "misled" /\ table.count > 0
  /\ file' = SaveView(Splitted(AsView(table), <<table.count - 1>>), None)
  /\ fileRows' = <<Last(written)>> /\ stale' = FALSE
  /\ UNCHANGED <<table, written, origin>>

\* Someone writes a text file of that name, and leaves the index file.
Edit ==
  \E row \in Row :
    /\ file # None
    /\ file' = [file EXCEPT !.data = RowText(row)]
    /\ fileRows' = <<row>> /\ stale' = (file.index # None)
    /\ UNCHANGED <<table, written, origin>>

LoadFile ==
  /\ file # None
  /\ table' = Load(file) /\ written' = fileRows
  /\ origin' = IF stale THEN "misled" ELSE "loaded"
  /\ UNCHANGED <<file, fileRows, stale>>

StoredNext ==
  \/ AppendChunk \/ AddOneRow
  \/ Save \/ SaveAsView \/ Edit \/ LoadFile

StoredSpec == StoredInit /\ [][StoredNext]_storedVars

-----------------------------------------------------------------------------
Texts(rows) == FlattenSeq([i \in DOMAIN rows |-> RowText(rows[i])])
Shows(view, rows, spans) ==
  /\ view.count = Len(rows)
  /\ \A p \in DOMAIN view.column : view.column[p] = rows[p[1] + 1][p[2] + 1]
  /\ \A s \in spans : view.rows[s] = Texts(SubSeq(rows, s[1] + 1, s[1] + s[2]))

\* Joined, splitted, extended and range tables show the cells and the text of the rows they
\* stand for, also one upon the other; a range gives its text only row by row
\* (TableDataRange::getRows asks for its first row again and again).
ViewsShow ==
  table.count > 0 =>
    LET view == AsView(table)
        n == table.count
        twice == Joined(<<view, view>>)
        backwards == Splitted(twice, [k \in 1 .. 2 * n |-> 2 * n - k])
        All(v) == {s \in DOMAIN v.rows : s[1] < v.count}
    IN  /\ Shows(view, written, All(view))
        /\ Shows(twice, written \o written, All(twice))
        /\ Shows(backwards, Reverse(written) \o Reverse(written), All(backwards))
        /\ LET wide == Extended(<<view, view>>)
           IN  Shows(wide, [r \in 1 .. n |-> written[r] \o written[r]], All(wide))
        /\ \A s \in 0 .. n - 1 :
             LET range == Range0(view, s, n - s)
             IN  Shows(range, SubSeq(written, s + 1, n), {p \in All(range) : p[2] = 1})
        /\ twice.count # n /\ Extended(<<view, twice>>) = Throws

\* Whatever was appended, saved and loaded, in chunks of any number of rows, every cell
\* reads back as it was written and the rows are as many, in the table and in all its views:
\* the index (appendRaw, buildIndex, save, load) and the text agree, and decode() undoes
\* encode().  Only an index that is older than its text can mislead.
TablesReadBack ==
  origin # "misled" =>
    /\ table.count = Len(written)
    /\ \A r \in 0 .. table.count - 1, c \in 0 .. Len(Columns) - 1 :
         /\ GetColumn(table, r, c) = written[r + 1][c + 1]
         /\ Encode(Decode(GetColumn(table, r, c))) = written[r + 1][c + 1]
    /\ ViewsShow
=============================================================================
