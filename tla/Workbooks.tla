------------------------------ MODULE Workbooks ------------------------------
(***************************************************************************)
(* External sources: a text file or a sheet of an Excel workbook, read by  *)
(* an execution of the type resource.  A workbook is [sheets, rels,        *)
(* strings, entries]: its sheets [name, id], its relationships             *)
(* [id, target], the items of its shared strings, each the texts it        *)
(* consists of, and the rows of each entry.  A cell is                     *)
(* [letters, shared, texts]: the letters of its column, whether its text   *)
(* is the number of a shared string, and its texts, the formula before the *)
(* value; without a text it is an empty element.                           *)
(***************************************************************************)
EXTENDS Tables

CONSTANTS
  UintLimit,      \* 2^32, the values of uint32_t
  NumberOfText    \* stoi() of a text, or Throws

\* A text goes on with the last string if that has its number, else it is one of its own.
SharedStrings(items) ==
  LET AddText(strings, index, text) ==
        IF Len(strings) - 1 = index THEN [strings EXCEPT ![Len(strings)] = @ \o text] ELSE Append(strings, text)
  IN  FoldLeft(LAMBDA strings, i : FoldLeft(LAMBDA s, text : AddText(s, i - 1, text), strings, items[i]),
               <<>>, [i \in DOMAIN items |-> i])

SheetNames(book) == [i \in DOMAIN book.sheets |-> book.sheets[i].name]
NameById(book, id) == book.sheets[SelectLastInSeq(book.sheets, LAMBDA s : s.id = id)].name
SheetNamesByTarget(book) ==
  LET named == SelectSeq(book.rels, LAMBDA r : \E s \in ToSet(book.sheets) : s.id = r.id)
  IN  [target \in {r.target : r \in ToSet(named)} |->
         NameById(book, named[SelectLastInSeq(named, LAMBDA r : r.target = target)].id)]

-----------------------------------------------------------------------------
(***************************************************************************)
(* parseData(): the reader of a sheet is [row, col, columns, data]; a cell *)
(* that stands further right than the reader is leaves a gap.  In the      *)
(* first row the reader goes on by two for each cell.                      *)
(***************************************************************************)
NewReader == [row |-> 0, col |-> 0, columns |-> <<>>, data |-> <<>>]
EscapedText(text) ==
  FlattenSeq([i \in DOMAIN text |-> IF text[i] \in Separators THEN <<Backslash, Letter[text[i]]>> ELSE <<text[i]>>])

\* Only the first letter counts; what follows must be the number of the row.
RegionToPoint(letters) == IF Len(letters) # 1 THEN Throws
                          ELSE CHOOSE k \in 0 .. 3 : <<"A", "B", "C", "D">>[k + 1] = letters[1]

\* col < columns.size() - 1, where the size may be 0.
InsertNull(r) ==
  [r EXCEPT !.data = @ \o NullText \o IF r.columns = <<>> \/ r.col < Len(r.columns) - 1 THEN <<Tab>> ELSE <<>>,
            !.col = (@ + 1) % UintLimit]
InsertNulls(r, n) == FoldLeft(LAMBDA s, k : InsertNull(s), r, [k \in 1 .. n |-> k])
\* Mutant: cells beyond the last column are no special case.
GapToCell(r, point) == (point - r.col) % UintLimit
Gap(r, point) == (IF point > Len(r.columns) THEN Len(r.columns) - r.col ELSE point - r.col) % UintLimit

TextOf(cell, text, strings) ==
  IF ~cell.shared THEN text
  ELSE IF NumberOfText[text] = Throws THEN Throws
  ELSE IF NumberOfText[text] \in 0 .. Len(strings) - 1 THEN strings[NumberOfText[text] + 1] ELSE Undefined

Text(r, value) ==
  CASE r \in Faults -> r
    [] value \in Faults -> value
    [] r.row = 0 -> [r EXCEPT !.columns = Append(@, value), !.col = (@ + 1) % UintLimit]
    [] r.col >= Len(r.columns) -> r
    [] OTHER -> [r EXCEPT !.data = @ \o EscapedText(value)]
EndOfCell(r) ==
  IF r \in Faults THEN r
  ELSE LET col == (r.col + 1) % UintLimit
       IN  [r EXCEPT !.col = col, !.data = @ \o IF r.row > 0 /\ col < Len(r.columns) THEN <<Tab>> ELSE <<>>]
ReadCell(r, cell, strings) ==
  LET point == RegionToPoint(cell.letters)
      filled == InsertNulls(r, Gap(r, point))
  IN  CASE r \in Faults -> r
        [] point = Throws -> Throws
        [] cell.texts = <<>> -> filled
        [] OTHER -> EndOfCell(FoldLeft(LAMBDA s, t : Text(s, TextOf(cell, t, strings)), filled, cell.texts))

\* An own loop fills the rest of a row.
EndOfRow(r) ==
  IF r \in Faults THEN r
  ELSE LET rest == IF r.row = 0 \/ r.col >= Len(r.columns) THEN <<>>
                   ELSE FlattenSeq([k \in 1 .. Len(r.columns) - r.col |->
                          NullText \o IF r.col + k < Len(r.columns) THEN <<Tab>> ELSE <<>>])
       IN  [r EXCEPT !.data = @ \o rest \o IF r.row > 0 THEN <<NL>> ELSE <<>>, !.row = @ + 1, !.col = 0]
ParseData(rows, strings) ==
  FoldLeft(LAMBDA r, row : EndOfRow(FoldLeft(LAMBDA s, cell : ReadCell(s, cell, strings), r, row)), NewReader, rows)

\* transform(): of two sheets with one name the one whose target comes last stays.
SheetTable(reader) ==
  IF reader \in Faults THEN reader
  ELSE AppendRaw(NewTable([i \in DOMAIN reader.columns |-> ColDef(<<reader.columns[i]>>)]), reader.data)
Transform(book) ==
  LET strings == SharedStrings(book.strings)
      TablesAt(targets) == [t \in targets |-> SheetTable(ParseData(book.entries[t], strings))]
      ByName(names, tables) ==
        LET faulty == {t \in DOMAIN tables : tables[t] \in Faults}
        IN  IF faulty # {} THEN tables[CHOOSE t \in faulty : TRUE]
            ELSE [name \in {names[t] : t \in DOMAIN names} |->
                    tables[Max({t \in DOMAIN names : names[t] = name})]]
      Named(names) == IF DOMAIN names \subseteq DOMAIN book.entries THEN ByName(names, TablesAt(DOMAIN names))
                      ELSE Throws
  IN  Named(SheetNamesByTarget(book))

\* ResourceQueryExecution::process(): a sheet that is not there is a null pointer.
ProcessResource(url, book, file) ==
  IF url.extension # "xlsx" THEN Load(file)
  ELSE LET tables == Transform(book)
       IN  IF tables \in Faults THEN tables
           ELSE IF url.fragment \in DOMAIN tables THEN tables[url.fragment] ELSE None
\* bootstrap() makes a source of each sheet of a workbook, under its name.
SourcesOf(path, book) == [name \in ToSet(SheetNames(book)) |-> [extension |-> "xlsx", path |-> path, fragment |-> name]]

-----------------------------------------------------------------------------
\* What a sheet shows.
PointsOf(row) == [i \in DOMAIN row |-> RegionToPoint(row[i].letters)]
Contiguous(row) == \A i \in DOMAIN row : PointsOf(row)[i] = i - 1 /\ row[i].texts # <<>>
CellText(row, k, strings) ==
  LET i == SelectInSeq(row, LAMBDA cell : RegionToPoint(cell.letters) = k /\ cell.texts # <<>>)
  IN  IF i = 0 THEN NullText
      ELSE FlattenSeq([t \in DOMAIN row[i].texts |-> EscapedText(TextOf(row[i], row[i].texts[t], strings))])
RowsShown(rows, strings) ==
  [k \in 1 .. Len(rows) - 1 |-> [c \in 1 .. Len(rows[1]) |-> CellText(rows[k + 1], c - 1, strings)]]

\* A sheet with one column arrives as it is shown, with nulls where nothing is; of more, the
\* headings after the first put 2^32 - 1 nulls each before the rows.  So does a cell after one
\* that stands beyond the headings: such rows are left out here, and so is what gives a fault.
SheetArrives(rows, strings) ==
  LET reader == ParseData(rows, strings)
      GoesBack(row) == \E i \in 1 .. Len(row) - 1 : PointsOf(row)[i] >= Len(rows[1]) /\ row[i].texts # <<>>
      text == FlattenSeq([k \in DOMAIN RowsShown(rows, strings) |-> RowText(RowsShown(rows, strings)[k])])
      nobodys == Len(reader.data) - Len(text)
  IN  (/\ reader \notin Faults /\ rows # <<>> /\ rows[1] # <<>> /\ Contiguous(rows[1])
       /\ \A cell \in ToSet(rows[1]) : Len(cell.texts) = 1
       /\ \A k \in 2 .. Len(rows) : ~GoesBack(rows[k])) =>
        /\ Len(reader.columns) = Len(rows[1])
        /\ nobodys >= 0 /\ SubSeq(reader.data, nobodys + 1, Len(reader.data)) = text
        /\ Cardinality({i \in 1 .. nobodys : reader.data[i] = "N"}) = (UintLimit - 1) * (Len(rows[1]) - 1)

\* A shared string has its own number as long as no item before it is empty; and the source
\* made of a sheet is the table at the target of its id, if no other sheet has its name.
SourcesArrive(book) ==
  LET strings == SharedStrings(book.strings)
      sources == SourcesOf("p", book)
      Target(s) == (CHOOSE r \in ToSet(book.rels) : r.id = s.id).target
  IN  /\ \A i \in DOMAIN book.strings :
           (\A k \in 1 .. i : book.strings[k] # <<>>) => strings[i] = FlattenSeq(book.strings[i])
      /\ \A s \in ToSet(book.sheets) : \A found \in {ProcessResource(sources[s.name], book, None)} :
           found \notin Faults /\ (\A t \in ToSet(book.sheets) \ {s} : t.name # s.name) =>
             found = IF {r \in ToSet(book.rels) : r.id = s.id} = {} THEN None
                     ELSE SheetTable(ParseData(book.entries[Target(s)], strings))
=============================================================================
