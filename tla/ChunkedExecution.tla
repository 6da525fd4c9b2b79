-------------------------- MODULE ChunkedExecution --------------------------
(***************************************************************************)
(* The executions that process() drives chunk by chunk: memcached asks for *)
(* the values of a column of keys, sqlite3 steps through a statement over  *)
(* virtual tables, SOAP sends row after row to a service.  A call of       *)
(* process() is an action; it returns true when the execution is done.     *)
(***************************************************************************)
EXTENDS Tables

CONSTANTS
  ChunkSize,    \* 1000 in the code for memcached and sqlite3
  SourceTables, \* the tables at the in port, as sequences of rows
  Replies,      \* the values a server may have for a key
  MaxCalls      \* bound: the calls of process()

VARIABLES
  kind,       \* "memcached", "sqlite3" or "soap"
  source,     \* the rows at the in port
  lastOffset,
  result,     \* the table that is filled
  delivered,  \* the table that was set as result, or None
  outcome,    \* "running", "done", "refused" by the other side, "thrown" or "crashed"
  cursor,     \* the row the virtual table is at
  served,     \* the value the servers gave for each source row, in order
  calls

execVars == <<kind, source, lastOffset, result, delivered, outcome, cursor, served, calls>>

Count == Len(source)
KeyColumn == <<[name |-> "key", type |-> "text"]>>
ResultColumn == <<[name |-> "value", type |-> "text"]>>
SourceView == AsView(IF source = <<>> THEN NewTable(KeyColumn)
                     ELSE AppendRaw(NewTable(KeyColumn),
                                    FlattenSeq([i \in DOMAIN source |-> RowText(source[i])])))

ExecInit ==
  /\ kind \in {"memcached", "sqlite3", "soap"} /\ source \in SourceTables
  /\ lastOffset = 0 /\ result = None /\ delivered = None /\ outcome = "running"
  /\ cursor = 0 /\ served = <<>> /\ calls = 0

Started == IF lastOffset = 0 THEN NewTable(ResultColumn) ELSE result
AddRows(start, values) == FoldLeft(LAMBDA t, v : AddRow(t, <<v>>), start, values)

Call == outcome = "running" /\ calls < MaxCalls /\ calls' = calls + 1
Fails(how) ==
  /\ outcome' = how /\ UNCHANGED <<kind, source, lastOffset, result, delivered, cursor, served>>
Goes(row) ==
  /\ lastOffset' = row /\ outcome' = "running" /\ delivered' = None
Delivers(view) ==
  /\ IF view \in Faults THEN outcome' = "thrown" /\ delivered' = None
     ELSE outcome' = "done" /\ delivered' = view
  /\ UNCHANGED lastOffset

-----------------------------------------------------------------------------
(***************************************************************************)
(* memcached: a chunk of keys in one request; a key the server lacks has   *)
(* the value "".  The result is the source with a column more.             *)
(***************************************************************************)
ChunkRows == {row \in lastOffset .. lastOffset + ChunkSize - 1 : row < Count}
KeysOfChunk == {source[row + 1][1] : row \in ChunkRows}
ValuesOfChunk(found) ==
  [i \in 1 .. Cardinality(ChunkRows) |->
     LET key == source[lastOffset + i][1] IN IF found[key] = None THEN <<>> ELSE found[key]]

\* The unsigned row >= getRowCount() - 1 is false for an empty table and true one row early.
\* Mutant: the row count less the chunk.
IsLastEarlier(row) == Count > 0 /\ row >= Count - ChunkSize
IsLast(row) == Count > 0 /\ row >= Count - 1

MemcachedChunk ==
  \E found \in [KeysOfChunk -> Replies \cup {None}] :
    LET values == ValuesOfChunk(found)
        filled == AddRows(Started, values)
        row == lastOffset + Cardinality(ChunkRows)
    IN  /\ kind = "memcached" /\ Call
        /\ result' = filled /\ served' = served \o values
        /\ IF IsLast(row) THEN Delivers(Extended(<<SourceView, AsView(filled)>>)) ELSE Goes(row)
        /\ UNCHANGED <<kind, source, cursor>>

\* The request fails: the server is not there, or there is no key to ask for.
MemcachedFails == kind = "memcached" /\ Call /\ Fails("refused")

-----------------------------------------------------------------------------
(***************************************************************************)
(* sqlite3: the statement selects every row of the virtual table, as the   *)
(* rows of a query over one are (external: the rows sqlite3 computes).     *)
(* The virtual table is the in port's table and a position; "\N" is null,  *)
(* and null is "\N" again in the result.                                   *)
(***************************************************************************)
AtEof(position) == position >= Count
VirtualColumn(position) == LET text == source[position + 1][1] IN IF text = NullText THEN None ELSE text
ColumnText(value) == IF value = None THEN NullText ELSE value

\* The steps of a chunk: rows until the chunk is full or the cursor is at the end.
SqliteChunk ==
  LET steps == Min({ChunkSize, Count - cursor})
      values == [i \in 1 .. steps |-> ColumnText(VirtualColumn(cursor + i - 1))]
      filled == AddRows(Started, values)
  IN  /\ kind = "sqlite3" /\ Call
      /\ cursor' = cursor + steps /\ result' = filled /\ served' = served \o values
      /\ IF steps < ChunkSize /\ AtEof(cursor') THEN Delivers(AsView(filled))
         ELSE Goes(lastOffset + ChunkSize)
      /\ UNCHANGED <<kind, source>>

\* The database is missing or busy, the protocol is not file, the statement wrong.
SqliteFails == kind = "sqlite3" /\ Call /\ Fails("refused")

-----------------------------------------------------------------------------
(***************************************************************************)
(* SOAP: a row a call.  The request is a document of the row; the answer,  *)
(* transformed, is a document of headers and rows, from which a table is   *)
(* read.  A document without a row leaves a null table.                    *)
(***************************************************************************)
\* DomToTable: the table that is made at the first row element, with the headers before it.
TableOfDocument(headings, rows) ==
  IF rows = <<>> THEN None
  ELSE FoldLeft(LAMBDA t, r : IF t = Aborts THEN Aborts ELSE AddRow(t, r),
                NewTable(ReadColumns(headings)), SelectSeq(rows, LAMBDA r : r # <<>>))

\* TableToDom: the values of the row that is asked for.
RequestOf(range) == [r \in 1 .. range.count |-> <<range.column[<<r - 1, 0>>]>>]

\* The documents a service answers with: at most one row here.
Documents == {<<>>} \cup {<<<<v>>>> : v \in Replies}

SoapRow ==
  \E reply \in Documents :
    LET request == RequestOf(Range0(SourceView, lastOffset, 1))
        answer == TableOfDocument(<<<<"value">>>>, reply)
        values == [r \in 1 .. answer.count |-> GetColumn(answer, r - 1, 0)]
        filled == AddRows(IF result = None THEN NewTable(answer.columns) ELSE result, values)
    IN  /\ kind = "soap" /\ Call /\ request[1][1] \notin Faults
        /\ reply # <<>> /\ reply[1][1] # <<>>
        /\ result' = filled /\ served' = Append(served, reply[1][1])
        /\ IF lastOffset + 1 >= Count THEN Delivers(AsView(filled)) ELSE Goes(lastOffset + 1)
        /\ UNCHANGED <<kind, source, cursor>>

\* An empty source: its first row is asked for all the same.
SoapPastTheEnd ==
  /\ kind = "soap" /\ Call
  /\ RequestOf(Range0(SourceView, lastOffset, 1))[1][1] = Aborts /\ Fails("crashed")

\* An answer with no row leaves a null table; a value without text is a null node.
SoapOddAnswer ==
  \E reply \in Documents :
    /\ kind = "soap" /\ Call /\ Count > 0
    /\ TableOfDocument(<<<<"value">>>>, reply) # None => reply[1][1] = <<>>
    /\ Fails("crashed")

\* The transfer fails, or the query lacks its input or its output part.
SoapFails == kind = "soap" /\ Call /\ Fails("refused")

ExecNext ==
  \/ MemcachedChunk \/ MemcachedFails
  \/ SqliteChunk \/ SqliteFails
  \/ SoapRow \/ SoapPastTheEnd \/ SoapOddAnswer \/ SoapFails

-----------------------------------------------------------------------------
IsClean(value) == ToSet(value) \cap Separators = {}
LastRowIsLeft == kind = "memcached" /\ Count > 1 /\ Count % ChunkSize = 1

\* Over any number of chunks every source row is asked for and answered once, in order, and
\* the execution ends after the chunks of its rows: only memcached over an empty table never
\* ends.  It fails of itself only where its last row is alone in a chunk (the end is seen one
\* row early, and the tables do not match) or where a value holds a separator, which addRow
\* does not encode; SOAP crashes only on an empty source or an odd answer.
ChunksArriveWhole ==
  /\ outcome = "done" /\ (\A v \in ToSet(served) : IsClean(v)) =>
       /\ Len(served) = Count /\ delivered.count = Count
       /\ \A r \in 0 .. Count - 1 :
            /\ delivered.column[<<r, Len(delivered.columns) - 1>>] = served[r + 1]
            /\ kind = "memcached" => delivered.column[<<r, 0>>] = source[r + 1][1]
            /\ kind = "sqlite3" => served[r + 1] = source[r + 1][1]
  /\ outcome = "running" =>
       \/ kind = "memcached" /\ Count = 0
       \/ /\ lastOffset = calls * (IF kind = "soap" THEN 1 ELSE ChunkSize) /\ lastOffset <= Count
          /\ cursor = IF kind = "sqlite3" THEN lastOffset ELSE 0
  /\ outcome = "thrown" => LastRowIsLeft \/ \E v \in ToSet(served) : NL \in ToSet(v)
  /\ outcome = "crashed" => kind = "soap"
  /\ kind = "memcached" /\ outcome = "done" => Count > 0
=============================================================================
