--------------------------- MODULE CacheRegistry ---------------------------
(***************************************************************************)
(* CacheRegistry.cpp and what QueryProcessor does with it: results are     *)
(* kept on disk across runs, each as three files, the table <id>.csv, its  *)
(* index <id>.csv.idx and its description <id>.cache, and reached from the *)
(* output directory by a symbolic link.  The process may die between any   *)
(* two writes, and writing a table or an index may fail without anybody    *)
(* noticing (save() does not look at its stream).                          *)
(***************************************************************************)
EXTENDS Integers

CONSTANTS
  Names,     \* the results of a run: the out ports of its executions
  Moved,     \* those of transitions: views of other tables, saved without an index or a link
  Ids,       \* the ids of ports, which stand for the texts of the queries
  MovedIds,  \* those of the ports of transitions
  MaxRuns    \* bound: how often the program is started

ASSUME CacheAssumption ==
  /\ Names # {} /\ Ids # {} /\ "none" \notin Names \cup Ids
  /\ Moved \subseteq Names /\ MovedIds \subseteq Ids /\ MaxRuns \in Nat \ {0}

VARIABLES
  run,       \* which run this is; also the version of what its queries return
  phase,     \* "load", "execute", "finished" or "failed"
  option,    \* --disable-cache
  id,        \* the id of each result, from the text of its query in this run
  looked,    \* the results that have been looked up
  got,       \* where this run has each result from: "none", "cache" or "query"
  saving,    \* the result being saved, or "none"
  step,      \* how far saving is
  items,     \* CacheRegistry::items: the version each item describes, Torn if it has no path
  table,     \* the csv files: version and whether all of it was written
  index,     \* the index files: the version of the table they were built from
  desc,      \* the description files: the version they describe, or Torn
  link,      \* the links of the output directory: an id, or "none"
  exposed    \* history: described ids whose table was opened for writing, or cut short

disk == <<table, index, desc, link, exposed>>
vars == <<run, phase, option, id, looked, got, saving, step, items, disk>>

Versions == 1 .. MaxRuns
Absent == -1
Torn == 0
Described == Versions \cup {Torn, Absent}
NoTable == [version |-> Absent, whole |-> FALSE]
Steps == {"idle", "register", "table", "written", "indexed", "desc", "described", "unlinked"}

\* Two results have different ids: their texts, or their ports, differ.
Texts ==
  {f \in [Names -> Ids] :
    \A m, n \in Names : (f[m] = f[n] => m = n) /\ (f[n] \in MovedIds <=> n \in Moved)}

TypeOK ==
  /\ run \in Versions /\ phase \in {"load", "execute", "finished", "failed"}
  /\ option \in BOOLEAN /\ id \in Texts /\ looked \subseteq Names
  /\ got \in [Names -> {"none", "cache", "query"}]
  /\ saving \in Names \cup {"none"} /\ step \in Steps
  /\ items \in [Ids -> Described]
  /\ table \in [Ids -> {NoTable} \cup [version : Versions, whole : BOOLEAN]]
  /\ index \in [Ids -> Described] /\ desc \in [Ids -> Described]
  /\ link \in [Names -> Ids \cup {"none"}] /\ exposed \subseteq Ids

\* A process that has just started: only the disk is what it was.
Starts(r) ==
  /\ run' = r /\ phase' = "load" /\ option' \in BOOLEAN /\ id' \in Texts
  /\ looked' = {} /\ got' = [n \in Names |-> "none"] /\ saving' = "none" /\ step' = "idle"
  /\ items' = [i \in Ids |-> Absent]

Init ==
  /\ run = 1 /\ phase = "load" /\ option \in BOOLEAN /\ id \in Texts
  /\ looked = {} /\ got = [n \in Names |-> "none"] /\ saving = "none" /\ step = "idle"
  /\ items = [i \in Ids |-> Absent]
  /\ table = [i \in Ids |-> NoTable] /\ index = [i \in Ids |-> Absent]
  /\ desc = [i \in Ids |-> Absent]
  /\ link = [n \in Names |-> "none"] /\ exposed = {}

\* The end of a run, or a crash in the middle of it, and the next one; in between the
\* user may throw away a table.
Restart(gone) ==
  /\ run < MaxRuns /\ Starts(run + 1)
  /\ table' = [i \in Ids |-> IF i \in gone THEN NoTable ELSE table[i]]
  /\ UNCHANGED <<index, desc, link, exposed>>

-----------------------------------------------------------------------------
(***************************************************************************)
(* loadFromCache(), one result at a time.  exists() is true for an item in *)
(* memory and for a description file, readable or not; an item that could  *)
(* not be read gets an empty path when it is asked for.                    *)
(***************************************************************************)
Known(i) == items[i] # Absent \/ desc[i] # Absent

Item(i) == IF items[i] # Absent THEN items[i] ELSE desc[i]

Exists(i) == table[i] # NoTable
Leads(n) == link[n] # "none" /\ Exists(link[n])

\* Mutant: a link that leads nowhere is kept.
RelinkedOnce(n, i) == IF link[n] # "none" THEN link[n] ELSE i

\* The link is made when there is none, or none that leads anywhere.
Relinked(n, i) == IF Leads(n) THEN link[n] ELSE i

Hit(i) == Known(i) /\ Item(i) # Torn /\ Exists(i) /\ ~option

LooksUp(n) ==
  /\ phase = "load" /\ n \notin looked
  /\ items' = [items EXCEPT ![id[n]] = Item(id[n])]
  /\ UNCHANGED <<run, option, id, saving, step, table, index, desc, exposed>>

LookUp(n) ==
  /\ LooksUp(n) /\ looked' = looked \cup {n}
  /\ got' = [got EXCEPT ![n] = IF Hit(id[n]) THEN "cache" ELSE "none"]
  /\ link' = [link EXCEPT ![n] = IF Hit(id[n]) /\ n \notin Moved THEN Relinked(n, id[n]) ELSE @]
  /\ UNCHANGED phase

\* A table that was cut short may have no header; what getData() throws ends loading, not the
\* run: the results not reached are computed.  (An index without the columns of its table
\* trips an assertion: a Restart.)
LookUpFails(n) ==
  /\ LooksUp(n) /\ Hit(id[n]) /\ ~table[id[n]].whole
  /\ phase' = "execute"
  /\ UNCHANGED <<looked, got, link>>

\* The result is taken, but symlink() fails after what led nowhere was removed.
LookUpUnlinked(n) ==
  /\ LooksUp(n) /\ Hit(id[n]) /\ n \notin Moved /\ ~Leads(n)
  /\ got' = [got EXCEPT ![n] = "cache"] /\ link' = [link EXCEPT ![n] = "none"]
  /\ phase' = "execute"
  /\ UNCHANGED looked

Execute ==
  /\ phase = "load" /\ looked = Names /\ phase' = "execute"
  /\ UNCHANGED <<run, option, id, looked, got, saving, step, items, disk>>

-----------------------------------------------------------------------------
(***************************************************************************)
(* cacheItem(): the item is registered, the table written, then the        *)
(* description, and the link is removed and made.                          *)
(***************************************************************************)
At(s) == phase = "execute" /\ step = s
Control == <<run, phase, option, id, looked>>

\* Mutant: an item that is in memory keeps what it said.
RegisterOnce(n) ==
  /\ At("idle") /\ got[n] = "none"
  /\ got' = [got EXCEPT ![n] = "query"] /\ saving' = n /\ step' = "register"
  /\ items' = [items EXCEPT ![id[n]] = IF @ = Absent THEN run ELSE @]
  /\ UNCHANGED <<Control, disk>>

Register(n) ==
  /\ At("idle") /\ got[n] = "none"
  /\ got' = [got EXCEPT ![n] = "query"] /\ saving' = n /\ step' = "register"
  /\ items' = [items EXCEPT ![id[n]] = run]
  /\ UNCHANGED <<Control, disk>>

OpenTable ==
  /\ At("register") /\ step' = "table"
  /\ table' = [table EXCEPT ![id[saving]] = [version |-> run, whole |-> FALSE]]
  /\ exposed' = IF desc[id[saving]] = Absent THEN exposed ELSE exposed \cup {id[saving]}
  /\ UNCHANGED <<Control, got, saving, items, index, desc, link>>

\* The disk is full: nothing checks the stream, and saving goes on.
WriteTable(ok) ==
  /\ At("table") /\ step' = "written"
  /\ table' = [table EXCEPT ![id[saving]].whole = ok]
  /\ exposed' = IF ok THEN exposed ELSE exposed \cup {id[saving]}
  /\ UNCHANGED <<Control, got, saving, items, index, desc, link>>

WriteIndex(ok) ==
  /\ At("written") /\ saving \notin Moved /\ step' = "indexed"
  /\ index' = [index EXCEPT ![id[saving]] = IF ok THEN table[id[saving]].version ELSE Torn]
  /\ exposed' = IF ok THEN exposed ELSE exposed \cup {id[saving]}
  /\ UNCHANGED <<Control, got, saving, items, table, desc, link>>

\* A view is saved by TableData::save, which writes no index.
SkipIndex ==
  /\ At("written") /\ saving \in Moved /\ step' = "indexed"
  /\ UNCHANGED <<Control, got, saving, items, disk>>

OpenDescription ==
  /\ At("indexed") /\ step' = "desc"
  /\ desc' = [desc EXCEPT ![id[saving]] = Torn]
  /\ UNCHANGED <<Control, got, saving, items, table, index, link, exposed>>

WriteDescription ==
  /\ At("desc") /\ step' = "described"
  /\ desc' = [desc EXCEPT ![id[saving]] = items[id[saving]]]
  /\ exposed' = IF table[id[saving]].whole /\ index[id[saving]] # Torn
                THEN exposed \ {id[saving]} ELSE exposed
  /\ UNCHANGED <<Control, got, saving, items, table, index, link>>

\* Mutant: the error is not looked at, as for the table.
WriteDescriptionFailsUnseen ==
  /\ At("desc") /\ step' = "described"
  /\ UNCHANGED <<Control, got, saving, items, disk>>

\* json_dump_file reports an error, and save() throws.
WriteDescriptionFails ==
  /\ At("desc") /\ phase' = "failed"
  /\ UNCHANGED <<run, option, id, looked, got, saving, step, items, disk>>

Unlink ==
  /\ At("described") /\ saving \notin Moved /\ step' = "unlinked"
  /\ link' = [link EXCEPT ![saving] = IF Leads(saving) THEN "none" ELSE @]
  /\ UNCHANGED <<Control, got, saving, items, table, index, desc, exposed>>

\* Mutant: linkPath.linkTo(linkPath).
LinkToItself ==
  /\ At("unlinked") /\ step' = "idle" /\ saving' = "none"
  /\ link' = [link EXCEPT ![saving] = saving]
  /\ UNCHANGED <<Control, got, items, table, index, desc, exposed>>

Link ==
  /\ At("unlinked") /\ step' = "idle" /\ saving' = "none"
  /\ link' = [link EXCEPT ![saving] = id[saving]]
  /\ UNCHANGED <<Control, got, items, table, index, desc, exposed>>

\* linkTo() removes what is there, and throws when symlink() fails.
LinkFails ==
  /\ At("unlinked") /\ phase' = "failed"
  /\ link' = [link EXCEPT ![saving] = "none"]
  /\ UNCHANGED <<run, option, id, looked, got, saving, step, items, table, index, desc, exposed>>

SkipLink ==
  /\ At("described") /\ saving \in Moved /\ step' = "idle" /\ saving' = "none"
  /\ UNCHANGED <<Control, got, items, disk>>

Finish ==
  /\ At("idle") /\ (\A n \in Names : got[n] # "none") /\ phase' = "finished"
  /\ UNCHANGED <<run, option, id, looked, got, saving, step, items, disk>>

Next ==
  \/ \E gone \in {{}} \cup {{i} : i \in Ids} : Restart(gone)
  \/ \E n \in Names : LookUp(n) \/ LookUpFails(n) \/ LookUpUnlinked(n) \/ Register(n)
  \/ Execute \/ OpenTable \/ OpenDescription \/ WriteDescription \/ WriteDescriptionFails
  \/ \E ok \in BOOLEAN : WriteTable(ok) \/ WriteIndex(ok)
  \/ SkipIndex \/ Unlink \/ Link \/ LinkFails \/ SkipLink \/ Finish

Spec == Init /\ [][Next]_vars

-----------------------------------------------------------------------------
\* A readable description belongs to a whole table of the same run, and to its index, which
\* only a view does not have, wherever the process has died, but for the tables that were
\* being overwritten or that were cut short.
DescribedIsWhole ==
  \A i \in Ids \ exposed :
    desc[i] \in Versions /\ Exists(i) =>
      table[i] = [version |-> desc[i], whole |-> TRUE]
      /\ index[i] = IF i \in MovedIds THEN Absent ELSE desc[i]

\* What the registry holds of an item it is not saving is what the file says: a result
\* is never taken, or reported to the progress display, with the rows of another run.
MemoryMatchesDisk ==
  \A i \in Ids :
    items[i] \in Versions /\ (saving = "none" \/ id[saving] # i) /\ phase # "failed"
      => desc[i] = items[i]

\* After a run every query has a link that leads to a table, and to the run's own one where
\* it was computed, but for the cached result whose link could not be made.
LinksLead ==
  phase = "finished" =>
    \A n \in Names \ Moved :
      /\ n \in looked => Leads(n)
      /\ got[n] = "query" => Leads(n) /\ link[n] = id[n]

\* README.md:85: "the results of running db_agg can be then found in the working
\* directory": every link leads to the result of the query that was run, where the log does
\* not say that loading has failed.
ResultsCanBeFound ==
  phase = "finished" =>
    \A n \in Names \ Moved : n \in looked \/ got[n] = "query" => link[n] = id[n]
=============================================================================
