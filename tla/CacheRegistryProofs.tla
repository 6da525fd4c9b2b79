------------------------- MODULE CacheRegistryProofs -------------------------
(***************************************************************************)
(* Proofs about CacheRegistry, for any number of results, ids and runs:    *)
(* wherever a process dies and whichever of its writes fail unseen, what   *)
(* the cache holds is what its descriptions say, and links lead to tables. *)
(***************************************************************************)
EXTENDS CacheRegistry, TLAPS

-----------------------------------------------------------------------------
(***************************************************************************)
(* The inductive invariant.  s is the id of the result being saved.        *)
(***************************************************************************)

\* A result is being saved from its registration to its link, while the run executes or
\* after it has failed.
SavesInOrder ==
  /\ step = "idle" <=> saving = "none"
  /\ phase \in {"load", "finished"} => step = "idle"

\* How far the three files of the result being saved are, each of this run as it is written.
Written ==
  saving # "none" =>
    LET s == id[saving]
    IN  /\ got[saving] = "query"
        /\ items[s] = run
        /\ step # "register" => table[s].version = run
        /\ step \in {"indexed", "desc"} /\ saving \notin Moved => index[s] \in {run, Torn}
        /\ step \in {"described", "unlinked"} => desc[s] = run

\* Views have no index.
ViewsHaveNoIndex == \A i \in MovedIds : index[i] = Absent

\* An old description is not believed any more, from when its table is opened.
OldIsExposed ==
  saving # "none" =>
    LET s == id[saving]
    IN  /\ step \in {"table", "written", "indexed"} => desc[s] = Absent \/ s \in exposed
        /\ step \in {"written", "indexed", "desc"} /\ ~table[s].whole => s \in exposed
        /\ step \in {"indexed", "desc"} /\ index[s] = Torn => s \in exposed

\* MemoryMatchesDisk while the process has not failed.
Remembered ==
  \A i \in Ids : items[i] \in Versions /\ (saving = "none" \/ id[saving] # i) => desc[i] = items[i]

\* Queries whose results were taken from the cache, or saved, have a link that leads to them.
Linked ==
  \A n \in Names \ Moved :
    /\ got[n] = "cache" /\ n \in looked => Leads(n)
    /\ got[n] = "query" /\ n # saving => link[n] = id[n] /\ Exists(id[n])

IInv ==
  /\ TypeOK /\ SavesInOrder /\ Written /\ ViewsHaveNoIndex /\ OldIsExposed
  /\ DescribedIsWhole /\ Remembered /\ Linked

\* Versions are numbers, and differ from the marks of an absent and of a torn description.
LEMMA VersionsAreNumbers ==
  /\ Versions \subseteq Int /\ Absent \notin Versions /\ Torn \notin Versions /\ Absent # Torn
BY CacheAssumption DEF Versions, Absent, Torn

\* The ids of the results of a run are ids, each of one result, those of transitions apart.
LEMMA IdsInTexts ==
  ASSUME NEW f \in Texts, NEW n \in Names
  PROVE  /\ f[n] \in Ids /\ (f[n] \in MovedIds <=> n \in Moved)
         /\ \A m \in Names : f[m] = f[n] => m = n
BY DEF Texts

USE DEF disk, Control

\* What the next run finds is a process that knows nothing.
LEMMA InitInvariant == Init => IInv
<1> SUFFICES ASSUME Init PROVE IInv
  OBVIOUS
<1>1. TypeOK
  BY CacheAssumption, VersionsAreNumbers DEF Init, TypeOK, Versions, Described, Steps
<1>2. SavesInOrder /\ Written /\ OldIsExposed
  BY DEF Init, SavesInOrder, Written, OldIsExposed
<1>3. ViewsHaveNoIndex /\ DescribedIsWhole /\ Remembered /\ Linked
  BY CacheAssumption, VersionsAreNumbers
     DEF Init, ViewsHaveNoIndex, DescribedIsWhole, Remembered, Linked
<1>4. QED
  BY <1>1, <1>2, <1>3 DEF IInv

\* Every step keeps every variable in its type; what is written into the table being saved
\* goes into a table.
LEMMA TypeNext == TypeOK /\ Written /\ SavesInOrder /\ [Next]_vars => TypeOK'
<1> SUFFICES ASSUME TypeOK, Written, SavesInOrder, [Next]_vars PROVE TypeOK'
  OBVIOUS
<1> USE DEF TypeOK, Steps, Described
<1>1. ASSUME saving \in Names PROVE id[saving] \in Ids
  BY <1>1, IdsInTexts
<1>2. ASSUME NEW gone \in SUBSET Ids, Restart(gone) PROVE TypeOK'
  <2>1. run + 1 \in Versions
    BY <1>2, CacheAssumption DEF Restart, Versions
  <2>2. table' \in [Ids -> {NoTable} \cup [version : Versions, whole : BOOLEAN]]
    BY <1>2 DEF Restart
  <2>3. QED
    BY <1>2, <2>1, <2>2 DEF Restart, Starts
<1>3. ASSUME NEW n \in Names, LookUp(n) \/ LookUpFails(n) \/ LookUpUnlinked(n) PROVE TypeOK'
  <2>1. id[n] \in Ids
    BY IdsInTexts
  <2>2. Item(id[n]) \in Described
    BY <2>1 DEF Item
  <2>3. Relinked(n, id[n]) \in Ids \cup {"none"}
    BY <2>1 DEF Relinked
  <2>4. link' \in [Names -> Ids \cup {"none"}]
    BY <1>3, <2>3 DEF LookUp, LookUpFails, LookUpUnlinked
  <2>5. got' \in [Names -> {"none", "cache", "query"}]
    BY <1>3 DEF LookUp, LookUpFails, LookUpUnlinked
  <2>6. items' \in [Ids -> Described] /\ looked' \subseteq Names
    BY <1>3, <2>2 DEF LookUp, LookUpFails, LookUpUnlinked, LooksUp
  <2>7. phase' \in {"load", "execute"}
        /\ UNCHANGED <<run, option, id, saving, step, table, index, desc, exposed>>
    BY <1>3 DEF LookUp, LookUpFails, LookUpUnlinked, LooksUp
  <2>8. QED
    BY <2>4, <2>5, <2>6, <2>7
<1>4. ASSUME NEW n \in Names, Register(n) PROVE TypeOK'
  BY <1>4 DEF Register
<1>5. CASE SkipIndex \/ SkipLink \/ LinkFails
  BY <1>5 DEF SkipIndex, SkipLink, LinkFails
<1>6. CASE OpenTable
  <2>1. [version |-> run, whole |-> FALSE] \in [version : Versions, whole : BOOLEAN]
    OBVIOUS
  <2>2. table' \in [Ids -> {NoTable} \cup [version : Versions, whole : BOOLEAN]]
    BY <1>6, <2>1 DEF OpenTable
  <2>3. saving \in Names
    BY <1>6 DEF OpenTable, At, SavesInOrder
  <2>4. QED
    BY <1>1, <1>6, <2>2, <2>3 DEF OpenTable
<1>7. ASSUME NEW ok \in BOOLEAN, WriteTable(ok) PROVE TypeOK'
  <2>1. saving \in Names /\ id[saving] \in Ids
    BY <1>1, <1>7 DEF WriteTable, At, SavesInOrder
  <2>2. table[id[saving]] \in [version : Versions, whole : BOOLEAN]
    BY <1>7, <2>1, CacheAssumption, VersionsAreNumbers DEF WriteTable, At, Written, NoTable
  <2>3. [table[id[saving]] EXCEPT !.whole = ok] \in [version : Versions, whole : BOOLEAN]
    BY <2>2
  <2>4. table' \in [Ids -> {NoTable} \cup [version : Versions, whole : BOOLEAN]]
    BY <1>7, <2>1, <2>3 DEF WriteTable
  <2>5. QED
    BY <1>7, <2>1, <2>4 DEF WriteTable
<1>8. ASSUME NEW ok \in BOOLEAN, WriteIndex(ok) PROVE TypeOK'
  <2>1. saving \in Names /\ id[saving] \in Ids
    BY <1>1, <1>8 DEF WriteIndex, At, SavesInOrder
  <2>2. table[id[saving]].version \in Described
    BY <2>1 DEF NoTable
  <2>3. QED
    BY <1>8, <2>1, <2>2 DEF WriteIndex
<1>9. CASE OpenDescription
  BY <1>9 DEF OpenDescription
<1>10. CASE WriteDescription
  <2>1. saving \in Names /\ id[saving] \in Ids
    BY <1>1, <1>10 DEF WriteDescription, At, SavesInOrder
  <2>2. QED
    BY <1>10, <2>1 DEF WriteDescription
<1>11. CASE Execute \/ WriteDescriptionFails \/ Finish
  BY <1>11 DEF Execute, WriteDescriptionFails, Finish
<1>12. CASE Unlink
  BY <1>12 DEF Unlink
<1>13. CASE Link
  <2>1. saving \in Names /\ id[saving] \in Ids
    BY <1>1, <1>13 DEF Link, At, SavesInOrder
  <2>2. QED
    BY <1>13, <2>1 DEF Link
<1>14. CASE UNCHANGED vars
  BY <1>14 DEF vars
<1>15. QED
  BY <1>2, <1>3, <1>4, <1>5, <1>6, <1>7, <1>8, <1>9, <1>10, <1>11, <1>12, <1>13, <1>14
  DEF Next

\* A result is registered before anything of it is written, and its link is made last.
LEMMA OrderNext == TypeOK /\ SavesInOrder /\ [Next]_vars => SavesInOrder'
<1> SUFFICES ASSUME TypeOK, SavesInOrder, [Next]_vars PROVE SavesInOrder'
  OBVIOUS
<1> USE DEF TypeOK, SavesInOrder, At
<1>1. ASSUME NEW gone \in SUBSET Ids, Restart(gone) PROVE SavesInOrder'
  BY <1>1 DEF Restart, Starts
<1>2. ASSUME NEW n \in Names, LookUp(n) \/ LookUpFails(n) \/ LookUpUnlinked(n)
      PROVE  SavesInOrder'
  BY <1>2 DEF LookUp, LookUpFails, LookUpUnlinked, LooksUp
<1>3. ASSUME NEW n \in Names, Register(n) PROVE SavesInOrder'
  BY <1>3, CacheAssumption DEF Register
<1>4. CASE Execute \/ OpenTable \/ OpenDescription \/ WriteDescription \/ WriteDescriptionFails
  BY <1>4 DEF Execute, OpenTable, OpenDescription, WriteDescription, WriteDescriptionFails
<1>5. ASSUME NEW ok \in BOOLEAN, WriteTable(ok) \/ WriteIndex(ok) PROVE SavesInOrder'
  BY <1>5 DEF WriteTable, WriteIndex
<1>6. CASE SkipIndex \/ Unlink \/ Link \/ LinkFails \/ SkipLink \/ Finish
  BY <1>6 DEF SkipIndex, Unlink, Link, LinkFails, SkipLink, Finish
<1>7. CASE UNCHANGED vars
  BY <1>7 DEF vars
<1>8. QED
  BY <1>1, <1>2, <1>3, <1>4, <1>5, <1>6, <1>7 DEF Next

\* The files of the result being saved are written one after the other, and between two of
\* them nothing else writes.
LEMMA WrittenNext == TypeOK /\ SavesInOrder /\ Written /\ [Next]_vars => Written'
<1> SUFFICES ASSUME TypeOK, SavesInOrder, Written, [Next]_vars PROVE Written'
  OBVIOUS
<1> USE DEF TypeOK, Written, At
<1>0. ASSUME saving \in Names PROVE id[saving] \in Ids
  BY <1>0, IdsInTexts
<1>1. ASSUME NEW gone \in SUBSET Ids, Restart(gone) PROVE Written'
  BY <1>1 DEF Restart, Starts
<1>2. ASSUME NEW n \in Names, LookUp(n) \/ LookUpFails(n) \/ LookUpUnlinked(n) PROVE Written'
  BY <1>2 DEF LookUp, LookUpFails, LookUpUnlinked, LooksUp, SavesInOrder
<1>3. ASSUME NEW n \in Names, Register(n) PROVE Written'
  <2>1. id[n] \in Ids
    BY IdsInTexts
  <2>2. QED
    BY <1>3, <2>1 DEF Register
<1>4. CASE Execute \/ WriteDescriptionFails \/ Finish
  BY <1>4 DEF Execute, WriteDescriptionFails, Finish
<1>5. CASE OpenTable
  <2>1. saving \in Names
    BY <1>5 DEF OpenTable, SavesInOrder
  <2>2. table'[id[saving]].version = run
    BY <1>0, <1>5, <2>1 DEF OpenTable
  <2>3. QED
    BY <1>5, <2>2 DEF OpenTable
<1>6. ASSUME NEW ok \in BOOLEAN, WriteTable(ok) PROVE Written'
  <2>1. saving \in Names /\ id[saving] \in Ids
    BY <1>0, <1>6 DEF WriteTable, SavesInOrder
  <2>2. table'[id[saving]] = [table[id[saving]] EXCEPT !.whole = ok]
    BY <1>6, <2>1 DEF WriteTable
  <2>3. table'[id[saving]].version = table[id[saving]].version
    BY <2>1, <2>2 DEF NoTable
  <2>4. QED
    BY <1>6, <2>1, <2>3 DEF WriteTable
<1>7. ASSUME NEW ok \in BOOLEAN, WriteIndex(ok) PROVE Written'
  <2>1. saving \in Names /\ id[saving] \in Ids
    BY <1>0, <1>7 DEF WriteIndex, SavesInOrder
  <2>2. index'[id[saving]] \in {run, Torn}
    BY <1>7, <2>1, CacheAssumption DEF WriteIndex
  <2>3. QED
    BY <1>7, <2>2 DEF WriteIndex
<1>8. CASE OpenDescription
  BY <1>8 DEF OpenDescription
<1>9. CASE WriteDescription
  <2>1. saving \in Names /\ id[saving] \in Ids
    BY <1>0, <1>9 DEF WriteDescription, SavesInOrder
  <2>2. QED
    BY <1>9, <2>1 DEF WriteDescription
<1>10. CASE SkipIndex \/ Unlink \/ Link \/ LinkFails \/ SkipLink
  BY <1>10 DEF SkipIndex, Unlink, Link, LinkFails, SkipLink
<1>11. CASE UNCHANGED vars
  BY <1>11 DEF vars
<1>12. QED
  BY <1>1, <1>2, <1>3, <1>4, <1>5, <1>6, <1>7, <1>8, <1>9, <1>10, <1>11 DEF Next

\* The only step that writes an index is not taken for a view.
LEMMA ViewsNext == TypeOK /\ SavesInOrder /\ ViewsHaveNoIndex /\ [Next]_vars => ViewsHaveNoIndex'
<1> SUFFICES ASSUME TypeOK, SavesInOrder, ViewsHaveNoIndex, [Next]_vars PROVE ViewsHaveNoIndex'
  OBVIOUS
<1>1. CASE index' = index
  BY <1>1 DEF ViewsHaveNoIndex
<1>2. ASSUME NEW ok \in BOOLEAN, WriteIndex(ok) PROVE ViewsHaveNoIndex'
  <2>1. saving \in Names \ Moved
    BY <1>2 DEF WriteIndex, At, SavesInOrder, TypeOK
  <2>2. id[saving] \notin MovedIds
    BY <2>1, IdsInTexts DEF TypeOK
  <2>3. QED
    BY <1>2, <2>2, CacheAssumption DEF WriteIndex, ViewsHaveNoIndex, TypeOK
<1>3. QED
  BY <1>1, <1>2 DEF Next, vars, Restart, LookUp, LookUpFails, LookUpUnlinked, LooksUp, Register,
     Execute, OpenTable, WriteTable, SkipIndex, OpenDescription, WriteDescription,
     WriteDescriptionFails, Unlink, Link, LinkFails, SkipLink, Finish

\* What is not readable, or not of this run any more, is exposed.
LEMMA ExposedNext ==
  TypeOK /\ SavesInOrder /\ Written /\ ViewsHaveNoIndex /\ OldIsExposed /\ [Next]_vars
    => OldIsExposed'
<1> SUFFICES ASSUME TypeOK, SavesInOrder, Written, ViewsHaveNoIndex, OldIsExposed, [Next]_vars
             PROVE  OldIsExposed'
  OBVIOUS
<1> USE DEF TypeOK, OldIsExposed, At
<1>0. ASSUME saving \in Names PROVE id[saving] \in Ids
  BY <1>0, IdsInTexts
<1>1. ASSUME NEW gone \in SUBSET Ids, Restart(gone) PROVE OldIsExposed'
  BY <1>1 DEF Restart, Starts
<1>2. ASSUME NEW n \in Names, LookUp(n) \/ LookUpFails(n) \/ LookUpUnlinked(n)
      PROVE  OldIsExposed'
  BY <1>2 DEF LookUp, LookUpFails, LookUpUnlinked, LooksUp
<1>3. ASSUME NEW n \in Names, Register(n) PROVE OldIsExposed'
  BY <1>3 DEF Register
<1>4. CASE Execute \/ WriteDescriptionFails \/ Finish
  BY <1>4 DEF Execute, WriteDescriptionFails, Finish
<1>5. CASE OpenTable
  BY <1>5 DEF OpenTable
<1>6. ASSUME NEW ok \in BOOLEAN, WriteTable(ok) PROVE OldIsExposed'
  <2>1. saving \in Names /\ id[saving] \in Ids
    BY <1>0, <1>6 DEF WriteTable, SavesInOrder
  <2>2. table'[id[saving]] = [table[id[saving]] EXCEPT !.whole = ok]
    BY <1>6, <2>1 DEF WriteTable
  <2>3. table'[id[saving]].whole = ok
    BY <2>1, <2>2 DEF NoTable
  <2>4. QED
    BY <1>6, <2>1, <2>3 DEF WriteTable
<1>7. ASSUME NEW ok \in BOOLEAN, WriteIndex(ok) PROVE OldIsExposed'
  <2>1. saving \in Names /\ id[saving] \in Ids
    BY <1>0, <1>7 DEF WriteIndex, SavesInOrder
  <2>2. table[id[saving]].version = run
    BY <1>7, <2>1, CacheAssumption DEF WriteIndex, Written
  <2>3. ok => index'[id[saving]] = run /\ run # Torn
    BY <1>7, <2>1, <2>2, VersionsAreNumbers DEF WriteIndex
  <2>4. ~ok => id[saving] \in exposed'
    BY <1>7 DEF WriteIndex
  <2>5. exposed \subseteq exposed' /\ saving' = saving /\ step' = "indexed"
        /\ step = "written" /\ UNCHANGED <<id, table, desc>>
    BY <1>7 DEF WriteIndex
  <2>6. QED
    BY <2>3, <2>4, <2>5
<1>8. CASE OpenDescription
  BY <1>8 DEF OpenDescription
<1>9. CASE WriteDescription
  BY <1>9 DEF WriteDescription
<1>10. CASE Unlink \/ Link \/ LinkFails \/ SkipLink
  BY <1>10 DEF Unlink, Link, LinkFails, SkipLink
<1>11. CASE SkipIndex
  <2>1. saving \in Names /\ id[saving] \in MovedIds
    BY <1>11, IdsInTexts, CacheAssumption DEF SkipIndex
  <2>2. index[id[saving]] # Torn
    BY <2>1, VersionsAreNumbers DEF ViewsHaveNoIndex
  <2>3. QED
    BY <1>11, <2>2 DEF SkipIndex
<1>12. CASE UNCHANGED vars
  BY <1>12 DEF vars
<1>13. QED
  BY <1>1, <1>2, <1>3, <1>4, <1>5, <1>6, <1>7, <1>8, <1>9, <1>10, <1>11, <1>12 DEF Next

-----------------------------------------------------------------------------
\* A description becomes readable when its table and its index are of the same run, and from
\* when they are opened again it is exposed.
LEMMA DescribedNext ==
  /\ TypeOK /\ SavesInOrder /\ Written /\ ViewsHaveNoIndex /\ OldIsExposed /\ DescribedIsWhole
  /\ [Next]_vars
  => DescribedIsWhole'
<1> SUFFICES ASSUME TypeOK, SavesInOrder, Written, ViewsHaveNoIndex, OldIsExposed,
                    DescribedIsWhole, [Next]_vars,
                    NEW i \in Ids \ exposed', desc'[i] \in Versions, table'[i] # NoTable
             PROVE  /\ table'[i] = [version |-> desc'[i], whole |-> TRUE]
                    /\ index'[i] = IF i \in MovedIds THEN Absent ELSE desc'[i]
  BY DEF DescribedIsWhole, Exists
<1> DEFINE Kept == UNCHANGED <<table[i], index[i], desc[i]>> /\ i \notin exposed
<1>0. ASSUME Kept
      PROVE  /\ table'[i] = [version |-> desc'[i], whole |-> TRUE]
             /\ index'[i] = IF i \in MovedIds THEN Absent ELSE desc'[i]
  BY <1>0 DEF DescribedIsWhole, Exists
<1> USE DEF TypeOK, At
<1>1. ASSUME NEW gone \in SUBSET Ids, Restart(gone) PROVE Kept
  BY <1>1 DEF Restart
<1>2. ASSUME NEW n \in Names, LookUp(n) \/ LookUpFails(n) \/ LookUpUnlinked(n) \/ Register(n)
      PROVE  Kept
  BY <1>2 DEF LookUp, LookUpFails, LookUpUnlinked, LooksUp, Register
<1>3. CASE Execute \/ WriteDescriptionFails \/ Finish \/ Unlink \/ Link \/ LinkFails \/ SkipLink
           \/ SkipIndex
  BY <1>0, <1>3 DEF Execute, WriteDescriptionFails, Finish, Unlink, Link, LinkFails, SkipLink,
                    SkipIndex
<1>4. CASE OpenTable \/ OpenDescription \/ WriteDescription
           \/ \E ok \in BOOLEAN : WriteTable(ok) \/ WriteIndex(ok)
  <2>1. saving \in Names /\ id[saving] \in Ids /\ saving # "none"
    BY <1>4, IdsInTexts, CacheAssumption
       DEF OpenTable, OpenDescription, WriteDescription, WriteTable, WriteIndex, SavesInOrder
  <2>2. CASE i # id[saving]
    <3>1. Kept
      BY <1>4, <2>1, <2>2 DEF OpenTable, OpenDescription, WriteDescription, WriteTable, WriteIndex
    <3>2. QED
      BY <1>0, <3>1
  <2>3. CASE i = id[saving] /\ OpenTable
    <3>1. desc[i] = Absent
      BY <2>3 DEF OpenTable
    <3>2. QED
      BY <2>3, <3>1, VersionsAreNumbers DEF OpenTable
  <2>4. ASSUME i = id[saving], NEW ok \in BOOLEAN, WriteTable(ok) \/ WriteIndex(ok) PROVE FALSE
    <3>1. desc[i] = Absent \/ i \in exposed
      BY <2>1, <2>4 DEF OldIsExposed, WriteTable, WriteIndex
    <3>2. desc' = desc /\ exposed \subseteq exposed'
      BY <2>4 DEF WriteTable, WriteIndex
    <3>3. QED
      BY <3>1, <3>2, VersionsAreNumbers
  <2>5. CASE i = id[saving] /\ OpenDescription
    BY <2>1, <2>5, VersionsAreNumbers DEF OpenDescription
  <2>6. CASE i = id[saving] /\ WriteDescription
    <3>1. desc'[i] = run
      BY <2>1, <2>6 DEF WriteDescription, Written
    <3>2. table[i].whole /\ index[i] # Torn
      BY <2>1, <2>6 DEF WriteDescription, OldIsExposed
    <3>3. table[i].version = run /\ index[i] = IF i \in MovedIds THEN Absent ELSE run
      <4>1. i \in MovedIds <=> saving \in Moved
        BY <2>1, <2>6, IdsInTexts
      <4>2. QED
        BY <2>1, <2>6, <3>2, <4>1 DEF WriteDescription, Written, ViewsHaveNoIndex
    <3>4. table[i] \in [version : Versions, whole : BOOLEAN]
      BY <2>1, <2>6, <3>2 DEF NoTable
    <3>5. table[i] = [version |-> run, whole |-> TRUE]
      BY <3>2, <3>3, <3>4
    <3>6. QED
      BY <2>6, <3>1, <3>3, <3>5 DEF WriteDescription
  <2>7. QED
    BY <1>4, <2>2, <2>3, <2>4, <2>5, <2>6
<1>5. CASE UNCHANGED vars
  BY <1>0, <1>5 DEF vars
<1>6. QED
  <2>1. ASSUME NEW gone \in {{}} \cup {{j} : j \in Ids}, Restart(gone) PROVE gone \in SUBSET Ids
    OBVIOUS
  <2>2. QED
    BY <1>0, <1>1, <1>2, <1>3, <1>4, <1>5, <2>1 DEF Next

\* What is in memory was read from the disk, or is on its way there.
LEMMA RememberedNext ==
  TypeOK /\ SavesInOrder /\ Written /\ Remembered /\ [Next]_vars => Remembered'
<1> SUFFICES ASSUME TypeOK, SavesInOrder, Written, Remembered, [Next]_vars PROVE Remembered'
  OBVIOUS
<1> USE DEF TypeOK, At, Remembered
<1>1. ASSUME NEW gone \in SUBSET Ids, Restart(gone) PROVE Remembered'
  BY <1>1, VersionsAreNumbers DEF Restart, Starts
<1>2. ASSUME NEW n \in Names, LookUp(n) \/ LookUpFails(n) \/ LookUpUnlinked(n)
      PROVE  Remembered'
  <2>1. id[n] \in Ids
    BY IdsInTexts
  <2>2. items'[id[n]] = Item(id[n]) /\ \A i \in Ids \ {id[n]} : items'[i] = items[i]
    BY <1>2, <2>1 DEF LookUp, LookUpFails, LookUpUnlinked, LooksUp
  <2>3. UNCHANGED <<desc, saving, id>>
    BY <1>2 DEF LookUp, LookUpFails, LookUpUnlinked, LooksUp
  <2>4. QED
    BY <2>1, <2>2, <2>3 DEF Item
<1>3. CASE SkipIndex \/ LinkFails
  BY <1>3 DEF SkipIndex, LinkFails
<1>4. ASSUME NEW n \in Names, Register(n) PROVE Remembered'
  <2>1. \A i \in Ids \ {id[n]} : items'[i] = items[i]
    BY <1>4 DEF Register
  <2>2. saving = "none" /\ saving' = n /\ n # "none" /\ UNCHANGED <<desc, id>>
    BY <1>4, CacheAssumption DEF Register, SavesInOrder
  <2>3. QED
    BY <2>1, <2>2
<1>5. CASE Execute \/ WriteDescriptionFails \/ Finish \/ Unlink \/ OpenTable
  BY <1>5 DEF Execute, WriteDescriptionFails, Finish, Unlink, OpenTable
<1>6. ASSUME NEW ok \in BOOLEAN, WriteTable(ok) \/ WriteIndex(ok) PROVE Remembered'
  BY <1>6 DEF WriteTable, WriteIndex
<1>7. CASE OpenDescription \/ WriteDescription
  <2>1. \A i \in Ids : i # id[saving] => desc'[i] = desc[i]
    BY <1>7 DEF OpenDescription, WriteDescription
  <2>2. saving # "none" /\ UNCHANGED <<items, saving, id>>
    BY <1>7 DEF OpenDescription, WriteDescription, SavesInOrder
  <2>3. QED
    BY <2>1, <2>2
<1>8. CASE Link \/ SkipLink
  <2>1. desc[id[saving]] = items[id[saving]]
    BY <1>8 DEF Link, SkipLink, SavesInOrder, Written
  <2>2. UNCHANGED <<items, desc, id>>
    BY <1>8 DEF Link, SkipLink
  <2>3. QED
    BY <2>1, <2>2
<1>9. CASE UNCHANGED vars
  BY <1>9 DEF vars
<1>10. QED
  BY <1>1, <1>2, <1>3, <1>4, <1>5, <1>6, <1>7, <1>8, <1>9 DEF Next

\* A table that is opened or written is there, and no step but a restart takes one away.
LEMMA TablesStay ==
  ASSUME TypeOK, SavesInOrder, Written, Next, ~\E gone \in SUBSET Ids : Restart(gone),
         NEW i \in Ids, Exists(i)
  PROVE  Exists(i)'
<1> USE DEF Exists, TypeOK, At
<1>1. CASE OpenTable
  BY <1>1, VersionsAreNumbers DEF OpenTable, NoTable
<1>2. ASSUME NEW ok \in BOOLEAN, WriteTable(ok) PROVE Exists(i)'
  <2>1. saving \in Names /\ saving # "none" /\ id[saving] \in Ids
    BY <1>2, IdsInTexts, CacheAssumption DEF WriteTable, SavesInOrder
  <2>2. table[id[saving]].version = run
    BY <1>2, <2>1 DEF WriteTable, Written
  <2>3. table'[id[saving]] = [table[id[saving]] EXCEPT !.whole = ok]
    BY <1>2, <2>1 DEF WriteTable
  <2>4. table'[id[saving]].version = run
    BY <2>1, <2>2, <2>3 DEF NoTable
  <2>5. NoTable.version # run
    BY VersionsAreNumbers DEF NoTable
  <2>6. \A j \in Ids : j # id[saving] => table'[j] = table[j]
    BY <1>2 DEF WriteTable
  <2>7. QED
    BY <2>4, <2>5, <2>6
<1>3. CASE ~OpenTable /\ ~\E ok \in BOOLEAN : WriteTable(ok)
  <2>1. table' = table
    BY <1>3 DEF Next, LookUp, LookUpFails, LookUpUnlinked, LooksUp, Register, Execute,
                OpenDescription, WriteDescription, WriteDescriptionFails, WriteIndex, SkipIndex,
                Unlink, Link, LinkFails, SkipLink, Finish
  <2>2. QED
    BY <2>1
<1>4. QED
  BY <1>1, <1>2, <1>3

\* While a run lasts, what it took from the cache and what it saved has a link that leads
\* to it; the link that is taken away leads to the result being saved.
LEMMA LinkedNext ==
  TypeOK /\ SavesInOrder /\ Written /\ Linked /\ [Next]_vars => Linked'
<1> SUFFICES ASSUME TypeOK, SavesInOrder, Written, Linked, [Next]_vars PROVE Linked'
  OBVIOUS
<1> USE DEF TypeOK, At, Linked
<1>1. ASSUME NEW gone \in SUBSET Ids, Restart(gone) PROVE Linked'
  BY <1>1 DEF Restart, Starts
<1>2. CASE UNCHANGED vars
  BY <1>2 DEF vars, Leads, Exists
<1>3. ASSUME Next, ~\E gone \in SUBSET Ids : Restart(gone) PROVE Linked'
  <2>0. \A i \in Ids : Exists(i) => Exists(i)'
    BY <1>3, TablesStay
  <2>1. \A n \in Names : UNCHANGED link[n] /\ Leads(n) => Leads(n)'
    BY <2>0 DEF Leads
  <2>2. ASSUME NEW n \in Names, LookUp(n) PROVE Linked'
    <3>1. id[n] \in Ids
      BY IdsInTexts
    <3>2. \A m \in Names \ {n} : /\ UNCHANGED <<link[m], got[m], id[m]>> /\ saving' = saving
                                 /\ m \in looked' => m \in looked
      BY <2>2 DEF LookUp, LooksUp
    <3>3. got'[n] # "query"
      BY <2>2 DEF LookUp
    <3>4. got'[n] = "cache" /\ n \notin Moved
            => link'[n] = Relinked(n, id[n]) /\ Exists(id[n]) /\ table' = table
      BY <2>2 DEF LookUp, LooksUp, Hit
    <3>5. got'[n] = "cache" /\ n \notin Moved => Leads(n)'
      BY <3>1, <3>4, CacheAssumption DEF Relinked, Leads, Exists
    <3>6. \A m \in Names \ {n} : id'[m] \in Ids /\ id[m] \in Ids
      BY <2>2, IdsInTexts DEF LookUp, LooksUp
    <3>7. QED
      BY <2>0, <2>1, <3>2, <3>3, <3>5, <3>6
  <2>3. ASSUME NEW n \in Names, LookUpUnlinked(n) PROVE Linked'
    <3>1. \A m \in Names \ {n} : UNCHANGED <<link[m], got[m], id[m]>> /\ id[m] \in Ids
      BY <2>3, IdsInTexts DEF LookUpUnlinked, LooksUp
    <3>2. n \notin looked /\ got'[n] = "cache" /\ UNCHANGED <<saving, looked>>
      BY <2>3 DEF LookUpUnlinked, LooksUp
    <3>3. QED
      BY <2>0, <2>1, <3>1, <3>2
  <2>4. ASSUME NEW n \in Names, Register(n) PROVE Linked'
    <3>1. \A m \in Names : UNCHANGED <<link[m], id[m], looked>> /\ id[m] \in Ids
      BY <2>4, IdsInTexts DEF Register
    <3>2. saving = "none" /\ saving' = n /\ got'[n] = "query"
      BY <2>4 DEF Register, SavesInOrder
    <3>3. \A m \in Names \ {n} : got'[m] = got[m] /\ m # saving
      BY <2>4, <3>2, CacheAssumption DEF Register
    <3>4. QED
      BY <2>0, <2>1, <3>1, <3>2, <3>3
  <2>5. CASE Unlink \/ LinkFails
    <3>1. saving \in Names /\ got[saving] = "query"
      BY <2>5, CacheAssumption DEF Unlink, LinkFails, SavesInOrder, Written
    <3>2. \A m \in Names \ {saving} : UNCHANGED link[m]
      BY <2>5 DEF Unlink, LinkFails
    <3>3. UNCHANGED <<got, saving, id, looked>> /\ \A m \in Names : id[m] \in Ids
      BY <2>5, IdsInTexts DEF Unlink, LinkFails
    <3>4. QED
      BY <2>0, <2>1, <3>1, <3>2, <3>3
  <2>6. CASE Link
    <3>1. saving \in Names /\ id[saving] \in Ids /\ got[saving] = "query"
      BY <2>6, IdsInTexts, CacheAssumption DEF Link, SavesInOrder, Written
    <3>2. link'[saving] = id[saving] /\ \A m \in Names \ {saving} : UNCHANGED link[m]
      BY <2>6, <3>1 DEF Link
    <3>3. UNCHANGED <<got, id, looked, table>> /\ \A m \in Names : id[m] \in Ids
      BY <2>6, IdsInTexts DEF Link
    <3>4. step = "unlinked" /\ saving # "none"
      BY <2>6, <3>1, CacheAssumption DEF Link
    <3>5. table[id[saving]].version = run
      BY <3>4 DEF Written
    <3>6. NoTable.version # run
      BY VersionsAreNumbers DEF NoTable
    <3>7. \A s \in Names : s = saving => Exists(id[s])'
      BY <3>1, <3>3, <3>5, <3>6 DEF Exists
    <3>8. QED
      BY <2>0, <2>1, <3>1, <3>2, <3>3, <3>7
  <2>7. CASE SkipLink
    <3>1. \A m \in Names \ Moved : m # saving' => m # saving
      BY <2>7 DEF SkipLink
    <3>2. UNCHANGED <<link, got, looked, id>> /\ \A m \in Names : id[m] \in Ids
      BY <2>7, IdsInTexts DEF SkipLink
    <3>3. QED
      BY <2>0, <2>1, <2>7, <3>1, <3>2 DEF SkipLink
  <2>8. CASE \/ \E n \in Names : LookUpFails(n)
             \/ Execute \/ OpenTable \/ OpenDescription \/ WriteDescription \/ WriteDescriptionFails
             \/ (\E ok \in BOOLEAN : WriteTable(ok) \/ WriteIndex(ok)) \/ SkipIndex \/ Finish
    <3>1. UNCHANGED <<link, got, looked, saving, id>>
      BY <2>8 DEF LookUpFails, LooksUp, Execute, OpenTable, OpenDescription, WriteDescription,
                  WriteDescriptionFails, WriteTable, WriteIndex, SkipIndex, Finish
    <3>2. \A m \in Names : id[m] \in Ids
      BY IdsInTexts
    <3>3. QED
      BY <2>0, <2>1, <3>1, <3>2
  <2>9. QED
    BY <1>3, <2>2, <2>3, <2>4, <2>5, <2>6, <2>7, <2>8 DEF Next
<1>4. QED
  BY <1>1, <1>2, <1>3

-----------------------------------------------------------------------------
\* Every step keeps the invariant.
LEMMA InvariantNext == IInv /\ [Next]_vars => IInv'
BY TypeNext, OrderNext, WrittenNext, ViewsNext, ExposedNext, DescribedNext, RememberedNext,
   LinkedNext DEF IInv

\* The parts of IInv hold together in every state of every behaviour of the cache: none of
\* the properties below is inductive without the others.
THEOREM Invariant == Spec => []IInv
BY InitInvariant, InvariantNext, PTL DEF Spec

\* Every variable of the registry and every file keep their types.
THEOREM TypeCorrect == Spec => []TypeOK
<1>1. IInv => TypeOK
  BY DEF IInv
<1>2. QED
  BY <1>1, Invariant, PTL

\* Wherever a process dies, and whichever write of a table or an index fails unseen, a readable
\* description belongs to a whole table of its run, unless that is exposed.
THEOREM CacheIsWhole == Spec => []DescribedIsWhole
<1>1. IInv => DescribedIsWhole
  BY DEF IInv
<1>2. QED
  BY <1>1, Invariant, PTL

\* The registry never believes of an item what its file does not say.
THEOREM CacheIsRemembered == Spec => []MemoryMatchesDisk
<1>1. IInv => MemoryMatchesDisk
  BY DEF IInv, Remembered, MemoryMatchesDisk
<1>2. QED
  BY <1>1, Invariant, PTL

\* A run finishes only when each of its results has a link.
LEMMA LinksNext == IInv /\ LinksLead /\ [Next]_vars => LinksLead'
<1> SUFFICES ASSUME IInv, LinksLead, [Next]_vars, phase' = "finished",
                    NEW n \in Names \ Moved
             PROVE  /\ n \in looked' => Leads(n)'
                    /\ got'[n] = "query" => Leads(n)' /\ link'[n] = id'[n]
  BY DEF LinksLead
<1> USE DEF IInv
<1>1. CASE Finish
  <2>1. got[n] \in {"cache", "query"} /\ n # saving
    BY <1>1, CacheAssumption DEF Finish, At, TypeOK, SavesInOrder
  <2>2. id[n] \in Ids
    BY IdsInTexts DEF TypeOK
  <2>3. /\ n \in looked => Leads(n)
        /\ got[n] = "query" => Leads(n) /\ link[n] = id[n]
    BY <2>1, <2>2, CacheAssumption DEF Linked, Leads
  <2>4. UNCHANGED <<got, looked, link, id, table>>
    BY <1>1 DEF Finish
  <2>5. QED
    BY <2>3, <2>4 DEF Leads, Exists
<1>2. CASE UNCHANGED vars
  BY <1>2 DEF vars, LinksLead, Leads, Exists
<1>3. CASE Next /\ ~Finish
  BY <1>3 DEF Next, Restart, Starts, LookUp, LookUpFails, LookUpUnlinked, LooksUp, Register,
              Execute, OpenTable, OpenDescription, WriteDescription, WriteDescriptionFails,
              WriteTable, WriteIndex, SkipIndex, Unlink, Link, LinkFails, SkipLink, At
<1>4. QED
  BY <1>1, <1>2, <1>3

\* A run that has finished leaves a link for each of its results, which leads to a table, and
\* to its own one if it was computed.
THEOREM ResultsAreLinked == Spec => []LinksLead
<1>1. Init => LinksLead
  BY DEF Init, LinksLead
<1>2. QED
  BY <1>1, LinksNext, Invariant, PTL DEF Spec

=============================================================================
