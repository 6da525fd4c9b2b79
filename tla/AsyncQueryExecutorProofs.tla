----------------------- MODULE AsyncQueryExecutorProofs -----------------------
(***************************************************************************)
(* Proofs about AsyncQueryExecutor, for any in ports, any size of a chunk  *)
(* and any result: the executor counts its steps right, tables and results *)
(* cross whole, whatever the server does and whoever stops, and to         *)
(* QueryProcessor the execution acts as QueryTask says.                    *)
(*                                                                         *)
(* What links the two ends is the wire.  Each answer on it belongs to a    *)
(* step and each row has a number, and the invariant follows both along    *)
(* the wire: from what the client has counted at its head to what the      *)
(* server has reached at its end.                                          *)
(***************************************************************************)
EXTENDS AsyncQueryExecutor, FlattenSeqTheorems

USE DEF server, input, task

-----------------------------------------------------------------------------
(***************************************************************************)
(* The inductive invariant.                                                *)
(***************************************************************************)
Messages == [kind : Kinds, row : Nat]

Typed ==
  /\ tables \in Inputs /\ injector \in Injectors
  /\ state \in States /\ result \in {"none", "COPY_IN", "COPY_OUT"}
  /\ queryNo \in Nat /\ nextRow \in Nat /\ data \in Seq(Nat) /\ table \in Seq(Nat)
  /\ columns \in BOOLEAN /\ cancelRequest \in BOOLEAN
  /\ ending \in {"none", "done", "failed", "cancelled"}
  /\ link \in {"none", "up", "down", "finished"}
  /\ wire \in Seq(Messages) /\ at \in Nat \ {0} /\ produced \in Nat /\ copyEnded \in BOOLEAN
  /\ mode \in {"idle", "running", "copying_in", "copying_out", "ready"}

\* The connection is opened by the first call, and closed when the calls end.
Linked ==
  /\ ending = "none" /\ state \in {"NONE", "INITIAL"} => link = "none"
  /\ link \in {"up", "down"} => ending = "none"

\* The server runs what was injected, and before it is sent nothing has happened.
Scripted ==
  /\ steps = IF state = "NONE" THEN <<>> ELSE Inject(injector, tables, 0)
  /\ mode = "idle" <=> state \in {"NONE", "INITIAL", "CONNECTED"}
  /\ script = IF mode = "idle" THEN <<>> ELSE steps
  /\ mode = "idle" =>
       /\ at = 1 /\ wire = <<>> /\ queryNo = 0 /\ result = "none" /\ nextRow = 0
       /\ data = <<>> /\ table = <<>> /\ produced = 0 /\ copyEnded = FALSE /\ ending # "done"

\* f counts the messages of some kinds along w, from first to last.
Numbered(f, w, kinds, first, last) ==
  /\ f \in [0 .. Len(w) -> Nat] /\ f[0] = first /\ f[Len(w)] = last
  /\ \A i \in 1 .. Len(w) : f[i] = f[i - 1] + IF w[i].kind \in kinds THEN 1 ELSE 0

StepEnds == {"COMMAND_OK", "TUPLES_OK"}
UpTo(n) == [i \in 1 .. n |-> i]

\* The client has counted the steps that are answered, the server is ahead by what is on
\* the wire; message i is about step c[i - 1], the result being the last and its columns
\* the last but one.
StepsCounted(c) ==
  /\ Numbered(c, wire, StepEnds, queryNo + 1, at)
  /\ mode # "idle" => at <= Len(script) + 1
  /\ mode = "copying_out" => at = Len(script)
  /\ \A i \in 1 .. Len(wire) :
       /\ wire[i].kind \in {"COPY_OUT", "ROW"} => c[i - 1] = Len(script)
       /\ wire[i].kind = "TUPLES_OK" => c[i - 1] = Len(script) - 1
       /\ wire[i].kind = "COMMAND_OK" => c[i - 1] # Len(script) - 1
  /\ result = "COPY_OUT" => queryNo + 1 = Len(script)
  /\ mode # "idle" /\ queryNo + 1 >= Len(script) => columns

\* Row i of the result is on the wire, or read, or in the table.
RowsCounted(r) ==
  /\ Numbered(r, wire, {"ROW"}, Len(table) + Len(data), produced)
  /\ \A i \in 1 .. Len(wire) : wire[i].kind = "ROW" => wire[i].row = r[i]
  /\ table \o data = UpTo(Len(table) + Len(data))
  /\ result # "COPY_OUT" => data = <<>>
  /\ mode # "idle" /\ queryNo + 1 < Len(script) => table = <<>>

\* A COPY IN is under way, and what follows position k of the wire is its failure, if
\* anything.
CopyingIn(c, k) ==
  /\ copyEnded = FALSE /\ c[k] = at
  /\ at <= Len(script) /\ script[at].action = "COPY_IN"
  /\ \/ mode = "copying_in" /\ Len(wire) = k
     \/ mode = "ready"

CopiesCounted(c) ==
  /\ result = "COPY_IN" => CopyingIn(c, 0) /\ nextRow < tables[script[at].table]
  /\ result # "COPY_IN" => nextRow = 0
  /\ \A k \in 1 .. Len(wire) : wire[k].kind = "COPY_IN" => CopyingIn(c, k)
  /\ copyEnded = TRUE => mode \in {"copying_in", "ready"}
  /\ mode = "copying_in" => at <= Len(script) /\ script[at].action = "COPY_IN"

\* What the server has taken in of the table of each step.
Holds(i, rows) == stored[script[i].table] = Rows(script[i].table, 1, rows)
Taken ==
  /\ mode # "idle" => DOMAIN stored = DOMAIN tables
  /\ \A i \in 1 .. Len(script) : script[i].action = "COPY_IN" =>
       /\ i < at \/ (i = at /\ copyEnded) => Holds(i, tables[script[i].table])
       /\ i > at \/ (i = at /\ mode = "running") => stored[script[i].table] = <<>>
       /\ i = at /\ mode = "copying_in" /\ ~copyEnded => Holds(i, nextRow)

\* The server is ready after all steps, or after one that has failed.
Ended ==
  /\ \A i \in 1 .. Len(wire) : wire[i].kind = "READY" => i = Len(wire) /\ mode = "ready"
  /\ ending = "none" /\ mode = "ready" /\ (\A i \in 1 .. Len(wire) : wire[i].kind # "FATAL_ERROR") =>
       at > Len(script)

Flow(c, r) == StepsCounted(c) /\ RowsCounted(r) /\ CopiesCounted(c) /\ Taken /\ Ended

IInv == Typed /\ Linked /\ Scripted /\ ResultIsWhole /\ \E c, r : Flow(c, r)

-----------------------------------------------------------------------------
(***************************************************************************)
(* What Inject gives.                                                      *)
(***************************************************************************)
Steps == [action : {"COMMAND", "INSERT", "COPY_IN", "GET_COLUMN_TYPES", "GET_RESULT"}, table : Nat]

\* The last two steps ask for the columns and the rows; before them tables are copied, each
\* in one step.
Shaped(s, ports) ==
  /\ s \in Seq(Steps) /\ Len(s) \in Nat /\ Len(s) >= 2
  /\ s[Len(s)].action = "GET_RESULT" /\ s[Len(s) - 1].action = "GET_COLUMN_TYPES"
  /\ \A i \in 1 .. Len(s) - 2 : s[i].action \in {"COMMAND", "COPY_IN"}
  /\ \A i \in 1 .. Len(s) : s[i].action = "COPY_IN" => s[i].table \in DOMAIN ports
  /\ \A i, j \in 1 .. Len(s) :
       s[i].action = "COPY_IN" /\ s[j].action = "COPY_IN" /\ s[i].table = s[j].table => i = j

\* One element in front of a sequence.
LEMMA InFront ==
  ASSUME NEW S, NEW x \in S, NEW s \in Seq(S)
  PROVE  /\ <<x>> \o s \in Seq(S) /\ Len(s) \in Nat /\ Len(<<x>> \o s) = Len(s) + 1
         /\ (<<x>> \o s)[1] = x /\ \A i \in 2 .. Len(s) + 1 : (<<x>> \o s)[i] = s[i - 1]
<1>1. <<x>> \in Seq(S) /\ Len(<<x>>) = 1 /\ <<x>>[1] = x
  OBVIOUS
<1>2. Len(s) \in Nat
  BY LenProperties
<1> DEFINE one == <<x>>
<1>3. one \in Seq(S) /\ Len(one) = 1 /\ one[1] = x
  BY <1>1
<1> HIDE DEF one
<1>4. /\ one \o s \in Seq(S) /\ Len(one \o s) = Len(one) + Len(s)
      /\ \A i \in 1 .. Len(one) + Len(s) : (one \o s)[i] = IF i <= Len(one) THEN one[i] ELSE s[i - Len(one)]
  BY <1>3, ConcatProperties
<1>5. one \o s \in Seq(S) /\ Len(one \o s) = Len(s) + 1 /\ (one \o s)[1] = x
      /\ \A i \in 2 .. Len(s) + 1 : (one \o s)[i] = s[i - 1]
  BY <1>2, <1>3, <1>4
<1>6. one = <<x>>
  BY DEF one
<1>7. QED
  BY <1>2, <1>5, <1>6

\* A table is created and, if it has rows, copied.
PushShaped(s, t) ==
  /\ s \in Seq(Steps)
  /\ \A i \in 1 .. Len(s) : s[i] = Step("COMMAND", 0) \/ (i = 2 /\ s[i] = Step("COPY_IN", t))

\* So it is for every table, with the threshold that schedule() gives.
LEMMA PushShape ==
  ASSUME NEW t \in Nat, NEW rows \in Nat
  PROVE  PushShaped(PushSteps(t, rows, 0), t)
<1>1. Step("COMMAND", 0) \in Steps /\ Step("COPY_IN", t) \in Steps
  BY DEF Step, Steps
<1> DEFINE fill == IF rows = 0 THEN <<>> ELSE <<Step("COPY_IN", t)>>
<1> PICK s : s = <<Step("COMMAND", 0)>> \o fill
  OBVIOUS
<1>2. s = <<Step("COMMAND", 0)>> \o fill /\ PushSteps(t, rows, 0) = s
  BY DEF PushSteps
<1>3. fill \in Seq(Steps) /\ Len(fill) \in 0 .. 1 /\ (Len(fill) = 1 => fill[1] = Step("COPY_IN", t))
  BY <1>1
<1> HIDE DEF fill
<1>4. s \in Seq(Steps) /\ Len(s) = Len(fill) + 1 /\ s[1] = Step("COMMAND", 0)
      /\ \A i \in 2 .. Len(fill) + 1 : s[i] = fill[i - 1]
  BY <1>1, <1>2, <1>3, InFront
<1>5. \A i \in 1 .. Len(s) : s[i] = Step("COMMAND", 0) \/ (i = 2 /\ s[i] = Step("COPY_IN", t))
  BY <1>3, <1>4
<1>6. QED
  BY <1>2, <1>4, <1>5 DEF PushShaped

\* The query's own steps.
LEMMA QueryShape ==
  ASSUME NEW i, i \in {"default", "noresult"}, NEW s, s = QuerySteps(i)
  PROVE  /\ s \in Seq(Steps) /\ Len(s) \in 2 .. 3
         /\ s[Len(s)].action = "GET_RESULT" /\ s[Len(s) - 1].action = "GET_COLUMN_TYPES"
         /\ Len(s) = 3 => s[1].action = "COMMAND"
<1> DEFINE two == <<Step("GET_COLUMN_TYPES", 0), Step("GET_RESULT", 0)>>
<1>1. /\ Step("COMMAND", 0) \in Steps /\ Step("GET_COLUMN_TYPES", 0) \in Steps
      /\ Step("GET_RESULT", 0) \in Steps
      /\ Step("COMMAND", 0).action = "COMMAND"
      /\ Step("GET_COLUMN_TYPES", 0).action = "GET_COLUMN_TYPES"
      /\ Step("GET_RESULT", 0).action = "GET_RESULT"
  BY DEF Step, Steps
<1>2. /\ two \in Seq(Steps) /\ Len(two) = 2
      /\ two[1].action = "GET_COLUMN_TYPES" /\ two[2].action = "GET_RESULT"
  BY <1>1
<1>3. CASE i = "noresult"
  <2>1. s = <<Step("COMMAND", 0)>> \o two
    BY <1>3 DEF QuerySteps
  <2> HIDE DEF two
  <2>2. /\ s \in Seq(Steps) /\ Len(s) = Len(two) + 1 /\ s[1] = Step("COMMAND", 0)
        /\ \A k \in 2 .. Len(two) + 1 : s[k] = two[k - 1]
    BY <1>1, <1>2, <2>1, InFront
  <2>3. s[2] = two[1] /\ s[3] = two[2] /\ Len(s) = 3
    BY <1>2, <2>2
  <2>4. QED
    BY <1>1, <1>2, <2>2, <2>3
<1>4. CASE i # "noresult"
  <2>1. s = <<>> \o two
    BY <1>4 DEF QuerySteps
  <2> HIDE DEF two
  <2>2. s = two
    BY <1>2, <2>1, ConcatEmptySeq
  <2>3. s \in Seq(Steps) /\ Len(s) = 2 /\ s[2].action = "GET_RESULT" /\ s[1].action = "GET_COLUMN_TYPES"
    BY <1>2, <2>2
  <2>4. QED
    BY <2>3
<1>5. QED
  BY <1>3, <1>4

\* With the threshold that schedule() gives, 0, no table is injected by value.
LEMMA InjectShape ==
  ASSUME NEW ports \in Seq(Nat), NEW i, i \in {"default", "noresult"}
  PROVE  Shaped(Inject(i, ports, 0), ports)
<1> DEFINE seqs == [t \in DOMAIN ports |-> PushSteps(t, ports[t], 0)]
           push == FlattenSeq(seqs)
           query == QuerySteps(i)
           all == push \o query
<1>1. Len(ports) \in Nat /\ DOMAIN ports = 1 .. Len(ports) /\ \A t \in DOMAIN ports : ports[t] \in Nat
  BY LenProperties, ElementOfSeq
<1>2. seqs \in Seq(Seq(Steps)) /\ Len(seqs) = Len(ports)
  <2>1. ASSUME NEW t \in 1 .. Len(ports) PROVE seqs[t] \in Seq(Steps)
    <3>1. t \in Nat /\ ports[t] \in Nat /\ seqs[t] = PushSteps(t, ports[t], 0)
      BY <1>1
    <3> HIDE DEF seqs
    <3>2. PushShaped(seqs[t], t)
      BY <3>1, PushShape
    <3>3. QED
      BY <3>2 DEF PushShaped
  <2>2. seqs \in [1 .. Len(ports) -> Seq(Steps)]
    BY <1>1, <2>1
  <2>3. QED
    BY <1>1, <2>2
<1>3. push \in Seq(Steps) /\ \E o, p : Places(push, seqs, Len(seqs), o, p)
  <2> HIDE DEF seqs
  <2>1. QED
    BY <1>2, FlattenSeqPlaces
<1>4. PICK o, p : Places(push, seqs, Len(seqs), o, p)
  BY <1>3
<1>5. /\ query \in Seq(Steps) /\ Len(query) \in 2 .. 3
      /\ query[Len(query)].action = "GET_RESULT" /\ query[Len(query) - 1].action = "GET_COLUMN_TYPES"
      /\ Len(query) = 3 => query[1].action = "COMMAND"
  BY QueryShape
<1>6. ASSUME NEW j \in 1 .. Len(push)
      PROVE  push[j].action = "COMMAND" \/
             (push[j].action = "COPY_IN" /\ push[j].table = o[j] /\ p[j] = 2 /\ o[j] \in DOMAIN ports)
  <2>1. o[j] \in 1 .. Len(seqs) /\ p[j] \in 1 .. Len(seqs[o[j]]) /\ push[j] = seqs[o[j]][p[j]]
    <3> HIDE DEF push, seqs
    <3>1. QED
      BY <1>4 DEF Places
  <2>2. o[j] \in Nat /\ o[j] \in DOMAIN ports /\ ports[o[j]] \in Nat
        /\ seqs[o[j]] = PushSteps(o[j], ports[o[j]], 0)
    BY <1>1, <1>2, <2>1
  <2> HIDE DEF push, seqs
  <2>3. push[j] = Step("COMMAND", 0) \/ (p[j] = 2 /\ push[j] = Step("COPY_IN", o[j]))
    <3>1. PICK s, t, rows : s = seqs[o[j]] /\ t = o[j] /\ rows = ports[o[j]]
      OBVIOUS
    <3>2. t \in Nat /\ rows \in Nat /\ s = PushSteps(t, rows, 0)
      BY <2>2, <3>1
    <3>3. PushShaped(s, t)
      BY <3>2, PushShape
    <3>4. p[j] \in 1 .. Len(s) /\ push[j] = s[p[j]]
      BY <2>1, <3>1
    <3>5. QED
      BY <3>1, <3>3, <3>4 DEF PushShaped
  <2>4. QED
    BY <2>2, <2>3 DEF Step
<1>7. \A j, k \in 1 .. Len(push) : o[j] = o[k] /\ p[j] = p[k] => j = k
  <2> HIDE DEF push, seqs
  <2>1. QED
    BY <1>4 DEF Places
<1> HIDE DEF push, query, seqs
<1>8. /\ all \in Seq(Steps) /\ Len(push) \in Nat /\ Len(all) = Len(push) + Len(query)
      /\ \A j \in 1 .. Len(push) + Len(query) : all[j] = IF j <= Len(push) THEN push[j] ELSE query[j - Len(push)]
  BY <1>3, <1>5, ConcatProperties, LenProperties
<1>9. Inject(i, ports, 0) = all
  BY DEF Inject, push, query, seqs
<1> HIDE DEF all
<1>10. \A j \in 1 .. Len(query) : query[j].action = "COPY_IN" => FALSE
  BY <1>5
<1>11. ASSUME NEW j \in 1 .. Len(all), all[j].action = "COPY_IN"
       PROVE  j \in 1 .. Len(push) /\ all[j] = push[j]
  <2>1. CASE j <= Len(push)
    BY <1>8, <2>1
  <2>2. CASE j > Len(push)
    <3>1. j - Len(push) \in 1 .. Len(query) /\ all[j] = query[j - Len(push)]
      BY <1>5, <1>8, <2>2
    <3>2. QED
      BY <1>10, <1>11, <3>1
  <2>3. QED
    BY <1>8, <2>1, <2>2
<1> DEFINE m == Len(push)
           n == Len(query)
<1>12. m \in Nat /\ n \in 2 .. 3 /\ Len(all) = m + n
  BY <1>5, <1>8
<1>13. \A j \in m + 1 .. m + n : all[j] = query[j - m]
  BY <1>12, <1>8
<1> HIDE DEF m, n
<1>14. ASSUME NEW j \in 1 .. Len(all) - 2 PROVE all[j].action \in {"COMMAND", "COPY_IN"}
  <2>1. CASE j <= m
    BY <1>6, <1>8, <1>12, <2>1 DEF m
  <2>2. CASE j > m
    <3>1. j = m + 1 /\ n = 3 /\ j \in m + 1 .. m + n /\ j - m = 1
      BY <1>12, <2>2
    <3>2. QED
      BY <1>5, <1>13, <3>1 DEF n
  <2>3. QED
    BY <1>12, <2>1, <2>2
<1>15. all[Len(all)].action = "GET_RESULT" /\ all[Len(all) - 1].action = "GET_COLUMN_TYPES"
  <2>1. m + n \in m + 1 .. m + n /\ m + n - 1 \in m + 1 .. m + n /\ (m + n) - m = n /\ (m + n - 1) - m = n - 1
    BY <1>12
  <2>2. all[m + n] = query[n] /\ all[m + n - 1] = query[n - 1]
    BY <1>13, <2>1
  <2>3. QED
    BY <1>5, <1>12, <2>2 DEF n
<1>16. \A j \in 1 .. Len(all) : all[j].action = "COPY_IN" => all[j].table \in DOMAIN ports
  BY <1>6, <1>11
<1>17. \A j, k \in 1 .. Len(all) :
         all[j].action = "COPY_IN" /\ all[k].action = "COPY_IN" /\ all[j].table = all[k].table => j = k
  <2>1. ASSUME NEW j \in 1 .. Len(all), all[j].action = "COPY_IN"
        PROVE  j \in 1 .. Len(push) /\ all[j].table = o[j] /\ p[j] = 2
    <3>1. j \in 1 .. Len(push) /\ all[j] = push[j]
      BY <1>11, <2>1
    <3>2. push[j].table = o[j] /\ p[j] = 2
      BY <1>6, <2>1, <3>1
    <3>3. QED
      BY <3>1, <3>2
  <2>2. SUFFICES ASSUME NEW j \in 1 .. Len(all), NEW k \in 1 .. Len(all), all[j].action = "COPY_IN",
                        all[k].action = "COPY_IN", all[j].table = all[k].table
                 PROVE  j = k
    OBVIOUS
  <2>3. j \in 1 .. Len(push) /\ k \in 1 .. Len(push) /\ o[j] = o[k] /\ p[j] = p[k]
    BY <2>1, <2>2
  <2>4. QED
    BY <1>7, <2>3
<1>18. Len(all) \in Nat /\ Len(all) >= 2
  BY <1>12
<1>19. QED
  BY <1>8, <1>9, <1>14, <1>15, <1>16, <1>17, <1>18 DEF Shaped

-----------------------------------------------------------------------------
(***************************************************************************)
(* Counting along the wire.                                                *)
(***************************************************************************)

\* The number after position i is a natural number, and follows the one before.
LEMMA NumberedStep ==
  ASSUME NEW w \in Seq(Messages), NEW f, NEW kinds, NEW first, NEW last, Numbered(f, w, kinds, first, last),
         NEW i \in 1 .. Len(w)
  PROVE  /\ f[i] \in Nat /\ f[i - 1] \in Nat
         /\ w[i].kind \in kinds => f[i] = f[i - 1] + 1
         /\ w[i].kind \notin kinds => f[i] = f[i - 1]
<1>1. Len(w) \in Nat
  BY LenProperties
<1>2. i \in 0 .. Len(w) /\ i - 1 \in 0 .. Len(w)
  BY <1>1
<1>3. f[i] \in Nat /\ f[i - 1] \in Nat
  BY <1>2 DEF Numbered
<1>4. f[i] = f[i - 1] + IF w[i].kind \in kinds THEN 1 ELSE 0
  BY DEF Numbered
<1>5. QED
  BY <1>3, <1>4

\* What is read from the wire takes its numbers with it.
LEMMA NumberedRead ==
  ASSUME NEW w \in Seq(Messages), NEW f, NEW kinds, NEW first, NEW last, Numbered(f, w, kinds, first, last),
         NEW k \in 0 .. Len(w), NEW v \in Seq(Messages), Len(v) = Len(w) - k,
         \A i \in 1 .. Len(v) : v[i] = w[i + k]
  PROVE  \E d : Numbered(d, v, kinds, f[k], last) /\ \A i \in 0 .. Len(v) : d[i] = f[i + k]
<1> DEFINE d == [i \in 0 .. Len(v) |-> f[i + k]]
<1>1. Len(w) \in Nat /\ Len(v) \in Nat /\ k \in Nat
  BY LenProperties
<1>2. \A i \in 0 .. Len(v) : i + k \in 0 .. Len(w) /\ f[i + k] \in Nat
  BY <1>1 DEF Numbered
<1>3. d \in [0 .. Len(v) -> Nat]
  BY <1>2
<1>4. d[0] = f[k] /\ d[Len(v)] = last
  <2>1. 0 \in 0 .. Len(v) /\ Len(v) \in 0 .. Len(v) /\ 0 + k = k /\ Len(v) + k = Len(w)
    BY <1>1
  <2>2. f[Len(w)] = last
    BY DEF Numbered
  <2>3. QED
    BY <2>1, <2>2
<1>5. ASSUME NEW i \in 1 .. Len(v)
      PROVE  d[i] = d[i - 1] + IF v[i].kind \in kinds THEN 1 ELSE 0
  <2>1. i + k \in 1 .. Len(w) /\ i \in 0 .. Len(v) /\ i - 1 \in 0 .. Len(v) /\ (i - 1) + k = (i + k) - 1
    BY <1>1
  <2>2. f[i + k] = f[(i + k) - 1] + IF w[i + k].kind \in kinds THEN 1 ELSE 0
    BY <2>1 DEF Numbered
  <2>3. d[i] = f[i + k] /\ d[i - 1] = f[(i + k) - 1] /\ v[i] = w[i + k]
    BY <2>1
  <2>4. QED
    BY <2>2, <2>3
<1>6. \A i \in 0 .. Len(v) : d[i] = f[i + k]
  OBVIOUS
<1> HIDE DEF d
<1>7. Numbered(d, v, kinds, f[k], last)
  BY <1>3, <1>4, <1>5 DEF Numbered
<1>8. QED
  BY <1>6, <1>7

\* What is sent gets the next number.
LEMMA NumberedSend ==
  ASSUME NEW w \in Seq(Messages), NEW f, NEW kinds, NEW first, NEW last \in Nat,
         Numbered(f, w, kinds, first, last), NEW m \in Messages
  PROVE  \E d, next :
           /\ Numbered(d, Append(w, m), kinds, first, next) /\ \A i \in 0 .. Len(w) : d[i] = f[i]
           /\ next = last + IF m.kind \in kinds THEN 1 ELSE 0
<1> PICK v, next : v = Append(w, m) /\ next = last + IF m.kind \in kinds THEN 1 ELSE 0
  OBVIOUS
<1> DEFINE d == [i \in 0 .. Len(v) |-> IF i <= Len(w) THEN f[i] ELSE next]
<1>1. /\ v \in Seq(Messages) /\ Len(w) \in Nat /\ Len(v) = Len(w) + 1
      /\ \A i \in 1 .. Len(w) : v[i] = w[i]
      /\ v[Len(w) + 1] = m
  BY LenProperties, AppendProperties
<1>2. next \in Nat
  OBVIOUS
<1>3. \A i \in 0 .. Len(w) : d[i] = f[i] /\ f[i] \in Nat
  <2>1. \A i \in 0 .. Len(w) : i \in 0 .. Len(v) /\ i <= Len(w)
    BY <1>1
  <2>2. \A i \in 0 .. Len(w) : f[i] \in Nat
    BY DEF Numbered
  <2>3. QED
    BY <2>1, <2>2
<1>4. d[Len(v)] = next
  BY <1>1
<1>5. d \in [0 .. Len(v) -> Nat]
  <2>1. ASSUME NEW i \in 0 .. Len(v) PROVE d[i] \in Nat
    <3>1. i \in 0 .. Len(w) \/ i = Len(v)
      BY <1>1
    <3> HIDE DEF d
    <3>2. QED
      BY <1>2, <1>3, <1>4, <3>1
  <2>2. QED
    BY <2>1
<1>6. ASSUME NEW i \in 1 .. Len(v)
      PROVE  d[i] = d[i - 1] + IF v[i].kind \in kinds THEN 1 ELSE 0
  <2>1. CASE i <= Len(w)
    <3>1. i \in 0 .. Len(w) /\ i - 1 \in 0 .. Len(w) /\ i \in 1 .. Len(w)
      BY <1>1, <2>1
    <3>2. d[i] = f[i] /\ d[i - 1] = f[i - 1] /\ v[i] = w[i]
      BY <1>1, <1>3, <3>1
    <3>3. f[i] = f[i - 1] + IF w[i].kind \in kinds THEN 1 ELSE 0
      BY <3>1 DEF Numbered
    <3>4. QED
      BY <3>2, <3>3
  <2>2. CASE i > Len(w)
    <3>1. i = Len(v) /\ i - 1 = Len(w) /\ Len(w) \in 0 .. Len(w)
      BY <1>1, <2>2
    <3>2. d[i] = next /\ d[i - 1] = f[Len(w)] /\ v[i] = m
      BY <1>1, <1>3, <1>4, <3>1
    <3>3. f[Len(w)] = last
      BY DEF Numbered
    <3>4. QED
      BY <3>2, <3>3
  <2>3. QED
    BY <1>1, <2>1, <2>2
<1>7. d[0] = first
  <2>1. 0 \in 0 .. Len(w) /\ f[0] = first
    BY <1>1 DEF Numbered
  <2>2. QED
    BY <1>3, <2>1
<1> HIDE DEF d
<1>8. Numbered(d, v, kinds, first, next)
  BY <1>4, <1>5, <1>6, <1>7 DEF Numbered
<1>9. QED
  BY <1>3, <1>8

\* The count never falls.
LEMMA NumberedRises ==
  ASSUME NEW w \in Seq(Messages), NEW f, NEW kinds, NEW first, NEW last, Numbered(f, w, kinds, first, last)
  PROVE  first <= last
<1> DEFINE T == {i \in Nat : i <= Len(w) => first <= f[i]}
<1>1. Len(w) \in Nat /\ f[0] = first /\ f[Len(w)] = last /\ \A i \in 0 .. Len(w) : f[i] \in Nat
  BY LenProperties DEF Numbered
<1>2. 0 \in T
  BY <1>1
<1>3. ASSUME NEW n \in T PROVE n + 1 \in T
  <2>1. n \in Nat /\ n + 1 \in Nat
    OBVIOUS
  <2>2. SUFFICES ASSUME n + 1 <= Len(w) PROVE first <= f[n + 1]
    BY <2>1
  <2>3. n + 1 \in 1 .. Len(w) /\ (n + 1) - 1 = n /\ n \in 0 .. Len(w) /\ 0 \in 0 .. Len(w)
    BY <1>1, <2>1, <2>2
  <2>4. f[n + 1] = f[n] + 1 \/ f[n + 1] = f[n]
    BY <2>3, NumberedStep
  <2>5. first <= f[n] /\ f[n] \in Nat /\ first \in Nat
    BY <1>1, <2>2, <2>3
  <2>6. QED
    BY <2>4, <2>5
<1>4. T \in SUBSET Nat
  OBVIOUS
<1> HIDE DEF T
<1>5. T = Nat
  BY <1>2, <1>3, <1>4, NatSets
<1>6. QED
  BY <1>1, <1>5 DEF T

\* Up to position n, the number is the position, counted from the first on.
Follows(f, first, n) == \A i \in 0 .. n : f[i] = first + i

\* Where all messages count, the number is the position, from the first on.
LEMMA NumberedAll ==
  ASSUME NEW w \in Seq(Messages), NEW f, NEW kinds, NEW first \in Nat, NEW last,
         Numbered(f, w, kinds, first, last), NEW n \in 0 .. Len(w), \A i \in 1 .. n : w[i].kind \in kinds
  PROVE  Follows(f, first, n)
<1> DEFINE T == {i \in Nat : i <= n => f[i] = first + i}
<1>1. Len(w) \in Nat /\ f[0] = first /\ n \in Nat
  BY LenProperties DEF Numbered
<1>2. 0 \in T
  BY <1>1
<1>3. ASSUME NEW j \in T PROVE j + 1 \in T
  <2>1. j \in Nat /\ j + 1 \in Nat
    OBVIOUS
  <2>2. SUFFICES ASSUME j + 1 <= n PROVE f[j + 1] = first + (j + 1)
    BY <2>1
  <2>3. j + 1 \in 1 .. Len(w) /\ j + 1 \in 1 .. n /\ (j + 1) - 1 = j /\ j <= n
    BY <1>1, <2>1, <2>2
  <2>4. f[j + 1] = f[j] + 1
    BY <2>3, NumberedStep
  <2>5. f[j] = first + j
    BY <2>3
  <2>6. QED
    BY <2>1, <2>4, <2>5
<1>4. T \in SUBSET Nat
  OBVIOUS
<1> HIDE DEF T
<1>5. T = Nat
  BY <1>2, <1>3, <1>4, NatSets
<1>6. QED
  BY <1>1, <1>5 DEF T, Follows

\* Where none counts, it stays.
LEMMA NumberedNone ==
  ASSUME NEW w \in Seq(Messages), NEW f, NEW kinds, NEW first, NEW last,
         Numbered(f, w, kinds, first, last), NEW n \in 0 .. Len(w), \A i \in 1 .. n : w[i].kind \notin kinds
  PROVE  f[n] = first
<1> DEFINE T == {i \in Nat : i <= n => f[i] = first}
<1>1. Len(w) \in Nat /\ f[0] = first /\ n \in Nat
  BY LenProperties DEF Numbered
<1>2. 0 \in T
  BY <1>1
<1>3. ASSUME NEW j \in T PROVE j + 1 \in T
  <2>1. j \in Nat /\ j + 1 \in Nat
    OBVIOUS
  <2>2. SUFFICES ASSUME j + 1 <= n PROVE f[j + 1] = first
    BY <2>1
  <2>3. j + 1 \in 1 .. Len(w) /\ j + 1 \in 1 .. n /\ (j + 1) - 1 = j /\ j <= n
    BY <1>1, <2>1, <2>2
  <2>4. f[j + 1] = f[j]
    BY <2>3, NumberedStep
  <2>5. f[j] = first
    BY <2>3
  <2>6. QED
    BY <2>4, <2>5
<1>4. T \in SUBSET Nat
  OBVIOUS
<1> HIDE DEF T
<1>5. T = Nat
  BY <1>2, <1>3, <1>4, NatSets
<1>6. QED
  BY <1>1, <1>5 DEF T

-----------------------------------------------------------------------------
(***************************************************************************)
(* What the parts of the invariant need, when the server sends.            *)
(***************************************************************************)

\* One message more.
LEMMA SentOne ==
  ASSUME Typed, NEW c, NEW r, StepsCounted(c), RowsCounted(r), NEW m \in Messages,
         wire' = wire \o <<m>>,
         at' = at + (IF m.kind \in StepEnds THEN 1 ELSE 0),
         produced' = produced + (IF m.kind \in {"ROW"} THEN 1 ELSE 0)
  PROVE  /\ wire' \in Seq(Messages) /\ Len(wire) \in Nat /\ Len(wire') = Len(wire) + 1
         /\ \A i \in 1 .. Len(wire) : wire'[i] = wire[i]
         /\ wire'[Len(wire) + 1] = m
         /\ \E d, s : /\ Numbered(d, wire', StepEnds, queryNo + 1, at')
                      /\ Numbered(s, wire', {"ROW"}, Len(table) + Len(data), produced')
                      /\ \A i \in 0 .. Len(wire) : d[i] = c[i] /\ s[i] = r[i]
<1>1. wire' = Append(wire, m)
  BY AppendIsConcat DEF Typed
<1>2. /\ Numbered(c, wire, StepEnds, queryNo + 1, at)
      /\ Numbered(r, wire, {"ROW"}, Len(table) + Len(data), produced)
      /\ wire \in Seq(Messages) /\ at \in Nat /\ produced \in Nat
  BY DEF StepsCounted, RowsCounted, Typed
<1>3. PICK v, next, rows : v = wire' /\ next = at' /\ rows = produced'
  OBVIOUS
<1>4. /\ v \in Seq(Messages) /\ Len(wire) \in Nat /\ Len(v) = Len(wire) + 1
      /\ \A i \in 1 .. Len(wire) : v[i] = wire[i]
      /\ v[Len(wire) + 1] = m
  BY <1>1, <1>2, <1>3, LenProperties, AppendProperties
<1>5. \E d : Numbered(d, v, StepEnds, queryNo + 1, next) /\ \A i \in 0 .. Len(wire) : d[i] = c[i]
  BY <1>1, <1>2, <1>3, NumberedSend
<1>6. \E s : /\ Numbered(s, v, {"ROW"}, Len(table) + Len(data), rows)
             /\ \A i \in 0 .. Len(wire) : s[i] = r[i]
  BY <1>1, <1>2, <1>3, NumberedSend
<1>7. QED
  BY <1>3, <1>4, <1>6, <1>5

\* Two messages more.
SendsTwo(m, n) ==
  /\ wire' = wire \o <<m, n>> /\ m.kind \notin StepEnds /\ m.kind # "ROW" /\ n.kind # "ROW"
  /\ at' = at + (IF n.kind \in StepEnds THEN 1 ELSE 0) /\ produced' = produced

\* The numbers go on along the two messages.
LEMMA SentTwo ==
  ASSUME Typed, NEW c, NEW r, StepsCounted(c), RowsCounted(r), NEW m \in Messages, NEW n \in Messages,
         SendsTwo(m, n)
  PROVE  /\ wire' \in Seq(Messages) /\ Len(wire) \in Nat /\ Len(wire') = Len(wire) + 2
         /\ \A i \in 1 .. Len(wire) : wire'[i] = wire[i]
         /\ wire'[Len(wire) + 1] = m /\ wire'[Len(wire) + 2] = n
         /\ \E d, s : /\ Numbered(d, wire', StepEnds, queryNo + 1, at') /\ d[Len(wire) + 1] = at
                      /\ Numbered(s, wire', {"ROW"}, Len(table) + Len(data), produced')
                      /\ \A i \in 0 .. Len(wire) : d[i] = c[i] /\ s[i] = r[i]
<1> USE DEF SendsTwo
<1>1. /\ Numbered(c, wire, StepEnds, queryNo + 1, at)
      /\ Numbered(r, wire, {"ROW"}, Len(table) + Len(data), produced)
      /\ wire \in Seq(Messages) /\ at \in Nat /\ produced \in Nat
  BY DEF StepsCounted, RowsCounted, Typed
<1>2. PICK v, next, rows : v = wire' /\ next = at' /\ rows = produced'
  OBVIOUS
<1>3. PICK u : u = Append(wire, m)
  OBVIOUS
<1>4. v = Append(u, n)
  <2>1. PICK both : both = <<m, n>>
    OBVIOUS
  <2>2. both \in Seq(Messages) /\ Len(both) = 2 /\ both[1] = m /\ both[2] = n
    BY <2>1
  <2>3. /\ v \in Seq(Messages) /\ Len(v) = Len(wire) + Len(both)
        /\ \A i \in 1 .. Len(wire) + Len(both) : v[i] = IF i <= Len(wire) THEN wire[i] ELSE both[i - Len(wire)]
    BY <1>1, <1>2, <2>1, <2>2, ConcatProperties
  <2>4. /\ u \in Seq(Messages) /\ Len(u) = Len(wire) + 1 /\ \A i \in 1 .. Len(wire) : u[i] = wire[i]
        /\ u[Len(wire) + 1] = m
    BY <1>1, <1>3, AppendProperties
  <2>5. PICK w : w = Append(u, n)
    OBVIOUS
  <2>6. /\ w \in Seq(Messages) /\ Len(w) = Len(u) + 1 /\ \A i \in 1 .. Len(u) : w[i] = u[i]
        /\ w[Len(u) + 1] = n
    BY <2>4, <2>5, AppendProperties
  <2>7. Len(wire) \in Nat
    BY <1>1, LenProperties
  <2>8. Len(v) = Len(w) /\ \A i \in 1 .. Len(v) : v[i] = w[i]
    BY <2>2, <2>3, <2>4, <2>6, <2>7
  <2>9. QED
    BY <2>3, <2>5, <2>6, <2>8, SeqEqual
<1>5. /\ u \in Seq(Messages) /\ Len(wire) \in Nat /\ Len(u) = Len(wire) + 1
      /\ \A i \in 1 .. Len(wire) : u[i] = wire[i]
      /\ u[Len(wire) + 1] = m
  BY <1>1, <1>3, LenProperties, AppendProperties
<1>6. \E e : /\ Numbered(e, u, {"ROW"}, Len(table) + Len(data), produced)
             /\ \A i \in 0 .. Len(wire) : e[i] = r[i]
  BY <1>1, <1>3, NumberedSend
<1>7. PICK e : Numbered(e, u, StepEnds, queryNo + 1, at) /\ \A i \in 0 .. Len(wire) : e[i] = c[i]
  BY <1>1, <1>3, NumberedSend
<1>8. PICK g : /\ Numbered(g, u, {"ROW"}, Len(table) + Len(data), produced)
               /\ \A i \in 0 .. Len(wire) : g[i] = r[i]
  BY <1>6
<1>9. /\ v \in Seq(Messages) /\ Len(v) = Len(u) + 1
      /\ \A i \in 1 .. Len(u) : v[i] = u[i]
      /\ v[Len(u) + 1] = n
  BY <1>4, <1>5, LenProperties, AppendProperties
<1>10. \E s : /\ Numbered(s, v, {"ROW"}, Len(table) + Len(data), rows)
              /\ \A i \in 0 .. Len(u) : s[i] = g[i]
  <2>1. PICK s, last : /\ Numbered(s, Append(u, n), {"ROW"}, Len(table) + Len(data), last)
                       /\ \A i \in 0 .. Len(u) : s[i] = g[i]
                       /\ last = produced + IF n.kind \in {"ROW"} THEN 1 ELSE 0
    BY <1>1, <1>5, <1>8, NumberedSend
  <2>2. last = rows
    BY <1>1, <1>2, <2>1
  <2>3. QED
    BY <1>4, <2>1, <2>2
<1>11. PICK d : Numbered(d, v, StepEnds, queryNo + 1, next) /\ \A i \in 0 .. Len(u) : d[i] = e[i]
  <2>1. PICK d, last : /\ Numbered(d, Append(u, n), StepEnds, queryNo + 1, last)
                       /\ \A i \in 0 .. Len(u) : d[i] = e[i]
                       /\ last = at + IF n.kind \in StepEnds THEN 1 ELSE 0
    BY <1>1, <1>5, <1>7, NumberedSend
  <2>2. last = next
    BY <1>2, <2>1
  <2>3. QED
    BY <1>4, <2>1, <2>2
<1>12. PICK s : /\ Numbered(s, v, {"ROW"}, Len(table) + Len(data), rows)
                /\ \A i \in 0 .. Len(u) : s[i] = g[i]
  BY <1>10
<1>13. d[Len(wire) + 1] = at
  <2>1. e[Len(u)] = at /\ Len(u) \in 0 .. Len(u)
    BY <1>5, <1>7 DEF Numbered
  <2>2. QED
    BY <1>5, <1>11, <2>1
<1>14. \A i \in 0 .. Len(wire) : d[i] = c[i] /\ s[i] = r[i]
  BY <1>5, <1>7, <1>8, <1>11, <1>12
<1>15. /\ Len(v) = Len(wire) + 2 /\ v[Len(wire) + 1] = m /\ v[Len(wire) + 2] = n
       /\ \A i \in 1 .. Len(wire) : v[i] = wire[i]
  BY <1>5, <1>9
<1>16. QED
  BY <1>2, <1>5, <1>9, <1>11, <1>12, <1>13, <1>14, <1>15

\* The client keeps what it has, and the messages on the wire their places.
ClientWaits == UNCHANGED <<tables, script, steps, result, queryNo, nextRow, data, columns, table, ending>>
Longer == /\ Len(wire) \in Nat /\ Len(wire') \in Nat /\ Len(wire) <= Len(wire')
          /\ \A i \in 1 .. Len(wire) : wire'[i] = wire[i]

\* A message is old or new.
LEMMA OldOrNew ==
  ASSUME Longer
  PROVE  /\ \A i \in 1 .. Len(wire') : i \in 1 .. Len(wire) \/ i \in Len(wire) + 1 .. Len(wire')
         /\ \A i \in 1 .. Len(wire) : wire'[i] = wire[i] /\ i \in 0 .. Len(wire) /\ i - 1 \in 0 .. Len(wire)
<1>1. PICK n, m : n = Len(wire) /\ m = Len(wire')
  OBVIOUS
<1>2. n \in Nat /\ m \in Nat /\ n <= m /\ \A i \in 1 .. n : wire'[i] = wire[i]
  BY <1>1 DEF Longer
<1>3. /\ \A i \in 1 .. m : i \in 1 .. n \/ i \in n + 1 .. m
      /\ \A i \in 1 .. n : i \in 0 .. n /\ i - 1 \in 0 .. n
  BY <1>2
<1>4. QED
  BY <1>1, <1>2, <1>3

\* The steps stay counted if the new messages are of the steps they should be of.
LEMMA SentSteps ==
  ASSUME Typed, NEW c, StepsCounted(c), ClientWaits, Longer, mode # "idle", mode' # "idle",
         NEW d, Numbered(d, wire', StepEnds, queryNo + 1, at'), \A i \in 0 .. Len(wire) : d[i] = c[i],
         at' <= Len(script) + 1, mode' = "copying_out" => at' = Len(script),
         \A i \in Len(wire) + 1 .. Len(wire') :
           /\ wire'[i].kind \in {"COPY_OUT", "ROW"} => d[i - 1] = Len(script)
           /\ wire'[i].kind = "TUPLES_OK" => d[i - 1] = Len(script) - 1
           /\ wire'[i].kind = "COMMAND_OK" => d[i - 1] # Len(script) - 1
  PROVE  StepsCounted(d)'
<1>1. ASSUME NEW i \in 1 .. Len(wire')
      PROVE  /\ wire'[i].kind \in {"COPY_OUT", "ROW"} => d[i - 1] = Len(script)
             /\ wire'[i].kind = "TUPLES_OK" => d[i - 1] = Len(script) - 1
             /\ wire'[i].kind = "COMMAND_OK" => d[i - 1] # Len(script) - 1
  <2>1. CASE i \in 1 .. Len(wire)
    <3>1. wire'[i] = wire[i] /\ d[i - 1] = c[i - 1]
      BY <2>1, OldOrNew
    <3>2. QED
      BY <2>1, <3>1 DEF StepsCounted
  <2>2. CASE i \in Len(wire) + 1 .. Len(wire')
    BY <2>2
  <2>3. QED
    BY <2>1, <2>2, OldOrNew
<1>2. QED
  BY <1>1 DEF StepsCounted, ClientWaits

\* The rows stay counted if the new ones have their numbers.
LEMMA SentRows ==
  ASSUME Typed, NEW r, RowsCounted(r), ClientWaits, Longer, mode # "idle",
         NEW s, Numbered(s, wire', {"ROW"}, Len(table) + Len(data), produced'),
         \A i \in 0 .. Len(wire) : s[i] = r[i],
         \A i \in Len(wire) + 1 .. Len(wire') : wire'[i].kind = "ROW" => wire'[i].row = s[i]
  PROVE  RowsCounted(s)'
<1>1. ASSUME NEW i \in 1 .. Len(wire'), wire'[i].kind = "ROW"
      PROVE  wire'[i].row = s[i]
  <2>1. CASE i \in 1 .. Len(wire)
    <3>1. wire'[i] = wire[i] /\ s[i] = r[i]
      BY <2>1, OldOrNew
    <3>2. QED
      BY <1>1, <2>1, <3>1 DEF RowsCounted
  <2>2. CASE i \in Len(wire) + 1 .. Len(wire')
    BY <1>1, <2>2
  <2>3. QED
    BY <2>1, <2>2, OldOrNew
<1>2. QED
  BY <1>1 DEF RowsCounted, ClientWaits

\* While the server is at anything but a COPY IN that it waits for, none is on the wire.
LEMMA NoCopyIn ==
  ASSUME Typed, NEW c, CopiesCounted(c), mode \in {"running", "copying_out"} \/ (mode = "copying_in" /\ copyEnded)
  PROVE  /\ result # "COPY_IN" /\ \A k \in 1 .. Len(wire) : wire[k].kind # "COPY_IN"
         /\ copyEnded => mode = "copying_in"
BY DEF CopiesCounted, CopyingIn, Typed

\* The server goes on, no COPY IN being on the wire before.
LEMMA SentCopies ==
  ASSUME Typed, NEW c, CopiesCounted(c), ClientWaits, Longer,
         mode \in {"running", "copying_out"} \/ (mode = "copying_in" /\ copyEnded),
         NEW d,
         \A k \in Len(wire) + 1 .. Len(wire') : wire'[k].kind = "COPY_IN" => CopyingIn(d, k)',
         copyEnded' = FALSE,
         mode' = "copying_in" => at' <= Len(script) /\ script[at'].action = "COPY_IN"
  PROVE  CopiesCounted(d)'
<1>1. /\ result # "COPY_IN" /\ \A k \in 1 .. Len(wire) : wire[k].kind # "COPY_IN"
      /\ nextRow = 0
  BY NoCopyIn DEF CopiesCounted
<1>2. ASSUME NEW k \in 1 .. Len(wire'), wire'[k].kind = "COPY_IN"
      PROVE  CopyingIn(d, k)'
  <2>1. CASE k \in 1 .. Len(wire)
    BY <1>1, <1>2, <2>1, OldOrNew
  <2>2. CASE k \in Len(wire) + 1 .. Len(wire')
    BY <1>2, <2>2
  <2>3. QED
    BY <2>1, <2>2, OldOrNew
<1>3. QED
  BY <1>1, <1>2 DEF CopiesCounted, ClientWaits

\* READY is the last message there is.
LEMMA SentEnd ==
  ASSUME Typed, Ended, Longer, mode # "ready",
         \A i \in Len(wire) + 1 .. Len(wire') : wire'[i].kind = "READY" => i = Len(wire') /\ mode' = "ready",
         mode' = "ready" => at' > Len(script') \/ \E i \in 1 .. Len(wire') : wire'[i].kind = "FATAL_ERROR"
  PROVE  Ended'
<1>1. ASSUME NEW i \in 1 .. Len(wire'), wire'[i].kind = "READY"
      PROVE  i = Len(wire') /\ mode' = "ready"
  <2>1. CASE i \in 1 .. Len(wire)
    BY <1>1, <2>1, OldOrNew DEF Ended
  <2>2. CASE i \in Len(wire) + 1 .. Len(wire')
    BY <1>1, <2>2
  <2>3. QED
    BY <2>1, <2>2, OldOrNew
<1>2. QED
  BY <1>1 DEF Ended

\* What a step of the server has to show, if it sends one message and does not fail.
Sends(m) ==
  /\ wire' = wire \o <<m>>
  /\ at' = at + (IF m.kind \in StepEnds THEN 1 ELSE 0)
  /\ produced' = produced + (IF m.kind \in {"ROW"} THEN 1 ELSE 0)
  /\ mode \in {"running", "copying_out"} \/ (mode = "copying_in" /\ copyEnded)
  /\ mode' # "idle" /\ at' <= Len(script) + 1 /\ (mode' = "copying_out" => at' = Len(script))
  /\ m.kind \in {"COPY_OUT", "ROW"} => at = Len(script)
  /\ m.kind = "TUPLES_OK" => at = Len(script) - 1
  /\ m.kind = "COMMAND_OK" => at # Len(script) - 1
  /\ m.kind = "ROW" => m.row = produced'
  /\ copyEnded' = FALSE
  /\ m.kind = "COPY_IN" => mode' = "copying_in"
  /\ mode' = "copying_in" => at' <= Len(script) /\ script[at'].action = "COPY_IN"
  /\ m.kind = "READY" <=> mode' = "ready"
  /\ mode' = "ready" => at' > Len(script)

\* The invariant goes on along a message that is sent.
LEMMA OneFlows ==
  ASSUME Typed, NEW c, NEW r, Flow(c, r), ClientWaits, NEW m \in Messages, Sends(m), Taken'
  PROVE  \E d, s : Flow(d, s)'
<1> USE DEF Sends
<1>1. StepsCounted(c) /\ RowsCounted(r) /\ CopiesCounted(c) /\ Ended /\ mode # "idle" /\ mode # "ready"
  BY DEF Flow
<1>2. /\ wire' \in Seq(Messages) /\ Len(wire) \in Nat /\ Len(wire') = Len(wire) + 1
      /\ \A i \in 1 .. Len(wire) : wire'[i] = wire[i]
      /\ wire'[Len(wire) + 1] = m
      /\ \E d, s : /\ Numbered(d, wire', StepEnds, queryNo + 1, at')
                   /\ Numbered(s, wire', {"ROW"}, Len(table) + Len(data), produced')
                   /\ \A i \in 0 .. Len(wire) : d[i] = c[i] /\ s[i] = r[i]
  BY <1>1, SentOne
<1>3. PICK d, s : /\ Numbered(d, wire', StepEnds, queryNo + 1, at')
                  /\ Numbered(s, wire', {"ROW"}, Len(table) + Len(data), produced')
                  /\ \A i \in 0 .. Len(wire) : d[i] = c[i] /\ s[i] = r[i]
  BY <1>2
<1>4. Longer
  BY <1>2 DEF Longer
<1>5. \A i \in Len(wire) + 1 .. Len(wire') : i = Len(wire') /\ i - 1 = Len(wire) /\ wire'[i] = m
  BY <1>2
<1>6. d[Len(wire)] = at /\ d[Len(wire')] = at' /\ s[Len(wire')] = produced'
  <2>1. c[Len(wire)] = at /\ Len(wire) \in 0 .. Len(wire)
    BY <1>2, <1>1 DEF StepsCounted, Numbered
  <2>2. QED
    BY <1>3, <2>1 DEF Numbered
<1>7. ASSUME NEW i \in Len(wire) + 1 .. Len(wire')
       PROVE  /\ wire'[i] = m /\ d[i - 1] = at /\ s[i] = produced' /\ i = Len(wire')
  BY <1>5, <1>6
<1>8. StepsCounted(d)'
  <2>1. \A i \in Len(wire) + 1 .. Len(wire') :
          /\ wire'[i].kind \in {"COPY_OUT", "ROW"} => d[i - 1] = Len(script)
          /\ wire'[i].kind = "TUPLES_OK" => d[i - 1] = Len(script) - 1
          /\ wire'[i].kind = "COMMAND_OK" => d[i - 1] # Len(script) - 1
    BY <1>7
  <2>2. QED
    BY <1>3, <1>4, <1>1, <2>1, SentSteps
<1>9. RowsCounted(s)'
  <2>1. \A i \in Len(wire) + 1 .. Len(wire') : wire'[i].kind = "ROW" => wire'[i].row = s[i]
    BY <1>7
  <2>2. QED
    BY <1>3, <1>4, <1>1, <2>1, SentRows
<1>10. CopiesCounted(d)'
  <2>1. \A k \in Len(wire) + 1 .. Len(wire') : wire'[k].kind = "COPY_IN" => CopyingIn(d, k)'
    <3>1. SUFFICES ASSUME m.kind = "COPY_IN", NEW k, k = Len(wire') PROVE CopyingIn(d, k)'
      BY <1>7
    <3>2. script' = script /\ d[k] = at' /\ mode' = "copying_in"
      BY <1>6, <3>1 DEF ClientWaits
    <3>3. QED
      BY <3>1, <3>2 DEF CopyingIn
  <2>2. QED
    BY <1>4, <1>1, <2>1, SentCopies
<1>11. Ended'
  <2>1. \A i \in Len(wire) + 1 .. Len(wire') : wire'[i].kind = "READY" => i = Len(wire') /\ mode' = "ready"
    BY <1>7
  <2>2. script' = script
    BY DEF ClientWaits
  <2>3. QED
    BY <1>4, <1>1, <2>1, <2>2, SentEnd
<1>12. QED
  BY <1>8, <1>9, <1>10, <1>11 DEF Flow

\* While the server is at work, the calls go on, and it runs what was injected.
LEMMA Served ==
  ASSUME Typed, Linked, Scripted, mode # "idle"
  PROVE  script = steps /\ Shaped(script, tables) /\ tables \in Seq(Nat)
<1>1. tables \in Seq(Nat) /\ injector \in {"default", "noresult"}
  BY ExecutorAssumption DEF Typed
<1>2. steps = Inject(injector, tables, 0) /\ script = steps
  BY DEF Scripted
<1>3. QED
  BY <1>1, <1>2, InjectShape

\* The last step and the last but one are where their actions say.
LEMMA StepAt ==
  ASSUME Typed, Linked, Scripted, mode # "idle", at <= Len(script)
  PROVE  /\ Len(script) \in Nat /\ at \in 1 .. Len(script)
         /\ script[at].action = "GET_RESULT" => at = Len(script)
         /\ script[at].action = "GET_COLUMN_TYPES" <=> at = Len(script) - 1
<1>1. Shaped(script, tables) /\ at \in Nat \ {0}
  BY Served DEF Typed
<1>2. Len(script) \in Nat /\ at \in 1 .. Len(script)
  BY <1>1 DEF Shaped
<1>3. at = Len(script) \/ at = Len(script) - 1 \/ at \in 1 .. Len(script) - 2
  BY <1>2
<1>4. QED
  BY <1>1, <1>2, <1>3 DEF Shaped

-----------------------------------------------------------------------------
(***************************************************************************)
(* The steps of the server, one by one.                                    *)
(***************************************************************************)
ServerSteps == UNCHANGED <<input, task, cancelRequest, ending>>

\* A message without a row.
LEMMA MessageKind ==
  \A kind \in Kinds : \E m \in Messages : m = Message(kind) /\ m.kind = kind
<1>1. \A kind \in Kinds : Message(kind) \in Messages /\ Message(kind).kind = kind
  BY DEF Message, Messages
<1>2. QED
  BY <1>1

\* What is there before any step of the server.
LEMMA Serving ==
  ASSUME Typed, Linked, Scripted, NEW c, NEW r, Flow(c, r), ServerSteps, link = "up", mode # "idle",
         UNCHANGED script
  PROVE  /\ ClientWaits /\ StepsCounted(c) /\ RowsCounted(r) /\ CopiesCounted(c) /\ Taken /\ Ended
         /\ Len(script) \in Nat /\ at \in Nat \ {0} /\ at <= Len(script) + 1 /\ produced \in Nat
         /\ copyEnded \in BOOLEAN /\ (mode \in {"running", "copying_out"} => copyEnded = FALSE)
         /\ mode = "copying_out" => at = Len(script)
         /\ mode = "copying_in" => at <= Len(script) /\ script[at].action = "COPY_IN"
<1>1. Shaped(script, tables)
  BY Served
<1>2. StepsCounted(c) /\ CopiesCounted(c)
  BY DEF Flow
<1>3. at <= Len(script) + 1 /\ (mode = "copying_out" => at = Len(script))
  BY <1>2 DEF StepsCounted
<1>4. /\ mode = "copying_in" => at <= Len(script) /\ script[at].action = "COPY_IN"
      /\ copyEnded = TRUE => mode \in {"copying_in", "ready"}
  BY <1>2 DEF CopiesCounted
<1>5. QED
  BY <1>1, <1>2, <1>3, <1>4 DEF Flow, ServerSteps, ClientWaits, Shaped, Typed

\* A statement with no rows is a step on.
LEMMA RunCommandFlows ==
  ASSUME Typed, Linked, Scripted, NEW c, NEW r, Flow(c, r), ServerSteps, RunCommand
  PROVE  \E d, s : Flow(d, s)'
<1>1. /\ link = "up" /\ mode = "running" /\ at <= Len(script) /\ script[at].action \in {"COMMAND", "INSERT"}
      /\ wire' = wire \o <<Message("COMMAND_OK")>> /\ at' = at + 1
      /\ UNCHANGED <<link, script, mode, copyEnded, stored, produced>>
  BY DEF RunCommand, Runs, Send
<1>2. /\ ClientWaits /\ Taken /\ Len(script) \in Nat /\ at \in Nat \ {0} /\ produced \in Nat
      /\ copyEnded = FALSE
  BY <1>1, Serving
<1>3. PICK m \in Messages : m = Message("COMMAND_OK") /\ m.kind = "COMMAND_OK"
  BY MessageKind DEF Kinds
<1>4. at # Len(script) - 1
  BY <1>1, StepAt
<1>5. Taken'
  BY <1>1, <1>2 DEF Taken, Holds, ClientWaits
<1>6. Sends(m)
  BY <1>1, <1>2, <1>3, <1>4 DEF Sends, StepEnds
<1>7. QED
  BY <1>2, <1>3, <1>5, <1>6, OneFlows

\* The query that is run for its columns is the last step but one.
LEMMA RunQueryFlows ==
  ASSUME Typed, Linked, Scripted, NEW c, NEW r, Flow(c, r), ServerSteps, RunQuery
  PROVE  \E d, s : Flow(d, s)'
<1>1. /\ link = "up" /\ mode = "running" /\ at <= Len(script) /\ script[at].action = "GET_COLUMN_TYPES"
      /\ wire' = wire \o <<Message("TUPLES_OK")>> /\ at' = at + 1
      /\ UNCHANGED <<link, script, mode, copyEnded, stored, produced>>
  BY DEF RunQuery, Runs, Send
<1>2. /\ ClientWaits /\ Taken /\ Len(script) \in Nat /\ at \in Nat \ {0} /\ produced \in Nat
      /\ copyEnded = FALSE
  BY <1>1, Serving
<1>3. PICK m \in Messages : m = Message("TUPLES_OK") /\ m.kind = "TUPLES_OK"
  BY MessageKind DEF Kinds
<1>4. at = Len(script) - 1
  BY <1>1, StepAt
<1>5. Taken'
  BY <1>1, <1>2 DEF Taken, Holds, ClientWaits
<1>6. Sends(m)
  BY <1>1, <1>2, <1>3, <1>4 DEF Sends, StepEnds
<1>7. QED
  BY <1>2, <1>3, <1>5, <1>6, OneFlows

\* A table is waited for, of which nothing was taken in before.
LEMMA BeginCopyInFlows ==
  ASSUME Typed, Linked, Scripted, NEW c, NEW r, Flow(c, r), ServerSteps, BeginCopyIn
  PROVE  \E d, s : Flow(d, s)'
<1>1. /\ link = "up" /\ mode = "running" /\ at <= Len(script) /\ script[at].action = "COPY_IN"
      /\ wire' = wire \o <<Message("COPY_IN")>> /\ mode' = "copying_in"
      /\ UNCHANGED <<link, script, at, copyEnded, stored, produced>>
  BY DEF BeginCopyIn, Runs, Send
<1>2. /\ ClientWaits /\ CopiesCounted(c) /\ Taken /\ Len(script) \in Nat /\ at \in Nat \ {0} /\ produced \in Nat
      /\ copyEnded = FALSE
  BY <1>1, Serving
<1>3. PICK m \in Messages : m = Message("COPY_IN") /\ m.kind = "COPY_IN"
  BY MessageKind DEF Kinds
<1>4. nextRow = 0
  <2>1. result # "COPY_IN"
    BY <1>1, <1>2, NoCopyIn
  <2>2. QED
    BY <1>2, <2>1 DEF CopiesCounted
<1>5. Taken'
  <2>1. DOMAIN stored' = DOMAIN tables'
    BY <1>1, <1>2 DEF Taken, ClientWaits
  <2>2. ASSUME NEW i \in 1 .. Len(script), script[i].action = "COPY_IN"
        PROVE  /\ i < at \/ (i = at /\ copyEnded) => Holds(i, tables[script[i].table])
               /\ i > at \/ (i = at /\ mode = "running") => stored[script[i].table] = <<>>
    BY <1>2, <2>2 DEF Taken
  <2>3. \A t : Rows(t, 1, 0) = <<>>
    BY DEF Rows
  <2>4. ASSUME NEW i \in 1 .. Len(script), script[i].action = "COPY_IN", i = at
        PROVE  Holds(i, 0)
    BY <1>1, <2>2, <2>3, <2>4 DEF Holds
  <2>5. UNCHANGED <<script, tables, nextRow, stored, at, copyEnded>>
    BY <1>1, <1>2 DEF ClientWaits
  <2>6. QED
    BY <1>1, <1>2, <1>4, <2>1, <2>2, <2>4, <2>5 DEF Taken, Holds
<1>6. Sends(m)
  BY <1>1, <1>2, <1>3 DEF Sends, StepEnds
<1>7. QED
  BY <1>2, <1>3, <1>5, <1>6, OneFlows

\* The client has sent the end of its rows.
LEMMA EndCopyInFlows ==
  ASSUME Typed, Linked, Scripted, NEW c, NEW r, Flow(c, r), ServerSteps, EndCopyIn
  PROVE  \E d, s : Flow(d, s)'
<1>1. /\ link = "up" /\ mode = "copying_in" /\ copyEnded
      /\ wire' = wire \o <<Message("COMMAND_OK")>> /\ at' = at + 1 /\ mode' = "running" /\ copyEnded' = FALSE
      /\ UNCHANGED <<link, script, stored, produced>>
  BY DEF EndCopyIn, Send
<1>2. /\ ClientWaits /\ Taken /\ Len(script) \in Nat /\ at \in Nat \ {0} /\ produced \in Nat
      /\ at <= Len(script) /\ script[at].action = "COPY_IN"
  BY <1>1, Serving
<1>3. PICK m \in Messages : m = Message("COMMAND_OK") /\ m.kind = "COMMAND_OK"
  BY MessageKind DEF Kinds
<1>4. at # Len(script) - 1
  BY <1>1, <1>2, StepAt
<1>5. Taken'
  BY <1>1, <1>2 DEF Taken, Holds, ClientWaits
<1>6. Sends(m)
  BY <1>1, <1>2, <1>3, <1>4 DEF Sends, StepEnds
<1>7. QED
  BY <1>2, <1>3, <1>5, <1>6, OneFlows

\* The result is asked for by the last step.
LEMMA BeginCopyOutFlows ==
  ASSUME Typed, Linked, Scripted, NEW c, NEW r, Flow(c, r), ServerSteps, BeginCopyOut
  PROVE  \E d, s : Flow(d, s)'
<1>1. /\ link = "up" /\ mode = "running" /\ at <= Len(script) /\ script[at].action = "GET_RESULT"
      /\ wire' = wire \o <<Message("COPY_OUT")>> /\ mode' = "copying_out"
      /\ UNCHANGED <<link, script, at, copyEnded, stored, produced>>
  BY DEF BeginCopyOut, Runs, Send
<1>2. /\ ClientWaits /\ Taken /\ Len(script) \in Nat /\ at \in Nat \ {0} /\ produced \in Nat
      /\ copyEnded = FALSE
  BY <1>1, Serving
<1>3. PICK m \in Messages : m = Message("COPY_OUT") /\ m.kind = "COPY_OUT"
  BY MessageKind DEF Kinds
<1>4. at = Len(script)
  BY <1>1, StepAt
<1>5. Taken'
  BY <1>1, <1>2 DEF Taken, Holds, ClientWaits
<1>6. Sends(m)
  BY <1>1, <1>2, <1>3, <1>4 DEF Sends, StepEnds
<1>7. QED
  BY <1>2, <1>3, <1>5, <1>6, OneFlows

\* The rows are sent in order.
LEMMA SendRowFlows ==
  ASSUME Typed, Linked, Scripted, NEW c, NEW r, Flow(c, r), ServerSteps, SendRow
  PROVE  \E d, s : Flow(d, s)'
<1> DEFINE m == [kind |-> "ROW", row |-> produced + 1]
<1>1. /\ link = "up" /\ mode = "copying_out"
      /\ wire' = wire \o <<m>> /\ produced' = produced + 1
      /\ UNCHANGED <<link, script, at, mode, copyEnded, stored>>
  BY DEF SendRow, Send
<1>2. /\ ClientWaits /\ Taken /\ Len(script) \in Nat /\ at \in Nat \ {0} /\ produced \in Nat
      /\ copyEnded = FALSE /\ at = Len(script)
  BY <1>1, Serving
<1>3. m \in Messages /\ m.kind = "ROW" /\ m.row = produced + 1
  BY <1>2 DEF Messages, Kinds
<1> HIDE DEF m
<1>4. Taken'
  BY <1>1, <1>2 DEF Taken, Holds, ClientWaits
<1>5. Sends(m)
  BY <1>1, <1>2, <1>3, <1>4 DEF Sends, StepEnds
<1>6. QED
  BY <1>2, <1>3, <1>4, <1>5, OneFlows

\* The server is ready when all steps are through.
LEMMA ReadyFlows ==
  ASSUME Typed, Linked, Scripted, NEW c, NEW r, Flow(c, r), ServerSteps, Ready
  PROVE  \E d, s : Flow(d, s)'
<1>1. /\ link = "up" /\ mode = "running" /\ at > Len(script)
      /\ wire' = wire \o <<Message("READY")>> /\ mode' = "ready"
      /\ UNCHANGED <<link, script, at, copyEnded, stored, produced>>
  BY DEF Ready, Send
<1>2. /\ ClientWaits /\ Taken /\ Len(script) \in Nat /\ at \in Nat \ {0} /\ produced \in Nat
      /\ copyEnded = FALSE /\ at <= Len(script) + 1
  BY <1>1, Serving
<1>3. PICK m \in Messages : m = Message("READY") /\ m.kind = "READY"
  BY MessageKind DEF Kinds
<1>4. Taken'
  BY <1>1, <1>2 DEF Taken, Holds, ClientWaits
<1>5. Sends(m)
  BY <1>1, <1>2, <1>3, <1>4 DEF Sends, StepEnds
<1>6. QED
  BY <1>2, <1>3, <1>4, <1>5, OneFlows

\* The end of the result is two messages, the second of which ends the step.
LEMMA EndCopyOutFlows ==
  ASSUME Typed, Linked, Scripted, NEW c, NEW r, Flow(c, r), ServerSteps, EndCopyOut
  PROVE  \E d, s : Flow(d, s)'
<1>1. /\ link = "up" /\ mode = "copying_out" /\ mode' = "running"
      /\ wire' = wire \o <<Message("COPY_DONE"), Message("COMMAND_OK")>> /\ at' = at + 1
      /\ UNCHANGED <<link, script, copyEnded, stored, produced>>
  BY DEF EndCopyOut, Send
<1>2. /\ ClientWaits /\ Taken /\ Ended /\ Len(script) \in Nat /\ at \in Nat \ {0} /\ produced \in Nat
      /\ copyEnded = FALSE /\ at = Len(script)
      /\ StepsCounted(c) /\ RowsCounted(r) /\ CopiesCounted(c)
  BY <1>1, Serving
<1>3. PICK m \in Messages : m = Message("COPY_DONE") /\ m.kind = "COPY_DONE"
  BY MessageKind DEF Kinds
<1>4. PICK n \in Messages : n = Message("COMMAND_OK") /\ n.kind = "COMMAND_OK"
  BY MessageKind DEF Kinds
<1>5. SendsTwo(m, n)
  BY <1>1, <1>3, <1>4 DEF SendsTwo, StepEnds
<1>6. /\ wire' \in Seq(Messages) /\ Len(wire) \in Nat /\ Len(wire') = Len(wire) + 2
      /\ \A i \in 1 .. Len(wire) : wire'[i] = wire[i]
      /\ wire'[Len(wire) + 1] = m /\ wire'[Len(wire) + 2] = n
      /\ \E d, s : /\ Numbered(d, wire', StepEnds, queryNo + 1, at') /\ d[Len(wire) + 1] = at
                   /\ Numbered(s, wire', {"ROW"}, Len(table) + Len(data), produced')
                   /\ \A i \in 0 .. Len(wire) : d[i] = c[i] /\ s[i] = r[i]
  BY <1>2, <1>5, SentTwo
<1>7. PICK d, s : /\ Numbered(d, wire', StepEnds, queryNo + 1, at') /\ d[Len(wire) + 1] = at
                  /\ Numbered(s, wire', {"ROW"}, Len(table) + Len(data), produced')
                  /\ \A i \in 0 .. Len(wire) : d[i] = c[i] /\ s[i] = r[i]
  BY <1>6
<1>8. Longer
  BY <1>6 DEF Longer
<1>9. \A i \in Len(wire) + 1 .. Len(wire') :
        wire'[i].kind = "COPY_DONE" \/ (wire'[i].kind = "COMMAND_OK" /\ d[i - 1] = at)
  <2>1. \A i \in Len(wire) + 1 .. Len(wire') : i = Len(wire) + 1 \/ (i = Len(wire) + 2 /\ i - 1 = Len(wire) + 1)
    BY <1>6
  <2>2. QED
    BY <1>3, <1>4, <1>6, <1>7, <2>1
<1>10. StepsCounted(d)'
  <2>1. \A i \in Len(wire) + 1 .. Len(wire') :
          /\ wire'[i].kind \in {"COPY_OUT", "ROW"} => d[i - 1] = Len(script)
          /\ wire'[i].kind = "TUPLES_OK" => d[i - 1] = Len(script) - 1
          /\ wire'[i].kind = "COMMAND_OK" => d[i - 1] # Len(script) - 1
    BY <1>2, <1>9
  <2>2. at' <= Len(script) + 1 /\ mode # "idle" /\ mode' # "idle" /\ mode' # "copying_out"
    BY <1>1, <1>2
  <2>3. QED
    BY <1>2, <1>7, <1>8, <2>1, <2>2, SentSteps
<1>11. RowsCounted(s)'
  <2>1. \A i \in Len(wire) + 1 .. Len(wire') : wire'[i].kind = "ROW" => wire'[i].row = s[i]
    BY <1>9
  <2>2. QED
    BY <1>1, <1>2, <1>7, <1>8, <2>1, SentRows
<1>12. CopiesCounted(d)'
  <2>1. \A k \in Len(wire) + 1 .. Len(wire') : wire'[k].kind = "COPY_IN" => CopyingIn(d, k)'
    BY <1>9
  <2>2. QED
    BY <1>1, <1>2, <1>8, <2>1, SentCopies
<1>13. Ended'
  <2>1. \A i \in Len(wire) + 1 .. Len(wire') : wire'[i].kind = "READY" => i = Len(wire') /\ mode' = "ready"
    BY <1>9
  <2>2. mode # "ready" /\ mode' # "ready"
    BY <1>1
  <2>3. QED
    BY <1>2, <1>8, <2>1, <2>2, SentEnd
<1>14. Taken'
  <2>1. script[at].action # "COPY_IN"
    BY <1>1, <1>2, Served DEF Shaped
  <2>2. QED
    BY <1>1, <1>2, <2>1 DEF Taken, Holds, ClientWaits
<1>15. QED
  BY <1>10, <1>11, <1>12, <1>13, <1>14 DEF Flow

\* A failure is followed by nothing but READY; a COPY IN that was under way may still be.
LEMMA FailFlows ==
  ASSUME Typed, Linked, Scripted, NEW c, NEW r, Flow(c, r), ServerSteps, Fail
  PROVE  \E d, s : Flow(d, s)'
<1>1. /\ link = "up" /\ mode \in {"running", "copying_in", "copying_out"} /\ mode' = "ready"
      /\ wire' = wire \o <<Message("FATAL_ERROR"), Message("READY")>>
      /\ UNCHANGED <<link, script, at, copyEnded, stored, produced>>
  BY DEF Fail, Send
<1>2. /\ ClientWaits /\ Taken /\ Ended /\ Len(script) \in Nat /\ at \in Nat \ {0} /\ produced \in Nat
      /\ at <= Len(script) + 1
      /\ StepsCounted(c) /\ RowsCounted(r) /\ CopiesCounted(c)
  BY <1>1, Serving
<1>3. PICK m \in Messages : m = Message("FATAL_ERROR") /\ m.kind = "FATAL_ERROR"
  BY MessageKind DEF Kinds
<1>4. PICK n \in Messages : n = Message("READY") /\ n.kind = "READY"
  BY MessageKind DEF Kinds
<1>5. SendsTwo(m, n)
  BY <1>1, <1>2, <1>3, <1>4 DEF SendsTwo, StepEnds
<1>6. /\ wire' \in Seq(Messages) /\ Len(wire) \in Nat /\ Len(wire') = Len(wire) + 2
      /\ \A i \in 1 .. Len(wire) : wire'[i] = wire[i]
      /\ wire'[Len(wire) + 1] = m /\ wire'[Len(wire) + 2] = n
      /\ \E d, s : /\ Numbered(d, wire', StepEnds, queryNo + 1, at') /\ d[Len(wire) + 1] = at
                   /\ Numbered(s, wire', {"ROW"}, Len(table) + Len(data), produced')
                   /\ \A i \in 0 .. Len(wire) : d[i] = c[i] /\ s[i] = r[i]
  BY <1>2, <1>5, SentTwo
<1>7. PICK d, s : /\ Numbered(d, wire', StepEnds, queryNo + 1, at')
                  /\ Numbered(s, wire', {"ROW"}, Len(table) + Len(data), produced')
                  /\ \A i \in 0 .. Len(wire) : d[i] = c[i] /\ s[i] = r[i]
  BY <1>6
<1>8. Longer
  BY <1>6 DEF Longer
<1>9. \A i \in Len(wire) + 1 .. Len(wire') :
        wire'[i].kind = "FATAL_ERROR" \/ (wire'[i].kind = "READY" /\ i = Len(wire'))
  <2>1. \A i \in Len(wire) + 1 .. Len(wire') : i = Len(wire) + 1 \/ (i = Len(wire) + 2 /\ i = Len(wire'))
    BY <1>6
  <2>2. QED
    BY <1>3, <1>4, <1>6, <2>1
<1>10. StepsCounted(d)'
  <2>1. \A i \in Len(wire) + 1 .. Len(wire') :
          /\ wire'[i].kind \in {"COPY_OUT", "ROW"} => d[i - 1] = Len(script)
          /\ wire'[i].kind = "TUPLES_OK" => d[i - 1] = Len(script) - 1
          /\ wire'[i].kind = "COMMAND_OK" => d[i - 1] # Len(script) - 1
    BY <1>9
  <2>2. at' <= Len(script) + 1 /\ mode # "idle" /\ mode' # "idle" /\ mode' # "copying_out"
    BY <1>1, <1>2
  <2>3. QED
    BY <1>2, <1>7, <1>8, <2>1, <2>2, SentSteps
<1>11. RowsCounted(s)'
  <2>1. \A i \in Len(wire) + 1 .. Len(wire') : wire'[i].kind = "ROW" => wire'[i].row = s[i]
    BY <1>9
  <2>2. QED
    BY <1>1, <1>2, <1>7, <1>8, <2>1, SentRows
<1>12. CopiesCounted(d)'
  <2>1. ASSUME NEW k \in 0 .. Len(wire), CopyingIn(c, k)
        PROVE  CopyingIn(d, k)'
    BY <1>1, <1>7, <2>1 DEF CopyingIn
  <2>2. result = "COPY_IN" => CopyingIn(d, 0)'
    <3>1. 0 \in 0 .. Len(wire)
      BY <1>6
    <3>2. QED
      BY <1>2, <2>1, <3>1 DEF CopiesCounted
  <2>3. ASSUME NEW k \in 1 .. Len(wire'), wire'[k].kind = "COPY_IN"
        PROVE  CopyingIn(d, k)'
    <3>1. CASE k \in 1 .. Len(wire)
      <4>1. k \in 0 .. Len(wire) /\ wire[k].kind = "COPY_IN"
        BY <1>8, <2>3, <3>1, OldOrNew
      <4>2. QED
        BY <1>2, <2>1, <3>1, <4>1 DEF CopiesCounted
    <3>2. CASE k \in Len(wire) + 1 .. Len(wire')
      BY <1>9, <2>3, <3>2
    <3>3. QED
      BY <1>8, <2>3, <3>1, <3>2, OldOrNew
  <2>4. QED
    BY <1>1, <1>2, <2>2, <2>3 DEF CopiesCounted, ClientWaits
<1>13. Ended'
  <2>1. \A i \in Len(wire) + 1 .. Len(wire') : wire'[i].kind = "READY" => i = Len(wire') /\ mode' = "ready"
    BY <1>1, <1>9
  <2>2. mode # "ready" /\ \E i \in 1 .. Len(wire') : wire'[i].kind = "FATAL_ERROR"
    <3>1. Len(wire) + 1 \in 1 .. Len(wire')
      BY <1>6
    <3>2. QED
      BY <1>1, <1>3, <1>6, <3>1
  <2>3. QED
    BY <1>2, <1>8, <2>1, <2>2, SentEnd
<1>14. Taken'
  BY <1>1, <1>2 DEF Taken, Holds, ClientWaits
<1>15. QED
  BY <1>10, <1>11, <1>12, <1>13, <1>14 DEF Flow

\* Whatever the server does.
LEMMA ServeFlows ==
  ASSUME Typed, Linked, Scripted, NEW c, NEW r, Flow(c, r), ServerSteps, Serve \/ Fail
  PROVE  \E d, s : Flow(d, s)'
BY RunCommandFlows, RunQueryFlows, BeginCopyInFlows, EndCopyInFlows, BeginCopyOutFlows, SendRowFlows,
   EndCopyOutFlows, ReadyFlows, FailFlows DEF Serve

-----------------------------------------------------------------------------
(***************************************************************************)
(* What the parts of the invariant need, when the client reads.            *)
(***************************************************************************)

\* The first k messages are taken from the wire.
Taking(k) ==
  /\ k \in 0 .. Len(wire) /\ wire' \in Seq(Messages) /\ Len(wire') = Len(wire) - k
  /\ \A i \in 1 .. Len(wire') : wire'[i] = wire[i + k]
ServerWaits == UNCHANGED <<tables, script, at, mode, produced>>

\* The places of the messages that are left.
LEMMA Left ==
  ASSUME Typed, NEW k, Taking(k)
  PROVE  /\ Len(wire) \in Nat /\ Len(wire') \in Nat /\ k \in Nat
         /\ \A i \in 1 .. Len(wire') :
              /\ wire'[i] = wire[i + k] /\ i + k \in 1 .. Len(wire)
              /\ i \in 0 .. Len(wire') /\ i - 1 \in 0 .. Len(wire') /\ (i - 1) + k = (i + k) - 1
BY LenProperties DEF Taking, Typed

\* They keep their numbers.
LEMMA Took ==
  ASSUME Typed, NEW c, NEW r, StepsCounted(c), RowsCounted(r), NEW k, Taking(k)
  PROVE  \E d, s : /\ Numbered(d, wire', StepEnds, c[k], at)
                   /\ Numbered(s, wire', {"ROW"}, r[k], produced)
                   /\ \A i \in 0 .. Len(wire') : d[i] = c[i + k] /\ s[i] = r[i + k]
<1>1. /\ Numbered(c, wire, StepEnds, queryNo + 1, at)
      /\ Numbered(r, wire, {"ROW"}, Len(table) + Len(data), produced)
      /\ wire \in Seq(Messages)
  BY DEF StepsCounted, RowsCounted, Typed
<1>2. PICK v : v = wire'
  OBVIOUS
<1>3. k \in 0 .. Len(wire) /\ v \in Seq(Messages) /\ Len(v) = Len(wire) - k /\ \A i \in 1 .. Len(v) : v[i] = wire[i + k]
  BY <1>2 DEF Taking
<1>4. \E d : Numbered(d, v, StepEnds, c[k], at) /\ \A i \in 0 .. Len(v) : d[i] = c[i + k]
  BY <1>1, <1>3, NumberedRead
<1>5. \E s : Numbered(s, v, {"ROW"}, r[k], produced) /\ \A i \in 0 .. Len(v) : s[i] = r[i + k]
  BY <1>1, <1>3, NumberedRead
<1>6. QED
  BY <1>2, <1>4, <1>5

\* The steps stay counted if the client counts those that it learns the end of.
LEMMA TookSteps ==
  ASSUME Typed, NEW c, StepsCounted(c), NEW k, Taking(k), ServerWaits,
         NEW d, Numbered(d, wire', StepEnds, queryNo' + 1, at), \A i \in 0 .. Len(wire') : d[i] = c[i + k],
         result' = "COPY_OUT" => queryNo' + 1 = Len(script),
         mode # "idle" /\ queryNo' + 1 >= Len(script) => columns'
  PROVE  StepsCounted(d)'
<1>1. ASSUME NEW i \in 1 .. Len(wire')
      PROVE  /\ wire'[i].kind \in {"COPY_OUT", "ROW"} => d[i - 1] = Len(script)
             /\ wire'[i].kind = "TUPLES_OK" => d[i - 1] = Len(script) - 1
             /\ wire'[i].kind = "COMMAND_OK" => d[i - 1] # Len(script) - 1
  <2>1. PICK j \in 1 .. Len(wire) : wire'[i] = wire[j] /\ d[i - 1] = c[j - 1]
    <3>1. /\ wire'[i] = wire[i + k] /\ i + k \in 1 .. Len(wire)
          /\ i - 1 \in 0 .. Len(wire') /\ (i - 1) + k = (i + k) - 1
      BY Left
    <3>2. d[i - 1] = c[(i + k) - 1]
      BY <3>1
    <3>3. QED
      BY <3>1, <3>2
  <2>2. QED
    BY <2>1 DEF StepsCounted
<1>2. QED
  BY <1>1 DEF StepsCounted, ServerWaits

\* The rows stay counted if the client has those that it has read.
LEMMA TookRows ==
  ASSUME Typed, NEW r, RowsCounted(r), NEW k, Taking(k), ServerWaits,
         NEW s, Numbered(s, wire', {"ROW"}, Len(table') + Len(data'), produced),
         \A i \in 0 .. Len(wire') : s[i] = r[i + k],
         table' \o data' = UpTo(Len(table') + Len(data')),
         result' # "COPY_OUT" => data' = <<>>,
         mode # "idle" /\ queryNo' + 1 < Len(script) => table' = <<>>
  PROVE  RowsCounted(s)'
<1>1. ASSUME NEW i \in 1 .. Len(wire')
      PROVE  wire'[i].kind = "ROW" => wire'[i].row = s[i]
  <2>1. PICK j \in 1 .. Len(wire) : wire'[i] = wire[j] /\ s[i] = r[j]
    BY Left
  <2>2. QED
    BY <2>1 DEF RowsCounted
<1>2. QED
  BY <1>1 DEF RowsCounted, ServerWaits, UpTo

\* A COPY IN that is left on the wire is as it was.
LEMMA TookCopies ==
  ASSUME Typed, NEW c, CopiesCounted(c), NEW k, Taking(k), ServerWaits,
         NEW d, \A i \in 0 .. Len(wire') : d[i] = c[i + k],
         copyEnded' = copyEnded \/ copyEnded' = FALSE \/ Len(wire') = 0,
         copyEnded' = TRUE => mode \in {"copying_in", "ready"},
         result' = "COPY_IN" => CopyingIn(d, 0)' /\ nextRow' < tables[script[at].table],
         result' # "COPY_IN" => nextRow' = 0
  PROVE  CopiesCounted(d)'
<1>1. ASSUME NEW i \in 1 .. Len(wire'), wire'[i].kind = "COPY_IN"
      PROVE  CopyingIn(d, i)'
  <2>1. /\ i + k \in 1 .. Len(wire) /\ wire'[i] = wire[i + k] /\ d[i] = c[i + k]
        /\ Len(wire') = Len(wire) - k /\ Len(wire') # 0 /\ k \in Nat /\ i \in Nat /\ Len(wire) \in Nat
    BY <1>1, Left DEF Taking
  <2>2. CopyingIn(c, i + k)
    BY <1>1, <2>1 DEF CopiesCounted
  <2>3. QED
    BY <2>1, <2>2 DEF CopyingIn, ServerWaits
<1>2. QED
  BY <1>1 DEF CopiesCounted, ServerWaits

\* Nor does any other step touch it.
LEMMA NoCopyTaken ==
  ASSUME Typed, NEW c, CopiesCounted(c), NEW k, Taking(k), ServerWaits,
         NEW d, \A i \in 0 .. Len(wire') : d[i] = c[i + k],
         UNCHANGED <<copyEnded, nextRow>>, result # "COPY_IN", result' # "COPY_IN"
  PROVE  CopiesCounted(d)'
<1>1. copyEnded' = copyEnded /\ nextRow' = 0 /\ (copyEnded' = TRUE => mode \in {"copying_in", "ready"})
  BY DEF CopiesCounted
<1>2. result' = "COPY_IN" => CopyingIn(d, 0)' /\ nextRow' < tables[script[at].table]
  OBVIOUS
<1>3. QED
  BY <1>1, <1>2, TookCopies

\* Nothing is taken that says how the query has ended, or the calls end.
LEMMA TookEnd ==
  ASSUME Typed, Ended, NEW k, Taking(k), ServerWaits, ending = "none",
         ending' = "none" => \A i \in 1 .. k : wire[i].kind # "FATAL_ERROR"
  PROVE  Ended'
<1>1. ASSUME NEW i \in 1 .. Len(wire'), wire'[i].kind = "READY"
      PROVE  i = Len(wire') /\ mode' = "ready"
  <2>1. i + k = Len(wire) /\ mode = "ready"
    BY <1>1, Left DEF Ended
  <2>2. Len(wire') = Len(wire) - k /\ k \in Nat /\ Len(wire) \in Nat /\ i \in Int /\ mode' = mode
    BY <1>1, Left DEF Taking, ServerWaits
  <2>3. QED
    BY <2>1, <2>2
<1>2. ASSUME ending' = "none", mode' = "ready", \A i \in 1 .. Len(wire') : wire'[i].kind # "FATAL_ERROR"
      PROVE  at' > Len(script')
  <2>1. ASSUME NEW i \in 1 .. Len(wire)
        PROVE  wire[i].kind # "FATAL_ERROR"
    <3>1. CASE i <= k
      BY <1>2, <3>1, Left
    <3>2. CASE i > k
      <4>1. i - k \in 1 .. Len(wire') /\ (i - k) + k = i
        BY <3>2, Left DEF Taking
      <4>2. QED
        BY <1>2, <4>1, Left
    <3>3. QED
      BY <3>1, <3>2, Left
  <2>2. QED
    BY <1>2, <2>1 DEF Ended, ServerWaits
<1>3. QED
  BY <1>1, <1>2 DEF Ended

-----------------------------------------------------------------------------
(***************************************************************************)
(* The steps of the client, one by one.                                    *)
(***************************************************************************)

\* The message that the client reads is the first on the wire.
LEMMA FirstMessage ==
  ASSUME Typed, NEW kind, Gets(kind), NEW c, NEW r, Flow(c, r)
  PROVE  /\ wire # <<>> /\ Len(wire) \in Nat /\ 1 \in 1 .. Len(wire) /\ wire[1].kind = kind
         /\ wire' = Tail(wire) => Taking(1)
         /\ ending = "none" /\ state = "QUERY_SENT" /\ result = "none"
         /\ c[0] = queryNo + 1 /\ r[0] = Len(table) + Len(data)
         /\ kind \in StepEnds => c[1] = queryNo + 2
         /\ kind \notin StepEnds => c[1] = queryNo + 1
         /\ kind # "ROW" => r[1] = Len(table) + Len(data)
<1>1. wire \in Seq(Messages) /\ wire # <<>> /\ Head(wire).kind = kind
      /\ ending = "none" /\ state = "QUERY_SENT" /\ result = "none" /\ queryNo \in Nat
      /\ table \in Seq(Nat) /\ data \in Seq(Nat)
  BY DEF Gets, Reads, Comes, Called, Typed
<1>2. Len(wire) \in Nat /\ Len(wire) # 0 /\ wire[1] = Head(wire)
  BY <1>1, EmptySeq, LenProperties
<1>3. 1 \in 1 .. Len(wire)
  BY <1>2
<1>4. wire' = Tail(wire) => Taking(1)
  <2>1. SUFFICES ASSUME wire' = Tail(wire) PROVE Taking(1)
    OBVIOUS
  <2>2. /\ wire' \in Seq(Messages) /\ Len(wire') = Len(wire) - 1
        /\ \A i \in 1 .. Len(wire') : wire'[i] = wire[i + 1]
    BY <1>1, <2>1, HeadTailProperties
  <2>3. QED
    BY <1>2, <2>2 DEF Taking
<1>5. Len(table) \in Nat /\ Len(data) \in Nat
  BY <1>1, LenProperties
<1>6. /\ Numbered(c, wire, StepEnds, queryNo + 1, at)
      /\ Numbered(r, wire, {"ROW"}, Len(table) + Len(data), produced)
  BY DEF Flow, StepsCounted, RowsCounted
<1>7. /\ c[0] = queryNo + 1 /\ r[0] = Len(table) + Len(data)
      /\ c[1] = c[0] + (IF wire[1].kind \in StepEnds THEN 1 ELSE 0)
      /\ r[1] = r[0] + (IF wire[1].kind \in {"ROW"} THEN 1 ELSE 0)
  <2>1. 1 - 1 = 0
    OBVIOUS
  <2>2. QED
    BY <1>3, <1>6, <2>1 DEF Numbered
<1>8. wire[1].kind = kind
  BY <1>1, <1>2
<1>9. /\ kind \in StepEnds => c[1] = queryNo + 2
      /\ kind \notin StepEnds => c[1] = queryNo + 1
      /\ kind # "ROW" => r[1] = Len(table) + Len(data)
  BY <1>1, <1>5, <1>7, <1>8
<1>10. QED
  BY <1>1, <1>2, <1>3, <1>4, <1>7, <1>8, <1>9

\* The query was sent: it is not "idle" any more.
LEMMA QuerySent ==
  ASSUME Typed, Linked, Scripted, state = "QUERY_SENT"
  PROVE  mode # "idle" /\ script = steps /\ Shaped(script, tables) /\ Len(script) \in Nat /\ queryNo \in Nat
         /\ tables \in Seq(Nat)
<1>1. mode # "idle"
  BY DEF Scripted
<1>2. QED
  BY <1>1, Served DEF Shaped, Typed

\* A step without rows is through.
LEMMA CommandFlows ==
  ASSUME Typed, Linked, Scripted, NEW c, NEW r, Flow(c, r), Command
  PROVE  \E d, s : Flow(d, s)'
<1>1. /\ Gets("COMMAND_OK") /\ queryNo' = queryNo + 1 /\ wire' = Tail(wire)
      /\ UNCHANGED <<link, script, at, mode, copyEnded, stored, produced, input, steps, state,
                     result, nextRow, data, columns, table, cancelRequest, ending>>
  BY DEF Command, StepsThrough
<1>2. /\ wire[1].kind = "COMMAND_OK" /\ 1 \in 1 .. Len(wire) /\ Taking(1) /\ ending = "none"
      /\ state = "QUERY_SENT" /\ result = "none"
      /\ c[0] = queryNo + 1 /\ c[1] = queryNo' + 1 /\ r[1] = Len(table') + Len(data')
  <2>1. queryNo + 2 = queryNo' + 1
    BY <1>1 DEF Typed
  <2>2. QED
    BY <1>1, <2>1, FirstMessage DEF StepEnds
<1>3. mode # "idle" /\ Len(script) \in Nat /\ queryNo \in Nat
  BY <1>2, QuerySent
<1>4. StepsCounted(c) /\ RowsCounted(r) /\ CopiesCounted(c) /\ Taken /\ Ended /\ ServerWaits
  BY <1>1 DEF Flow, ServerWaits
<1>5. PICK d, s : /\ Numbered(d, wire', StepEnds, queryNo' + 1, at)
                  /\ Numbered(s, wire', {"ROW"}, Len(table') + Len(data'), produced)
                  /\ \A i \in 0 .. Len(wire') : d[i] = c[i + 1] /\ s[i] = r[i + 1]
  <2>1. \E d, s : /\ Numbered(d, wire', StepEnds, c[1], at)
                  /\ Numbered(s, wire', {"ROW"}, r[1], produced)
                  /\ \A i \in 0 .. Len(wire') : d[i] = c[i + 1] /\ s[i] = r[i + 1]
    <3>1. Taking(1) /\ StepsCounted(c) /\ RowsCounted(r)
      BY <1>2, <1>4
    <3>2. QED
      BY <3>1, Took
  <2>2. QED
    BY <1>2, <2>1
<1>6. StepsCounted(d)'
  <2>1. queryNo + 1 # Len(script) - 1
    <3>1. c[1 - 1] # Len(script) - 1
      BY <1>2, <1>4 DEF StepsCounted
    <3>2. QED
      BY <1>2, <3>1
  <2>2. queryNo' + 1 >= Len(script) => columns'
    BY <1>1, <1>3, <1>4, <2>1 DEF StepsCounted
  <2>3. QED
    BY <1>1, <1>2, <1>4, <1>5, <2>2, TookSteps
<1>7. RowsCounted(s)'
  <2>1. /\ table' \o data' = UpTo(Len(table') + Len(data')) /\ data' = <<>>
        /\ queryNo' + 1 < Len(script) => table' = <<>>
    BY <1>1, <1>2, <1>3, <1>4 DEF RowsCounted
  <2>2. QED
    BY <1>2, <1>4, <1>5, <2>1, TookRows
<1>8. CopiesCounted(d)'
  <2>1. UNCHANGED <<copyEnded, nextRow>> /\ result # "COPY_IN" /\ result' # "COPY_IN" /\ Taking(1)
    BY <1>1, <1>2
  <2>2. CopiesCounted(c) /\ ServerWaits /\ \A i \in 0 .. Len(wire') : d[i] = c[i + 1]
    BY <1>4, <1>5
  <2>3. QED
    BY <2>1, <2>2, NoCopyTaken
<1>9. Taken'
  BY <1>1, <1>4 DEF Taken, Holds
<1>10. Ended'
  BY <1>2, <1>4, TookEnd
<1>11. QED
  BY <1>6, <1>7, <1>8, <1>9, <1>10 DEF Flow

\* The result table is created before any row of it has come.
LEMMA TuplesFlows ==
  ASSUME Typed, Linked, Scripted, NEW c, NEW r, Flow(c, r), Tuples
  PROVE  \E d, s : Flow(d, s)'
<1>1. /\ Gets("TUPLES_OK") /\ queryNo' = queryNo + 1 /\ wire' = Tail(wire) /\ table' = <<>> /\ columns' = TRUE
      /\ UNCHANGED <<link, script, at, mode, copyEnded, stored, produced, input, steps, state,
                     result, nextRow, data, cancelRequest, ending>>
  BY DEF Tuples, StepsThrough
<1>2. /\ wire[1].kind = "TUPLES_OK" /\ 1 \in 1 .. Len(wire) /\ Taking(1) /\ ending = "none"
      /\ state = "QUERY_SENT" /\ result = "none"
      /\ c[0] = queryNo + 1 /\ c[1] = queryNo' + 1 /\ r[1] = Len(table) + Len(data)
  <2>1. queryNo + 2 = queryNo' + 1
    BY <1>1 DEF Typed
  <2>2. QED
    BY <1>1, <2>1, FirstMessage DEF StepEnds
<1>3. mode # "idle" /\ Len(script) \in Nat /\ queryNo \in Nat
  BY <1>2, QuerySent
<1>4. StepsCounted(c) /\ RowsCounted(r) /\ CopiesCounted(c) /\ Taken /\ Ended /\ ServerWaits
  BY <1>1 DEF Flow, ServerWaits
<1>5. table' = table
  <2>1. c[1 - 1] = Len(script) - 1
    BY <1>2, <1>4 DEF StepsCounted
  <2>2. QED
    BY <1>1, <1>2, <1>3, <1>4, <2>1 DEF RowsCounted
<1>6. PICK d, s : /\ Numbered(d, wire', StepEnds, queryNo' + 1, at)
                  /\ Numbered(s, wire', {"ROW"}, Len(table') + Len(data'), produced)
                  /\ \A i \in 0 .. Len(wire') : d[i] = c[i + 1] /\ s[i] = r[i + 1]
  BY <1>1, <1>2, <1>4, <1>5, Took
<1>7. StepsCounted(d)'
  BY <1>1, <1>2, <1>4, <1>6, TookSteps
<1>8. RowsCounted(s)'
  <2>1. /\ table' \o data' = UpTo(Len(table') + Len(data')) /\ data' = <<>>
        /\ queryNo' + 1 < Len(script) => table' = <<>>
    BY <1>1, <1>2, <1>4, <1>5 DEF RowsCounted
  <2>2. QED
    BY <1>2, <1>4, <1>6, <2>1, TookRows
<1>9. CopiesCounted(d)'
  <2>1. UNCHANGED <<copyEnded, nextRow>> /\ result # "COPY_IN" /\ result' # "COPY_IN" /\ Taking(1)
    BY <1>1, <1>2
  <2>2. CopiesCounted(c) /\ ServerWaits /\ \A i \in 0 .. Len(wire') : d[i] = c[i + 1]
    BY <1>4, <1>6
  <2>3. QED
    BY <2>1, <2>2, NoCopyTaken
<1>10. Taken'
  BY <1>1, <1>4 DEF Taken, Holds
<1>11. Ended'
  BY <1>2, <1>4, TookEnd
<1>12. QED
  BY <1>7, <1>8, <1>9, <1>10, <1>11 DEF Flow

\* The server is ready: all rows are in the table, and it has its columns.
LEMMA DoneFlows ==
  ASSUME Typed, Linked, Scripted, NEW c, NEW r, Flow(c, r), Done
  PROVE  (\E d, s : Flow(d, s)') /\ ResultIsWhole'
<1>1. /\ Gets("READY") /\ wire' = Tail(wire) /\ ending' = "done"
      /\ UNCHANGED <<script, at, mode, copyEnded, stored, produced, input, steps, result,
                     queryNo, nextRow, data, columns, table, cancelRequest>>
  BY DEF Done
<1>2. /\ wire[1].kind = "READY" /\ 1 \in 1 .. Len(wire) /\ Taking(1) /\ ending = "none"
      /\ state = "QUERY_SENT" /\ result = "none"
      /\ c[1] = queryNo' + 1 /\ r[1] = Len(table') + Len(data')
  BY <1>1, FirstMessage DEF StepEnds
<1>3. mode # "idle" /\ Len(script) \in Nat /\ queryNo \in Nat
  BY <1>2, QuerySent
<1>4. StepsCounted(c) /\ RowsCounted(r) /\ CopiesCounted(c) /\ Taken /\ Ended /\ ServerWaits
  BY <1>1 DEF Flow, ServerWaits
<1>5. PICK d, s : /\ Numbered(d, wire', StepEnds, queryNo' + 1, at)
                  /\ Numbered(s, wire', {"ROW"}, Len(table') + Len(data'), produced)
                  /\ \A i \in 0 .. Len(wire') : d[i] = c[i + 1] /\ s[i] = r[i + 1]
  <2>1. \E d, s : /\ Numbered(d, wire', StepEnds, c[1], at)
                  /\ Numbered(s, wire', {"ROW"}, r[1], produced)
                  /\ \A i \in 0 .. Len(wire') : d[i] = c[i + 1] /\ s[i] = r[i + 1]
    <3>1. Taking(1) /\ StepsCounted(c) /\ RowsCounted(r)
      BY <1>2, <1>4
    <3>2. QED
      BY <3>1, Took
  <2>2. c[1] = queryNo' + 1 /\ r[1] = Len(table') + Len(data')
    BY <1>2
  <2>3. QED
    BY <2>1, <2>2
<1>6. StepsCounted(d)'
  <2>1. queryNo' + 1 >= Len(script) => columns'
    BY <1>1, <1>3, <1>4 DEF StepsCounted
  <2>2. QED
    BY <1>1, <1>2, <1>4, <1>5, <2>1, TookSteps
<1>7. RowsCounted(s)'
  <2>1. /\ table' \o data' = UpTo(Len(table') + Len(data')) /\ data' = <<>>
        /\ queryNo' + 1 < Len(script) => table' = <<>>
    BY <1>1, <1>2, <1>3, <1>4 DEF RowsCounted
  <2>2. QED
    BY <1>2, <1>4, <1>5, <2>1, TookRows
<1>8. CopiesCounted(d)'
  <2>1. UNCHANGED <<copyEnded, nextRow>> /\ result # "COPY_IN" /\ result' # "COPY_IN" /\ Taking(1)
    BY <1>1, <1>2
  <2>2. CopiesCounted(c) /\ ServerWaits /\ \A i \in 0 .. Len(wire') : d[i] = c[i + 1]
    BY <1>4, <1>5
  <2>3. QED
    BY <2>1, <2>2, NoCopyTaken
<1>9. Taken'
  BY <1>1, <1>4 DEF Taken, Holds
<1>10. Ended'
  BY <1>1, <1>2, <1>4, TookEnd
<1>11. Len(wire) = 1 /\ mode = "ready"
  BY <1>2, <1>4 DEF Ended
<1>12. columns
  <2>1. at > Len(script)
    <3>1. \A i \in 1 .. Len(wire) : wire[i].kind # "FATAL_ERROR"
      BY <1>2, <1>11
    <3>2. QED
      BY <1>2, <1>4, <1>11, <3>1 DEF Ended
  <2>2. c[Len(wire)] = at
    BY <1>4 DEF StepsCounted, Numbered
  <2>3. queryNo + 1 = at
    BY <1>1, <1>2, <1>11, <2>2
  <2>4. QED
    BY <1>3, <1>4, <2>1, <2>3 DEF StepsCounted
<1>13. table = UpTo(produced)
  <2>1. r[Len(wire)] = produced
    BY <1>4 DEF RowsCounted, Numbered
  <2>2. produced = Len(table) + Len(data)
    BY <1>1, <1>2, <1>11, <2>1
  <2>3. table \o data = UpTo(produced) /\ data = <<>> /\ table \in Seq(Nat)
    BY <1>2, <1>4, <2>2 DEF RowsCounted, Typed
  <2>4. QED
    BY <2>3, ConcatEmptySeq
<1>14. ResultIsWhole'
  BY <1>1, <1>12, <1>13 DEF ResultIsWhole, UpTo
<1>15. QED
  BY <1>6, <1>7, <1>8, <1>9, <1>10, <1>14 DEF Flow

\* The result that is handled was kept, with k = 0, or is the first message, with k = 1.
Handling(kind, k, c, r) ==
  /\ k \in 0 .. Len(wire) /\ Len(Unread) = Len(wire) - k
  /\ \A i \in 1 .. Len(Unread) : Unread[i] = wire[i + k]
  /\ c[k] = queryNo + 1 /\ r[k] = Len(table) + Len(data)
  /\ k = 0 => result = kind
  /\ k = 1 => result = "none" /\ 1 \in 1 .. Len(wire) /\ wire[1].kind = kind

\* There is such a k for every result that is handled.
LEMMA HandledAt ==
  ASSUME Typed, NEW kind \in {"COPY_IN", "COPY_OUT"}, Handles(kind), NEW c, NEW r, Flow(c, r)
  PROVE  /\ ending = "none" /\ state = "QUERY_SENT" /\ link = "up"
         /\ Unread \in Seq(Messages) /\ Len(wire) \in Nat
         /\ \E k \in {0, 1} : Handling(kind, k, c, r)
<1>1. ending = "none" /\ state = "QUERY_SENT" /\ link = "up" /\ wire \in Seq(Messages) /\ Len(wire) \in Nat
  BY LenProperties DEF Handles, Reads, Called, Typed
<1>2. CASE result = kind
  <2>1. Unread = wire
    BY <1>2 DEF Unread
  <2>2. c[0] = queryNo + 1 /\ r[0] = Len(table) + Len(data)
    BY DEF Flow, StepsCounted, RowsCounted, Numbered
  <2>3. 0 \in 0 .. Len(wire) /\ Len(wire) = Len(wire) - 0 /\ \A i \in 1 .. Len(wire) : i + 0 = i
    BY <1>1
  <2>4. Handling(kind, 0, c, r)
    BY <1>2, <2>1, <2>2, <2>3 DEF Handling
  <2>5. QED
    BY <1>1, <2>1, <2>4
<1>3. CASE result # kind
  <2>1. Gets(kind)
    BY <1>3 DEF Handles
  <2>2. /\ wire # <<>> /\ 1 \in 1 .. Len(wire) /\ wire[1].kind = kind /\ result = "none"
        /\ c[1] = queryNo + 1 /\ r[1] = Len(table) + Len(data)
    <3>1. kind \notin StepEnds /\ kind # "ROW"
      BY DEF StepEnds
    <3>2. QED
      BY <2>1, <3>1, FirstMessage
  <2>3. Unread = Tail(wire)
    BY <2>2 DEF Unread
  <2>4. /\ Unread \in Seq(Messages) /\ Len(Unread) = Len(wire) - 1
        /\ \A i \in 1 .. Len(Unread) : Unread[i] = wire[i + 1]
    BY <1>1, <2>2, <2>3, HeadTailProperties
  <2>5. 1 \in 0 .. Len(wire)
    BY <1>1, <2>2
  <2>6. Handling(kind, 1, c, r)
    BY <2>2, <2>4, <2>5 DEF Handling
  <2>7. QED
    BY <1>1, <2>4, <2>6
<1>4. QED
  BY <1>2, <1>3

\* Two runs of rows of a table, the second where the first ends, are one.
LEMMA RowsJoin ==
  ASSUME NEW t, NEW a \in Nat, NEW b \in Nat
  PROVE  Rows(t, 1, a) \o Rows(t, a + 1, b) = Rows(t, 1, a + b)
<1> DEFINE S == {t} \X Nat
           x == Rows(t, 1, a)
           y == Rows(t, a + 1, b)
           z == Rows(t, 1, a + b)
<1>1. x \in Seq(S) /\ Len(x) = a /\ \A i \in 1 .. a : x[i] = <<t, i>>
  BY DEF Rows
<1>2. y \in Seq(S) /\ Len(y) = b /\ \A i \in 1 .. b : y[i] = <<t, a + i>>
  BY DEF Rows
<1>3. z \in Seq(S) /\ Len(z) = a + b /\ \A i \in 1 .. a + b : z[i] = <<t, i>>
  BY DEF Rows
<1> HIDE DEF x, y, z, S
<1>4. /\ x \o y \in Seq(S) /\ Len(x \o y) = Len(x) + Len(y)
      /\ \A i \in 1 .. Len(x) + Len(y) : (x \o y)[i] = IF i <= Len(x) THEN x[i] ELSE y[i - Len(x)]
  BY <1>1, <1>2, ConcatProperties
<1>5. \A i \in 1 .. a + b : (x \o y)[i] = <<t, i>>
  <2>1. SUFFICES ASSUME NEW i \in 1 .. a + b PROVE (x \o y)[i] = <<t, i>>
    OBVIOUS
  <2>2. CASE i <= a
    BY <1>1, <1>2, <1>4, <2>2
  <2>3. CASE i > a
    <3>1. i - a \in 1 .. b /\ a + (i - a) = i
      BY <2>3
    <3>2. y[i - a] = <<t, a + (i - a)>>
      BY <1>2, <3>1
    <3>3. i \in 1 .. Len(x) + Len(y) /\ ~(i <= Len(x)) /\ i - Len(x) = i - a
      BY <1>1, <1>2, <2>3
    <3>4. (x \o y)[i] = y[i - a]
      BY <1>4, <3>3
    <3>5. QED
      BY <3>1, <3>2, <3>4
  <2>4. i <= a \/ i > a
    OBVIOUS
  <2>5. QED
    BY <2>2, <2>3, <2>4, Zenon
<1>6. x \o y = z
  BY <1>1, <1>2, <1>3, <1>4, <1>5, SeqEqual
<1>7. QED
  BY <1>6 DEF x, y, z

\* What the client copies is the table of the step that the server is at.
LEMMA CopyAt ==
  ASSUME Typed, Linked, Scripted, NEW c, NEW r, Flow(c, r), Handles("COPY_IN")
  PROVE  /\ at = queryNo + 1 /\ at \in 1 .. Len(script) /\ script[at].action = "COPY_IN"
         /\ copyEnded = FALSE /\ mode \in {"copying_in", "ready"} /\ steps = script
         /\ pushed = script[at].table /\ pushed \in DOMAIN tables /\ tables[pushed] \in Nat
         /\ nextRow \in Nat /\ RowsRead \in Nat /\ nextRow + RowsRead <= tables[pushed]
         /\ result \in {"COPY_IN", "none"} /\ ending = "none" /\ mode # "idle"
         /\ \E k \in {0, 1} :
              /\ k \in 0 .. Len(wire) /\ CopyingIn(c, k)
              /\ c[k] = queryNo + 1 /\ r[k] = Len(table) + Len(data)
              /\ wire' = Unread => Taking(k)
              /\ \A i \in 1 .. k : wire[i].kind = "COPY_IN"
<1>1. PICK k \in {0, 1} : Handling("COPY_IN", k, c, r)
  BY HandledAt
<1>2. /\ k \in 0 .. Len(wire) /\ Len(Unread) = Len(wire) - k
      /\ \A i \in 1 .. Len(Unread) : Unread[i] = wire[i + k]
      /\ c[k] = queryNo + 1 /\ r[k] = Len(table) + Len(data)
      /\ k = 0 => result = "COPY_IN"
      /\ k = 1 => result = "none" /\ 1 \in 1 .. Len(wire) /\ wire[1].kind = "COPY_IN"
  BY <1>1 DEF Handling
<1>3. state = "QUERY_SENT" /\ Unread \in Seq(Messages) /\ Len(wire) \in Nat
  BY HandledAt
<1>4. CopiesCounted(c) /\ nextRow \in Nat /\ queryNo \in Nat
  BY DEF Flow, Typed
<1>5. CopyingIn(c, k)
  <2>1. CASE k = 0
    BY <1>2, <1>4, <2>1 DEF CopiesCounted
  <2>2. CASE k = 1
    BY <1>2, <1>4, <2>2 DEF CopiesCounted
  <2>3. QED
    BY <2>1, <2>2
<1>6. /\ at = queryNo + 1 /\ at <= Len(script) /\ script[at].action = "COPY_IN"
      /\ copyEnded = FALSE /\ mode \in {"copying_in", "ready"}
  BY <1>2, <1>5 DEF CopyingIn
<1>7. /\ mode # "idle" /\ script = steps /\ Shaped(script, tables) /\ Len(script) \in Nat
      /\ tables \in Seq(Nat)
  BY <1>3, QuerySent
<1>8. at \in 1 .. Len(script) /\ pushed = script[at].table
  BY <1>4, <1>6, <1>7 DEF pushed
<1>9. pushed \in DOMAIN tables /\ tables[pushed] \in Nat
  <2>1. pushed \in DOMAIN tables
    BY <1>6, <1>7, <1>8 DEF Shaped
  <2>2. QED
    BY <1>7, <2>1, LenProperties, ElementOfSeq
<1>10. nextRow <= tables[pushed]
  <2>1. CASE k = 0
    BY <1>2, <1>4, <1>8, <1>9, <2>1 DEF CopiesCounted
  <2>2. CASE k = 1
    <3>1. nextRow = 0
      BY <1>2, <1>4, <2>2 DEF CopiesCounted
    <3>2. QED
      BY <1>9, <3>1
  <2>3. QED
    BY <2>1, <2>2
<1>11. RowsRead \in Nat /\ nextRow + RowsRead <= tables[pushed]
  <2>1. Chunk \in Nat
    BY ExecutorAssumption
  <2>2. QED
    BY <1>4, <1>9, <1>10, <2>1 DEF RowsRead
<1>12. wire' = Unread => Taking(k)
  BY <1>2, <1>3 DEF Taking
<1>13. \A i \in 1 .. k : wire[i].kind = "COPY_IN"
  BY <1>2
<1>14. result \in {"COPY_IN", "none"} /\ ending = "none"
  BY <1>2, HandledAt
<1>15. QED
  BY <1>2, <1>4, <1>5, <1>6, <1>7, <1>8, <1>9, <1>11, <1>12, <1>13, <1>14

\* The server takes in the chunk behind the rows that it has of this table.
LEMMA PutChunk ==
  ASSUME Typed, Linked, Scripted, NEW c, NEW r, Flow(c, r), Handles("COPY_IN"), Put
  PROVE  /\ DOMAIN stored' = DOMAIN tables
         /\ mode = "copying_in" => stored'[pushed] = Rows(pushed, 1, nextRow + RowsRead)
         /\ \A i \in 1 .. Len(script) :
              script[i].action = "COPY_IN" /\ i # at => stored'[script[i].table] = stored[script[i].table]
         /\ mode # "copying_in" => stored' = stored
<1>1. /\ at \in 1 .. Len(script) /\ script[at].action = "COPY_IN" /\ copyEnded = FALSE
      /\ pushed = script[at].table /\ pushed \in DOMAIN tables /\ steps = script
      /\ nextRow \in Nat /\ RowsRead \in Nat /\ mode \in {"copying_in", "ready"}
  BY CopyAt
<1>2. Taken /\ Shaped(script, tables)
  BY <1>1, Served DEF Flow
<1>3. DOMAIN stored = DOMAIN tables
  BY <1>1, <1>2 DEF Taken
<1>4. CASE mode # "copying_in"
  BY <1>3, <1>4 DEF Put
<1>5. CASE mode = "copying_in"
  <2>1. stored' = [stored EXCEPT ![pushed] = @ \o Rows(pushed, nextRow + 1, RowsRead)]
    BY <1>1, <1>5 DEF Put
  <2>2. stored[pushed] = Rows(pushed, 1, nextRow)
    BY <1>1, <1>2, <1>5 DEF Taken, Holds
  <2>3. stored'[pushed] = Rows(pushed, 1, nextRow) \o Rows(pushed, nextRow + 1, RowsRead)
    BY <1>1, <1>3, <2>1, <2>2
  <2>4. stored'[pushed] = Rows(pushed, 1, nextRow + RowsRead)
    BY <1>1, <2>3, RowsJoin
  <2>5. ASSUME NEW i \in 1 .. Len(script), script[i].action = "COPY_IN", i # at
        PROVE  stored'[script[i].table] = stored[script[i].table]
    <3>1. script[i].table # pushed /\ script[i].table \in DOMAIN tables
      BY <1>1, <1>2, <2>5 DEF Shaped
    <3>2. QED
      BY <1>3, <2>1, <3>1
  <2>6. DOMAIN stored' = DOMAIN tables
    BY <1>3, <2>1
  <2>7. QED
    BY <1>5, <2>4, <2>5, <2>6
<1>6. QED
  BY <1>4, <1>5

\* A chunk is sent: there are more, or it is the last.
CopyGoesOn ==
  /\ result' = "COPY_IN" /\ copyEnded' = copyEnded
  /\ nextRow' = nextRow + RowsRead /\ nextRow + RowsRead < tables[pushed]
CopyIsThrough ==
  /\ result' = "none" /\ copyEnded' = CopyEnd
  /\ nextRow' = 0 /\ nextRow + RowsRead >= tables[pushed]
CopyKeeps ==
  UNCHANGED <<link, script, at, mode, produced, input, steps, state, queryNo, data, columns, table,
              cancelRequest, ending>>

\* Either way the invariant goes on.
LEMMA CopyFlows ==
  ASSUME Typed, Linked, Scripted, NEW c, NEW r, Flow(c, r), Handles("COPY_IN"), Put, wire' = Unread,
         CopyKeeps, CopyGoesOn \/ CopyIsThrough
  PROVE  \E d, s : Flow(d, s)'
<1>1. /\ at = queryNo + 1 /\ at \in 1 .. Len(script) /\ script[at].action = "COPY_IN"
      /\ copyEnded = FALSE /\ mode \in {"copying_in", "ready"} /\ steps = script
      /\ pushed = script[at].table /\ pushed \in DOMAIN tables /\ tables[pushed] \in Nat
      /\ nextRow \in Nat /\ RowsRead \in Nat /\ nextRow + RowsRead <= tables[pushed]
      /\ result \in {"COPY_IN", "none"} /\ ending = "none" /\ mode # "idle"
  BY CopyAt
<1>2. PICK k \in {0, 1} :
              /\ k \in 0 .. Len(wire) /\ CopyingIn(c, k)
              /\ c[k] = queryNo + 1 /\ r[k] = Len(table) + Len(data)
              /\ wire' = Unread => Taking(k)
              /\ \A i \in 1 .. k : wire[i].kind = "COPY_IN"
  BY CopyAt
<1>3. StepsCounted(c) /\ RowsCounted(r) /\ CopiesCounted(c) /\ Taken /\ Ended /\ ServerWaits /\ Taking(k)
  BY <1>2 DEF Flow, ServerWaits, CopyKeeps
<1>4. PICK d, s : /\ Numbered(d, wire', StepEnds, c[k], at)
                  /\ Numbered(s, wire', {"ROW"}, r[k], produced)
                  /\ \A i \in 0 .. Len(wire') : d[i] = c[i + k] /\ s[i] = r[i + k]
  BY <1>3, Took
<1>5. /\ Numbered(d, wire', StepEnds, queryNo' + 1, at)
      /\ Numbered(s, wire', {"ROW"}, Len(table') + Len(data'), produced)
  BY <1>2, <1>4 DEF CopyKeeps
<1>6. StepsCounted(d)'
  <2>1. result' # "COPY_OUT" /\ (mode # "idle" /\ queryNo' + 1 >= Len(script) => columns')
    BY <1>3 DEF StepsCounted, CopyKeeps, CopyGoesOn, CopyIsThrough
  <2>2. QED
    BY <1>3, <1>4, <1>5, <2>1, TookSteps
<1>7. RowsCounted(s)'
  <2>1. /\ table' \o data' = UpTo(Len(table') + Len(data')) /\ data' = <<>>
        /\ mode # "idle" /\ queryNo' + 1 < Len(script) => table' = <<>>
    BY <1>1, <1>3 DEF RowsCounted, CopyKeeps
  <2>2. QED
    BY <1>3, <1>4, <1>5, <2>1, TookRows
<1>8. mode = "copying_in" => Len(wire') = 0
  <2>1. Len(wire') = Len(wire) - k /\ Len(wire) \in Nat
    BY <1>3, Left DEF Taking
  <2>2. QED
    BY <1>2, <2>1 DEF CopyingIn
<1>9. d[0] = at
  <2>1. 0 \in 0 .. Len(wire') /\ 0 + k = k
    BY <1>3, Left
  <2>2. QED
    BY <1>1, <1>2, <1>4, <2>1
<1>10. CopiesCounted(d)'
  <2>1. copyEnded' = copyEnded \/ copyEnded' = FALSE \/ Len(wire') = 0
    BY <1>8 DEF CopyGoesOn, CopyIsThrough, CopyEnd
  <2>2. copyEnded' = TRUE => mode \in {"copying_in", "ready"}
    BY <1>1
  <2>3. result' = "COPY_IN" => CopyingIn(d, 0)' /\ nextRow' < tables[script[at].table]
    <3>1. SUFFICES ASSUME CopyGoesOn PROVE CopyingIn(d, 0)' /\ nextRow' < tables[script[at].table]
      BY DEF CopyIsThrough
    <3>2. CopyingIn(d, 0)'
      BY <1>1, <1>8, <1>9, <3>1 DEF CopyingIn, CopyGoesOn, CopyKeeps
    <3>3. QED
      BY <1>1, <3>1, <3>2 DEF CopyGoesOn
  <2>4. result' # "COPY_IN" => nextRow' = 0
    BY DEF CopyGoesOn, CopyIsThrough
  <2>5. \A i \in 0 .. Len(wire') : d[i] = c[i + k]
    BY <1>4
  <2>6. QED
    BY <1>3, <2>1, <2>2, <2>3, <2>4, <2>5, TookCopies
<1>11. Taken'
  <2>1. /\ DOMAIN stored' = DOMAIN tables
        /\ mode = "copying_in" => stored'[pushed] = Rows(pushed, 1, nextRow + RowsRead)
        /\ \A i \in 1 .. Len(script) :
             script[i].action = "COPY_IN" /\ i # at => stored'[script[i].table] = stored[script[i].table]
        /\ mode # "copying_in" => stored' = stored
    BY PutChunk
  <2>2. script' = script /\ at' = at /\ mode' = mode /\ tables' = tables
    BY DEF CopyKeeps
  <2>3. ASSUME NEW i \in 1 .. Len(script), script[i].action = "COPY_IN", i # at
        PROVE  /\ i < at \/ (i = at /\ copyEnded') => stored'[script[i].table] = Rows(script[i].table, 1, tables[script[i].table])
               /\ i > at \/ (i = at /\ mode = "running") => stored'[script[i].table] = <<>>
    BY <1>3, <2>1, <2>3 DEF Taken, Holds
  <2>4. copyEnded' => stored'[script[at].table] = Rows(script[at].table, 1, tables[script[at].table])
    <3>1. SUFFICES ASSUME copyEnded' PROVE stored'[pushed] = Rows(pushed, 1, tables[pushed])
      BY <1>1
    <3>2. CopyIsThrough
      BY <1>1, <3>1, Zenon DEF CopyGoesOn
    <3>3. mode = "copying_in"
      BY <3>1, <3>2, Zenon DEF CopyIsThrough, CopyEnd
    <3>4. nextRow + RowsRead = tables[pushed]
      BY <1>1, <3>2 DEF CopyIsThrough
    <3>5. QED
      BY <2>1, <3>3, <3>4
  <2>5. mode = "copying_in" /\ ~copyEnded' => stored'[script[at].table] = Rows(script[at].table, 1, nextRow')
    BY <1>1, <2>1 DEF CopyGoesOn, CopyIsThrough, CopyEnd
  <2>6. QED
    BY <1>1, <2>1, <2>2, <2>3, <2>4, <2>5 DEF Taken, Holds
<1>12. Ended'
  <2>1. \A i \in 1 .. k : wire[i].kind # "FATAL_ERROR"
    BY <1>2
  <2>2. QED
    BY <1>1, <1>3, <2>1, TookEnd
<1>13. QED
  BY <1>6, <1>7, <1>10, <1>11, <1>12 DEF Flow

\* There are more rows to send.
LEMMA CopyChunkFlows ==
  ASSUME Typed, Linked, Scripted, NEW c, NEW r, Flow(c, r), CopyChunk
  PROVE  \E d, s : Flow(d, s)'
BY CopyFlows DEF CopyChunk, CopyGoesOn, CopyKeeps

\* The last rows are sent, and the end of the copying.
LEMMA CopyLastChunkFlows ==
  ASSUME Typed, Linked, Scripted, NEW c, NEW r, Flow(c, r), CopyLastChunk
  PROVE  \E d, s : Flow(d, s)'
BY CopyFlows DEF CopyLastChunk, CopyIsThrough, CopyKeeps, RowAfterCopy

-----------------------------------------------------------------------------
(***************************************************************************)
(* COPY OUT: the rows that have come.                                      *)
(***************************************************************************)

\* A bounded set of numbers has a greatest one.
LEMMA GreatestOf ==
  ASSUME NEW L \in Nat, NEW S \in SUBSET (0 .. L), S # {}
  PROVE  Max(S) \in S /\ \A y \in S : Max(S) >= y
<1> DEFINE T == {m \in 0 .. L : L - m \in S}
<1>1. T \subseteq Nat /\ T # {}
  <2>1. PICK n \in S : TRUE
    OBVIOUS
  <2>2. L - n \in 0 .. L /\ L - (L - n) = n
    OBVIOUS
  <2>3. L - n \in T
    BY <2>2
  <2>4. T \subseteq Nat
    OBVIOUS
  <2> HIDE DEF T
  <2>5. QED
    BY <2>3, <2>4
<1>2. PICK m \in T : \A y \in T : ~(y < m)
  BY <1>1, LeastOf
<1>3. L - m \in S
  OBVIOUS
<1>4. ASSUME NEW y \in S PROVE L - m >= y
  <2>1. y \in 0 .. L /\ L - y \in 0 .. L /\ L - (L - y) = y
    OBVIOUS
  <2>2. L - y \in T
    BY <2>1
  <2>3. ~(L - y < m)
    BY <1>2, <2>2
  <2>4. QED
    BY <2>1, <2>3
<1>5. QED
  BY <1>3, <1>4 DEF Max

\* The rows at the front of what is not read.
LEMMA PrefixAt ==
  ASSUME Unread \in Seq(Messages)
  PROVE  Prefix \in 0 .. Len(Unread) /\ \A i \in 1 .. Prefix : Unread[i].kind = "ROW"
<1> DEFINE S == {n \in 0 .. Len(Unread) : \A i \in 1 .. n : Unread[i].kind = "ROW"}
<1>1. Len(Unread) \in Nat
  BY LenProperties
<1>2. 0 \in S
  BY <1>1
<1>3. S \in SUBSET (0 .. Len(Unread)) /\ S # {}
  BY <1>2
<1>4. Max(S) \in S
  <2> HIDE DEF S
  <2>1. QED
    BY <1>1, <1>3, GreatestOf
<1>5. Prefix = Max(S)
  BY DEF Prefix
<1>6. QED
  BY <1>4, <1>5

\* What is numbered on from a is in order.
LEMMA NumbersJoin ==
  ASSUME NEW a \in Nat, NEW b \in Nat, NEW s \in Seq(Nat), Len(s) = b, \A i \in 1 .. b : s[i] = a + i
  PROVE  UpTo(a) \o s = UpTo(a + b)
<1> DEFINE x == UpTo(a)
           z == UpTo(a + b)
<1>1. x \in Seq(Nat) /\ Len(x) = a /\ \A i \in 1 .. a : x[i] = i
  BY DEF UpTo
<1>2. z \in Seq(Nat) /\ Len(z) = a + b /\ \A i \in 1 .. a + b : z[i] = i
  BY DEF UpTo
<1> HIDE DEF x, z
<1>3. /\ x \o s \in Seq(Nat) /\ Len(x \o s) = Len(x) + Len(s)
      /\ \A i \in 1 .. Len(x) + Len(s) : (x \o s)[i] = IF i <= Len(x) THEN x[i] ELSE s[i - Len(x)]
  BY <1>1, ConcatProperties
<1>4. ASSUME NEW i \in 1 .. a + b PROVE (x \o s)[i] = i
  <2>1. CASE i <= a
    BY <1>1, <1>3, <2>1
  <2>2. CASE i > a
    <3>1. i - a \in 1 .. b /\ a + (i - a) = i
      BY <2>2
    <3>2. s[i - a] = i
      BY <3>1
    <3>3. QED
      BY <1>1, <1>3, <2>2, <3>2
  <2>3. i <= a \/ i > a
    OBVIOUS
  <2>4. QED
    BY <2>1, <2>2, <2>3, Zenon
<1>5. x \o s = z
  BY <1>1, <1>2, <1>3, <1>4, SeqEqual
<1>6. QED
  BY <1>5 DEF x, z

\* The first q messages are read, the rows among them collected.
OutTaken(q, c, r) ==
  /\ q \in 0 .. Len(wire) /\ c[q] = queryNo + 1 /\ r[q] = Len(table) + Len(Collected)
  /\ \A i \in 1 .. q : wire[i].kind \in {"COPY_OUT", "ROW"}
  /\ Rest \in Seq(Messages) /\ Len(Rest) = Len(wire) - q
  /\ \A i \in 1 .. Len(Rest) : Rest[i] = wire[i + q]

\* So it is with every call that reads rows, and the rows are in order.
LEMMA OutAt ==
  ASSUME Typed, Linked, Scripted, NEW c, NEW r, Flow(c, r), Handles("COPY_OUT")
  PROVE  /\ ending = "none" /\ mode # "idle" /\ result \in {"COPY_OUT", "none"}
         /\ queryNo + 1 = Len(script) /\ Collected \in Seq(Nat)
         /\ table \o Collected = UpTo(Len(table) + Len(Collected))
         /\ \E q : OutTaken(q, c, r)
<1>1. PICK k \in {0, 1} : Handling("COPY_OUT", k, c, r)
  BY HandledAt
<1>2. /\ k \in 0 .. Len(wire) /\ Len(Unread) = Len(wire) - k
      /\ \A i \in 1 .. Len(Unread) : Unread[i] = wire[i + k]
      /\ c[k] = queryNo + 1 /\ r[k] = Len(table) + Len(data)
      /\ k = 0 => result = "COPY_OUT"
      /\ k = 1 => result = "none" /\ 1 \in 1 .. Len(wire) /\ wire[1].kind = "COPY_OUT"
  BY <1>1 DEF Handling
<1>3. ending = "none" /\ state = "QUERY_SENT" /\ Unread \in Seq(Messages) /\ Len(wire) \in Nat
  BY HandledAt
<1>4. mode # "idle" /\ Len(script) \in Nat
  BY <1>3, QuerySent
<1>5. StepsCounted(c) /\ RowsCounted(r)
  BY DEF Flow
<1>6. /\ Numbered(c, wire, StepEnds, queryNo + 1, at)
      /\ Numbered(r, wire, {"ROW"}, Len(table) + Len(data), produced)
      /\ wire \in Seq(Messages) /\ queryNo \in Nat /\ data \in Seq(Nat) /\ table \in Seq(Nat)
      /\ Len(data) \in Nat /\ Len(table) \in Nat
  BY <1>5, LenProperties DEF StepsCounted, RowsCounted, Typed
<1>7. queryNo + 1 = Len(script)
  <2>1. CASE k = 0
    BY <1>2, <1>5, <2>1 DEF StepsCounted
  <2>2. CASE k = 1
    <3>1. c[1 - 1] = Len(script)
      BY <1>2, <1>5, <2>2 DEF StepsCounted
    <3>2. c[0] = queryNo + 1
      BY <1>6 DEF Numbered
    <3>3. QED
      BY <3>1, <3>2
  <2>3. QED
    BY <2>1, <2>2
<1>8. PICK u : u = Unread
  OBVIOUS
<1>9. PICK n : n = Prefix
  OBVIOUS
<1>10. /\ u \in Seq(Messages) /\ Len(u) = Len(wire) - k /\ \A i \in 1 .. Len(u) : u[i] = wire[i + k]
       /\ n \in 0 .. Len(u) /\ \A i \in 1 .. n : u[i].kind = "ROW"
  BY <1>2, <1>3, <1>8, <1>9, PrefixAt
<1>11. /\ Numbered(c, wire, StepEnds, queryNo + 1, at)
       /\ Numbered(r, wire, {"ROW"}, Len(table) + Len(data), produced)
       /\ wire \in Seq(Messages)
  BY <1>6
<1>12. k \in 0 .. Len(wire) /\ u \in Seq(Messages) /\ Len(u) = Len(wire) - k /\ \A i \in 1 .. Len(u) : u[i] = wire[i + k]
  BY <1>2, <1>10
<1>13. c[k + n] = queryNo + 1
  <2>1. \E d : Numbered(d, u, StepEnds, c[k], at) /\ \A i \in 0 .. Len(u) : d[i] = c[i + k]
    BY <1>11, <1>12, NumberedRead
  <2>2. PICK d : Numbered(d, u, StepEnds, c[k], at) /\ \A i \in 0 .. Len(u) : d[i] = c[i + k]
    BY <2>1
  <2>3. d[n] = c[k]
    <3>1. \A i \in 1 .. n : u[i].kind \notin StepEnds
      BY <1>10 DEF StepEnds
    <3>2. QED
      BY <1>10, <2>2, <3>1, NumberedNone
  <2>4. d[n] = c[n + k] /\ n + k = k + n
    BY <1>10, <2>2
  <2>5. QED
    BY <1>2, <2>3, <2>4
<1> DEFINE L == Len(table) + Len(data)
<1>14. \A i \in 0 .. n : r[i + k] = L + i
  <2>1. PICK rows, base, last : rows = {"ROW"} /\ base = L /\ last = produced
    OBVIOUS
  <2>2. \E e : Numbered(e, u, rows, r[k], last) /\ \A i \in 0 .. Len(u) : e[i] = r[i + k]
    <3>1. Numbered(r, wire, rows, base, last) /\ wire \in Seq(Messages)
      BY <1>11, <2>1
    <3> HIDE DEF L
    <3>2. QED
      BY <1>12, <3>1, NumberedRead
  <2>3. PICK e : Numbered(e, u, rows, r[k], last) /\ \A i \in 0 .. Len(u) : e[i] = r[i + k]
    BY <2>2
  <2>4. r[k] = base /\ base \in Nat
    BY <1>2, <1>6, <2>1
  <2>5. Follows(e, base, n)
    <3>1. Numbered(e, u, rows, base, last) /\ u \in Seq(Messages) /\ n \in 0 .. Len(u)
      BY <1>10, <2>3, <2>4
    <3>2. \A i \in 1 .. n : u[i].kind \in rows
      BY <1>10, <2>1
    <3> HIDE DEF L
    <3>3. QED
      BY <2>4, <3>1, <3>2, NumberedAll
  <2>6. \A i \in 0 .. n : i \in 0 .. Len(u)
    BY <1>10, LenProperties
  <2>7. QED
    BY <2>1, <2>3, <2>5, <2>6 DEF Follows
<1>15. n \in Nat /\ L \in Nat /\ \A i \in 1 .. n : u[i].row = L + i
  <2>1. n \in Nat /\ L \in Nat
    BY <1>6, <1>10
  <2>2. ASSUME NEW i \in 1 .. n PROVE u[i].row = L + i
    <3>1. i \in 1 .. Len(u) /\ i + k \in 1 .. Len(wire) /\ i \in 0 .. n
      BY <1>2, <1>3, <1>10, LenProperties
    <3>2. wire[i + k].kind = "ROW"
      BY <1>10, <3>1
    <3>3. wire[i + k].row = r[i + k]
      BY <1>5, <3>1, <3>2 DEF RowsCounted
    <3>4. QED
      BY <1>10, <1>14, <3>1, <3>3
  <2>3. QED
    BY <2>1, <2>2
<1> HIDE DEF L
<1>16. PICK came : came = Came
  OBVIOUS
<1>17. came \in Seq(Nat) /\ Len(came) = n /\ \A i \in 1 .. n : came[i] = L + i
  <2>1. came = [i \in 1 .. n |-> u[i].row]
    BY <1>8, <1>9, <1>16 DEF Came
  <2>2. QED
    BY <1>15, <2>1
<1>18. Collected = data \o came
  BY <1>16 DEF Collected
<1>19. Collected \in Seq(Nat) /\ Len(Collected) = Len(data) + n
  BY <1>6, <1>17, <1>18, ConcatProperties
<1>20. Len(table) + Len(Collected) = L + n
  BY <1>6, <1>15, <1>19 DEF L
<1>21. table \o Collected = UpTo(L + n)
  <2>1. table \o Collected = (table \o data) \o came
    <3>1. table \in Seq(Nat) /\ data \in Seq(Nat) /\ came \in Seq(Nat)
      BY <1>6, <1>17
    <3>2. (table \o data) \o came = table \o (data \o came)
      BY <3>1, ConcatAssociative
    <3>3. QED
      BY <1>18, <3>2
  <2>2. table \o data = UpTo(L)
    BY <1>5 DEF RowsCounted, L
  <2>3. UpTo(L) \o came = UpTo(L + n)
    BY <1>15, <1>17, NumbersJoin
  <2>4. QED
    BY <2>1, <2>2, <2>3
<1>22. PICK rest : rest = Rest
  OBVIOUS
<1>23. rest \in Seq(Messages) /\ Len(rest) = Len(u) - n /\ \A i \in 1 .. Len(rest) : rest[i] = u[i + n]
  <2>1. rest = SubSeq(u, n + 1, Len(u)) /\ Len(u) \in Nat
    BY <1>8, <1>9, <1>10, <1>22, LenProperties DEF Rest
  <2>2. \A i \in n + 1 .. Len(u) : u[i] \in Messages
    BY <1>10, <1>15, <2>1, ElementOfSeq
  <2>3. /\ rest \in Seq(Messages)
        /\ Len(rest) = IF n + 1 <= Len(u) THEN Len(u) - (n + 1) + 1 ELSE 0
        /\ \A i \in 1 .. Len(u) - (n + 1) + 1 : rest[i] = u[(n + 1) + i - 1]
    BY <1>15, <2>1, <2>2, SubSeqProperties
  <2>4. Len(rest) = Len(u) - n /\ Len(rest) = Len(u) - (n + 1) + 1
    BY <1>10, <1>15, <2>1, <2>3
  <2>5. \A i \in 1 .. Len(rest) : (n + 1) + i - 1 = i + n
    BY <1>15
  <2>6. QED
    BY <2>3, <2>4, <2>5
<1>24. OutTaken(k + n, c, r)
  <2>1. k + n \in 0 .. Len(wire) /\ Len(rest) = Len(wire) - (k + n)
    BY <1>2, <1>3, <1>10, <1>23
  <2>2. ASSUME NEW i \in 1 .. Len(rest) PROVE rest[i] = wire[i + (k + n)]
    <3>1. i + n \in 1 .. Len(u) /\ (i + n) + k = i + (k + n)
      BY <1>3, <1>10, <1>15, <1>23, LenProperties
    <3>2. u[i + n] = wire[(i + n) + k]
      BY <1>10, <3>1
    <3>3. QED
      BY <1>23, <3>1, <3>2
  <2>3. ASSUME NEW i \in 1 .. k + n PROVE wire[i].kind \in {"COPY_OUT", "ROW"}
    <3>1. CASE i <= k
      BY <1>2, <3>1
    <3>2. CASE i > k
      <4>1. i - k \in 1 .. n /\ i - k \in 1 .. Len(u) /\ (i - k) + k = i
        BY <1>3, <1>10, <1>15, <3>2, LenProperties
      <4>2. QED
        BY <1>10, <4>1
    <3>3. QED
      BY <3>1, <3>2
  <2>4. r[k + n] = Len(table) + Len(Collected)
    <3>1. n \in 0 .. n /\ n + k = k + n
      BY <1>15
    <3>2. QED
      BY <1>14, <1>20, <3>1
  <2>5. QED
    BY <1>13, <1>22, <1>23, <2>1, <2>2, <2>3, <2>4 DEF OutTaken
<1>25. result \in {"COPY_OUT", "none"}
  BY <1>2
<1>26. QED
  BY <1>3, <1>4, <1>7, <1>19, <1>20, <1>21, <1>24, <1>25

\* The first q messages are taken, and the table and the rows kept go on with their rows.
OutGoes(q, c, r) ==
  /\ Taking(q) /\ c[q] = queryNo + 1 /\ r[q] = Len(table') + Len(data')
  /\ \A i \in 1 .. q : wire[i].kind # "FATAL_ERROR"
  /\ table' \o data' = UpTo(Len(table') + Len(data'))
  /\ result' = "COPY_OUT" \/ (result' = "none" /\ data' = <<>>)
OutKeeps ==
  UNCHANGED <<link, script, at, mode, copyEnded, stored, produced, input, steps, state, queryNo,
              nextRow, columns, cancelRequest, ending>>

\* The invariant goes on.
LEMMA OutFlows ==
  ASSUME Typed, Linked, Scripted, NEW c, NEW r, Flow(c, r), Handles("COPY_OUT"), OutKeeps,
         NEW q, OutGoes(q, c, r)
  PROVE  \E d, s : Flow(d, s)'
<1>1. /\ ending = "none" /\ mode # "idle" /\ result \in {"COPY_OUT", "none"}
      /\ queryNo + 1 = Len(script)
  BY OutAt
<1>2. /\ StepsCounted(c) /\ RowsCounted(r) /\ CopiesCounted(c) /\ Taken /\ Ended /\ ServerWaits
      /\ Taking(q) /\ c[q] = queryNo + 1 /\ r[q] = Len(table') + Len(data')
  BY DEF Flow, ServerWaits, OutKeeps, OutGoes
<1>3. PICK d, s : /\ Numbered(d, wire', StepEnds, c[q], at)
                  /\ Numbered(s, wire', {"ROW"}, r[q], produced)
                  /\ \A i \in 0 .. Len(wire') : d[i] = c[i + q] /\ s[i] = r[i + q]
  BY <1>2, Took
<1>4. /\ Numbered(d, wire', StepEnds, queryNo' + 1, at)
      /\ Numbered(s, wire', {"ROW"}, Len(table') + Len(data'), produced)
  BY <1>2, <1>3 DEF OutKeeps
<1>5. StepsCounted(d)'
  <2>1. /\ result' = "COPY_OUT" => queryNo' + 1 = Len(script)
        /\ mode # "idle" /\ queryNo' + 1 >= Len(script) => columns'
    BY <1>1, <1>2 DEF StepsCounted, OutKeeps
  <2>2. QED
    BY <1>2, <1>3, <1>4, <2>1, TookSteps
<1>6. RowsCounted(s)'
  <2>1. queryNo' + 1 = Len(script) /\ Len(script) \in Nat
    BY <1>1, Served DEF OutKeeps, Shaped
  <2>2. /\ table' \o data' = UpTo(Len(table') + Len(data'))
        /\ result' # "COPY_OUT" => data' = <<>>
        /\ mode # "idle" /\ queryNo' + 1 < Len(script) => table' = <<>>
    BY <2>1 DEF OutGoes
  <2>3. QED
    BY <1>2, <1>3, <1>4, <2>2, TookRows
<1>7. CopiesCounted(d)'
  <2>1. UNCHANGED <<copyEnded, nextRow>> /\ result # "COPY_IN" /\ result' # "COPY_IN" /\ Taking(q)
    BY <1>1, <1>2 DEF OutKeeps, OutGoes
  <2>2. CopiesCounted(c) /\ ServerWaits /\ \A i \in 0 .. Len(wire') : d[i] = c[i + q]
    BY <1>2, <1>3
  <2>3. QED
    BY <2>1, <2>2, NoCopyTaken
<1>8. Taken'
  BY <1>2 DEF Taken, Holds, OutKeeps
<1>9. Ended'
  BY <1>1, <1>2, TookEnd DEF OutGoes
<1>10. QED
  BY <1>5, <1>6, <1>7, <1>8, <1>9 DEF Flow

\* The rows are read, and kept until the last has come.
LEMMA ReadRowsFlows ==
  ASSUME Typed, Linked, Scripted, NEW c, NEW r, Flow(c, r), ReadRows
  PROVE  \E d, s : Flow(d, s)'
<1>1. /\ Handles("COPY_OUT") /\ data' = Collected /\ result' = "COPY_OUT" /\ wire' = Rest
      /\ OutKeeps /\ table' = table
  BY DEF ReadRows, OutKeeps
<1>2. table \o Collected = UpTo(Len(table) + Len(Collected)) /\ \E q : OutTaken(q, c, r)
  BY <1>1, OutAt
<1>3. PICK q : OutTaken(q, c, r)
  BY <1>2
<1>4. OutGoes(q, c, r)
  <2>1. Taking(q)
    BY <1>1, <1>3 DEF OutTaken, Taking
  <2>2. c[q] = queryNo + 1 /\ r[q] = Len(table') + Len(data') /\ \A i \in 1 .. q : wire[i].kind # "FATAL_ERROR"
    BY <1>1, <1>3 DEF OutTaken
  <2>3. table' \o data' = UpTo(Len(table') + Len(data'))
    BY <1>1, <1>2
  <2>4. QED
    BY <1>1, <2>1, <2>2, <2>3 DEF OutGoes
<1>5. QED
  BY <1>1, <1>4, OutFlows

\* They are handed over, and the end of the rows is taken from the wire.
LEMMA HandOverFlows ==
  ASSUME Typed, Linked, Scripted, NEW c, NEW r, Flow(c, r), HandOver
  PROVE  \E d, s : Flow(d, s)'
<1>1. /\ Handles("COPY_OUT") /\ Rest # <<>> /\ table' = table \o Collected /\ data' = <<>>
      /\ result' = "none" /\ queryNo' = queryNo
      /\ wire' = IF Head(Rest).kind = "COPY_DONE" THEN Tail(Rest) ELSE Rest
      /\ UNCHANGED <<link, script, at, mode, copyEnded, stored, produced, input, steps, state,
                     nextRow, columns, cancelRequest, ending>>
  <2>1. queryNo' = queryNo
    BY DEF HandOver, StepsThrough, Typed
  <2>2. QED
    BY <2>1 DEF HandOver
<1>2. /\ table \o Collected = UpTo(Len(table) + Len(Collected)) /\ \E q : OutTaken(q, c, r)
      /\ Collected \in Seq(Nat) /\ table \in Seq(Nat)
  BY <1>1, OutAt DEF Typed
<1>3. PICK q : OutTaken(q, c, r)
  BY <1>2
<1>4. /\ q \in 0 .. Len(wire) /\ c[q] = queryNo + 1 /\ r[q] = Len(table) + Len(Collected)
      /\ \A i \in 1 .. q : wire[i].kind \in {"COPY_OUT", "ROW"}
      /\ Rest \in Seq(Messages) /\ Len(Rest) = Len(wire) - q
      /\ \A i \in 1 .. Len(Rest) : Rest[i] = wire[i + q]
  BY <1>3 DEF OutTaken
<1>5. /\ table' \in Seq(Nat) /\ Len(table') = Len(table) + Len(Collected) /\ Len(table') \in Nat
      /\ Len(data') = 0 /\ table' \o data' = table'
  <2>1. table' \in Seq(Nat) /\ Len(table') = Len(table) + Len(Collected)
    BY <1>1, <1>2, ConcatProperties
  <2>2. table' \o data' = table' /\ Len(table') \in Nat
    BY <1>1, <2>1, ConcatEmptySeq, LenProperties
  <2>3. QED
    BY <1>1, <2>1, <2>2, EmptySeq
<1>6. /\ Len(table') + Len(data') = Len(table) + Len(Collected)
      /\ table' \o data' = UpTo(Len(table') + Len(data'))
  BY <1>1, <1>2, <1>5
<1>7. \E p : OutGoes(p, c, r)
  <2>1. CASE Head(Rest).kind # "COPY_DONE"
    <3>1. wire' = Rest
      BY <1>1, <2>1
    <3>2. Taking(q)
      BY <1>4, <3>1 DEF Taking
    <3>3. OutGoes(q, c, r)
      BY <1>1, <1>4, <1>6, <3>2 DEF OutGoes
    <3>4. QED
      BY <3>3
  <2>2. CASE Head(Rest).kind = "COPY_DONE"
    <3>1. wire' = Tail(Rest)
      BY <1>1, <2>2
    <3>2. /\ wire' \in Seq(Messages) /\ Len(wire') = Len(Rest) - 1
          /\ \A i \in 1 .. Len(wire') : wire'[i] = Rest[i + 1]
      BY <1>1, <1>4, <3>1, HeadTailProperties
    <3>3. Len(wire) \in Nat /\ Len(Rest) \in Nat /\ Len(Rest) # 0
      BY <1>1, <1>4, EmptySeq, LenProperties DEF Typed
    <3>4. q + 1 \in 1 .. Len(wire) /\ (q + 1) - 1 = q /\ 1 \in 1 .. Len(Rest) /\ 1 + q = q + 1
      BY <1>4, <3>3
    <3>5. wire[q + 1].kind = "COPY_DONE"
      BY <1>4, <2>2, <3>4
    <3>6. Taking(q + 1)
      <4>1. ASSUME NEW i \in 1 .. Len(wire') PROVE wire'[i] = wire[i + (q + 1)]
        <5>1. i + 1 \in 1 .. Len(Rest) /\ (i + 1) + q = i + (q + 1)
          BY <1>4, <3>2, <3>3, <3>4
        <5>2. QED
          BY <1>4, <3>2, <5>1
      <4>2. q + 1 \in 0 .. Len(wire) /\ Len(wire') = Len(wire) - (q + 1)
        BY <1>4, <3>2, <3>3, <3>4
      <4>3. QED
        BY <3>2, <4>1, <4>2 DEF Taking
    <3>7. c[q + 1] = queryNo + 1 /\ r[q + 1] = Len(table) + Len(Collected)
      <4>1. /\ Numbered(c, wire, StepEnds, queryNo + 1, at)
            /\ Numbered(r, wire, {"ROW"}, Len(table) + Len(data), produced)
            /\ wire \in Seq(Messages)
        BY DEF Flow, StepsCounted, RowsCounted, Typed
      <4>2. wire[q + 1].kind \notin StepEnds /\ wire[q + 1].kind \notin {"ROW"}
        BY <3>5 DEF StepEnds
      <4>3. c[q + 1] = c[(q + 1) - 1] /\ r[q + 1] = r[(q + 1) - 1]
        BY <3>4, <4>1, <4>2, NumberedStep
      <4>4. QED
        BY <1>4, <3>4, <4>3
    <3>8. \A i \in 1 .. q + 1 : wire[i].kind # "FATAL_ERROR"
      <4>1. \A i \in 1 .. q + 1 : i \in 1 .. q \/ i = q + 1
        BY <1>4, <3>3
      <4>2. QED
        BY <1>4, <3>5, <4>1
    <3>9. OutGoes(q + 1, c, r)
      BY <1>1, <1>6, <3>6, <3>7, <3>8 DEF OutGoes
    <3>10. QED
      BY <3>9
  <2>3. QED
    BY <2>1, <2>2
<1>8. OutKeeps
  BY <1>1 DEF OutKeeps
<1>9. QED
  BY <1>1, <1>7, <1>8, OutFlows

\* The query is sent: nothing has happened yet.
LEMMA SendQueryFlows ==
  ASSUME Typed, Linked, Scripted, NEW c, NEW r, Flow(c, r), SendQuery
  PROVE  Flow(c, r)'
<1>1. /\ state = "CONNECTED" /\ script' = steps /\ mode' = "running"
      /\ stored' = [t \in DOMAIN tables |-> <<>>]
      /\ UNCHANGED <<link, at, copyEnded, produced, wire, input, steps, result, queryNo,
                     nextRow, data, columns, table, cancelRequest, ending>>
  BY DEF SendQuery, Called
<1>2. /\ mode = "idle" /\ at = 1 /\ wire = <<>> /\ queryNo = 0 /\ result = "none" /\ nextRow = 0
      /\ data = <<>> /\ table = <<>> /\ produced = 0 /\ copyEnded = FALSE
  BY <1>1 DEF Scripted
<1>3. Shaped(steps, tables)
  <2>1. tables \in Seq(Nat) /\ injector \in {"default", "noresult"} /\ steps = Inject(injector, tables, 0)
    BY <1>1, ExecutorAssumption DEF Typed, Scripted
  <2>2. QED
    BY <2>1, InjectShape
<1>4. Len(steps) \in Nat /\ Len(steps) >= 2
  BY <1>3 DEF Shaped
<1>5. Len(wire) = 0 /\ wire' = wire
  BY <1>1, <1>2, EmptySeq
<1>6. StepsCounted(c)'
  <2>1. Numbered(c, wire', StepEnds, queryNo' + 1, at')
    BY <1>1 DEF Flow, StepsCounted
  <2>2. QED
    BY <1>1, <1>2, <1>4, <1>5, <2>1 DEF StepsCounted
<1>7. RowsCounted(r)'
  <2>1. Numbered(r, wire', {"ROW"}, Len(table') + Len(data'), produced')
    BY <1>1 DEF Flow, RowsCounted
  <2>2. table' \o data' = UpTo(Len(table') + Len(data'))
    BY <1>1 DEF Flow, RowsCounted
  <2>3. QED
    BY <1>1, <1>2, <1>5, <2>1, <2>2 DEF RowsCounted, UpTo
<1>8. CopiesCounted(c)'
  BY <1>1, <1>2, <1>5 DEF CopiesCounted
<1>9. Taken'
  <2>1. ASSUME NEW i \in 1 .. Len(steps), steps[i].action = "COPY_IN"
        PROVE  stored'[steps[i].table] = <<>>
    BY <1>1, <1>3, <2>1 DEF Shaped
  <2>2. \A i \in 1 .. Len(steps) : ~(i < at')
    BY <1>1, <1>2, <1>4
  <2>3. QED
    BY <1>1, <1>2, <2>1, <2>2 DEF Taken
<1>10. Ended'
  BY <1>1, <1>5 DEF Ended
<1>11. QED
  BY <1>6, <1>7, <1>8, <1>9, <1>10 DEF Flow

\* Nothing crosses the wire.
Quiet ==
  /\ UNCHANGED <<script, at, mode, copyEnded, stored, produced, wire, tables, result, queryNo,
                 nextRow, data, columns, table>>
  /\ ending' = ending \/ ending' # "none"

\* The invariant stays as it is.
LEMMA QuietFlows ==
  ASSUME NEW c, NEW r, Flow(c, r), Quiet
  PROVE  Flow(c, r)'
<1>1. StepsCounted(c)'
  BY DEF Flow, Quiet, StepsCounted, Numbered
<1>2. RowsCounted(r)'
  BY DEF Flow, Quiet, RowsCounted, Numbered, UpTo
<1>3. CopiesCounted(c)'
  BY DEF Flow, Quiet, CopiesCounted, CopyingIn
<1>4. Taken'
  BY DEF Flow, Quiet, Taken, Holds
<1>5. Ended'
  BY DEF Flow, Quiet, Ended
<1>6. QED
  BY <1>1, <1>2, <1>3, <1>4, <1>5 DEF Flow

QuietSteps ==
  \/ Schedule \/ Connect \/ ConnectFails \/ Flush \/ Broken \/ Failed \/ Cancelled \/ Stop \/ CleanedUp
  \/ (GoDown /\ ServerSteps)
  \/ UNCHANGED vars

\* Opening and closing a connection is quiet, and so is stop().
LEMMA QuietAre == QuietSteps => Quiet
<1> USE DEF CleanUp
<1>1. Schedule => Quiet
  BY DEF Schedule, Quiet
<1>2. Connect => Quiet
  BY DEF Connect, Quiet
<1>3. ConnectFails => Quiet
  BY DEF ConnectFails, Quiet
<1>4. Flush => Quiet
  BY DEF Flush, Quiet
<1>5. Broken => Quiet
  BY DEF Broken, Quiet
<1>6. Failed => Quiet
  BY DEF Failed, Quiet
<1>7. Cancelled => Quiet
  BY DEF Cancelled, Quiet
<1>8. Stop => Quiet
  BY DEF Stop, Quiet
<1>9. CleanedUp => Quiet
  BY DEF CleanedUp, Quiet
<1>10. GoDown /\ ServerSteps => Quiet
  BY DEF GoDown, ServerSteps, Quiet
<1>11. UNCHANGED vars => Quiet
  BY DEF vars, Quiet
<1>12. QED
  BY <1>1, <1>2, <1>3, <1>4, <1>5, <1>6, <1>7, <1>8, <1>9, <1>10, <1>11 DEF QuietSteps

\* All steps, for the proofs that follow.
LEMMA StepsAre ==
  ASSUME [Next]_vars
  PROVE  \/ QuietSteps
         \/ (Serve \/ Fail) /\ ServerSteps
         \/ SendQuery \/ Done \/ Command \/ Tuples
         \/ CopyChunk \/ CopyLastChunk \/ ReadRows \/ HandOver
BY DEF Next, Client, Server, Trouble, QuietSteps, ServerSteps

\* Every step keeps the part of the invariant that is about the wire.
LEMMA AllFlow ==
  ASSUME Typed, Linked, Scripted, NEW c, NEW r, Flow(c, r), [Next]_vars
  PROVE  \E d, s : Flow(d, s)'
<1>1. CASE QuietSteps
  BY <1>1, QuietAre, QuietFlows
<1>2. CASE (Serve \/ Fail) /\ ServerSteps
  BY <1>2, ServeFlows
<1>3. CASE SendQuery
  BY <1>3, SendQueryFlows
<1>4. CASE Done
  BY <1>4, DoneFlows
<1>5. CASE Command
  BY <1>5, CommandFlows
<1>6. CASE Tuples
  BY <1>6, TuplesFlows
<1>7. CASE CopyChunk
  BY <1>7, CopyChunkFlows
<1>8. CASE CopyLastChunk
  BY <1>8, CopyLastChunkFlows
<1>9. CASE ReadRows
  BY <1>9, ReadRowsFlows
<1>10. CASE HandOver
  BY <1>10, HandOverFlows
<1>11. QED
  BY <1>1, <1>2, <1>3, <1>4, <1>5, <1>6, <1>7, <1>8, <1>9, <1>10, StepsAre

-----------------------------------------------------------------------------
(***************************************************************************)
(* The other parts of the invariant.                                       *)
(***************************************************************************)

\* A step of the server adds its answers to the wire.
LEMMA ServerTyped ==
  ASSUME Typed, (Serve \/ Fail) /\ ServerSteps
  PROVE  Typed'
<1>1. /\ UNCHANGED <<input, task, cancelRequest, ending, link>>
      /\ at' \in {at, at + 1} /\ produced' \in {produced, produced + 1}
      /\ copyEnded' \in {copyEnded, FALSE}
      /\ mode' \in {mode, "running", "copying_in", "copying_out", "ready"}
  BY DEF ServerSteps, Serve, RunCommand, RunQuery, BeginCopyIn, EndCopyIn, BeginCopyOut, SendRow,
         EndCopyOut, Ready, Fail
<1>2. \A kind \in Kinds : Message(kind) \in Messages
  BY MessageKind
<1>3. [kind |-> "ROW", row |-> produced + 1] \in Messages
  BY DEF Typed, Messages, Kinds
<1>4. \E m, n \in Messages : wire' = wire \o <<m>> \/ wire' = wire \o <<m, n>>
  BY <1>2, <1>3 DEF Serve, RunCommand, RunQuery, BeginCopyIn, EndCopyIn, BeginCopyOut, SendRow,
         EndCopyOut, Ready, Fail, Send, Kinds
<1>5. wire' \in Seq(Messages)
  <2>1. PICK m \in Messages, n \in Messages : wire' = wire \o <<m>> \/ wire' = wire \o <<m, n>>
    BY <1>4
  <2>2. <<m>> \in Seq(Messages) /\ <<m, n>> \in Seq(Messages)
    OBVIOUS
  <2>3. PICK s \in Seq(Messages) : wire' = wire \o s
    BY <2>1, <2>2
  <2>4. wire \in Seq(Messages)
    BY DEF Typed
  <2>5. QED
    BY <2>3, <2>4, ConcatProperties
<1>6. at' \in Nat \ {0} /\ produced' \in Nat
  BY <1>1 DEF Typed
<1>7. /\ copyEnded' \in BOOLEAN
      /\ mode' \in {"idle", "running", "copying_in", "copying_out", "ready"}
  BY <1>1 DEF Typed
<1>8. QED
  BY <1>1, <1>5, <1>6, <1>7 DEF Typed

\* A result or rows that are read leave the rest of the wire.
LEMMA ReadTyped ==
  ASSUME Typed, Linked, Scripted, NEW c, NEW r, Flow(c, r),
         Done \/ Command \/ Tuples \/ CopyChunk \/ CopyLastChunk \/ ReadRows \/ HandOver
  PROVE  Typed'
<1>1. CASE Done
  <2>1. wire' \in Seq(Messages)
    BY <1>1, FirstMessage DEF Done, Taking
  <2>2. QED
    BY <1>1, <2>1 DEF Done, Typed, States
<1>2. CASE Command
  <2>1. wire' \in Seq(Messages)
    BY <1>2, FirstMessage DEF Command, Taking
  <2>2. QED
    BY <1>2, <2>1 DEF Command, Typed, StepsThrough
<1>3. CASE Tuples
  <2>1. wire' \in Seq(Messages)
    BY <1>3, FirstMessage DEF Tuples, Taking
  <2>2. QED
    BY <1>3, <2>1 DEF Tuples, Typed, StepsThrough
<1>4. CASE CopyChunk \/ CopyLastChunk
  <2>1. Handles("COPY_IN") /\ wire' = Unread
    BY <1>4 DEF CopyChunk, CopyLastChunk
  <2>2. wire' \in Seq(Messages)
    BY <2>1, HandledAt
  <2>3. nextRow \in Nat /\ RowsRead \in Nat
    BY <2>1, CopyAt
  <2>4. CASE CopyChunk
    BY <2>2, <2>3, <2>4 DEF CopyChunk, Typed
  <2>5. CASE CopyLastChunk
    BY <2>2, <2>5 DEF CopyLastChunk, Typed, RowAfterCopy, CopyEnd
  <2>6. QED
    BY <1>4, <2>4, <2>5
<1>5. CASE ReadRows
  <2>1. Collected \in Seq(Nat) /\ wire' \in Seq(Messages)
    BY <1>5, OutAt DEF ReadRows, OutTaken
  <2>2. QED
    BY <1>5, <2>1 DEF ReadRows, Typed
<1>6. CASE HandOver
  <2>1. Collected \in Seq(Nat) /\ Rest \in Seq(Messages) /\ Rest # <<>>
    BY <1>6, OutAt DEF HandOver, OutTaken
  <2>2. wire' \in Seq(Messages)
    BY <1>6, <2>1, HeadTailProperties DEF HandOver
  <2>3. table' \in Seq(Nat)
    BY <1>6, <2>1, ConcatProperties DEF HandOver, Typed
  <2>4. data' \in Seq(Nat) /\ queryNo' \in Nat
    BY <1>6 DEF HandOver, StepsThrough, Typed
  <2>5. QED
    BY <1>6, <2>2, <2>3, <2>4 DEF HandOver, Typed
<1>7. QED
  BY <1>1, <1>2, <1>3, <1>4, <1>5, <1>6

\* The steps that leave the wire alone.
LEMMA QuietTyped ==
  ASSUME Typed, QuietSteps \/ SendQuery
  PROVE  Typed'
<1> USE DEF Typed, States, CleanUp
<1>1. CASE Schedule
  BY <1>1 DEF Schedule
<1>2. CASE Connect
  BY <1>2 DEF Connect
<1>3. CASE ConnectFails
  BY <1>3 DEF ConnectFails
<1>4. CASE Flush
  BY <1>4 DEF Flush
<1>5. CASE Broken
  BY <1>5 DEF Broken
<1>6. CASE Failed
  BY <1>6 DEF Failed
<1>7. CASE Cancelled
  BY <1>7 DEF Cancelled
<1>8. CASE Stop
  BY <1>8 DEF Stop
<1>9. CASE CleanedUp
  BY <1>9 DEF CleanedUp
<1>10. CASE GoDown /\ ServerSteps
  BY <1>10 DEF GoDown, ServerSteps
<1>11. CASE UNCHANGED vars
  BY <1>11 DEF vars
<1>12. CASE SendQuery
  BY <1>12 DEF SendQuery
<1>13. QED
  BY <1>1, <1>2, <1>3, <1>4, <1>5, <1>6, <1>7, <1>8, <1>9, <1>10, <1>11, <1>12 DEF QuietSteps

\* The connection is there as long as the calls go on.
LEMMA StaysLinked ==
  ASSUME Typed, Linked, [Next]_vars
  PROVE  Linked'
<1> USE DEF Linked, CleanUp, Called
<1>1. CASE Schedule
  BY <1>1 DEF Schedule
<1>2. CASE Connect
  BY <1>2 DEF Connect
<1>3. CASE ConnectFails
  BY <1>3 DEF ConnectFails, Typed
<1>4. CASE Flush
  BY <1>4 DEF Flush
<1>5. CASE Broken
  BY <1>5 DEF Broken, Typed
<1>6. CASE Failed
  BY <1>6 DEF Failed, Typed
<1>7. CASE Cancelled
  BY <1>7 DEF Cancelled, Typed
<1>8. CASE Stop
  BY <1>8 DEF Stop
<1>9. CASE CleanedUp
  BY <1>9 DEF CleanedUp, Typed
<1>10. CASE GoDown /\ ServerSteps
  BY <1>10 DEF GoDown, ServerSteps
<1>11. CASE UNCHANGED vars
  BY <1>11 DEF vars
<1>12. CASE (Serve \/ Fail) /\ ServerSteps
  <2>1. UNCHANGED <<link, state, ending>>
    BY <1>12 DEF ServerSteps, Serve, RunCommand, RunQuery, BeginCopyIn, EndCopyIn, BeginCopyOut,
           SendRow, EndCopyOut, Ready, Fail
  <2>2. QED
    BY <2>1
<1>13. CASE SendQuery
  BY <1>13 DEF SendQuery
<1>14. CASE Done
  BY <1>14 DEF Done
<1>15. CASE Command \/ Tuples \/ CopyChunk \/ CopyLastChunk \/ ReadRows \/ HandOver
  <2>1. UNCHANGED <<link, state, ending>>
    BY <1>15 DEF Command, Tuples, CopyChunk, CopyLastChunk, ReadRows, HandOver
  <2>2. QED
    BY <2>1
<1>16. QED
  BY <1>1, <1>2, <1>3, <1>4, <1>5, <1>6, <1>7, <1>8, <1>9, <1>10, <1>11, <1>12, <1>13, <1>14, <1>15,
     StepsAre DEF QuietSteps

\* The server is at work from the time that the query is sent.
Asleep ==
  /\ at = 1 /\ wire = <<>> /\ queryNo = 0 /\ result = "none" /\ nextRow = 0
  /\ data = <<>> /\ table = <<>> /\ produced = 0 /\ copyEnded = FALSE /\ ending # "done"

\* The script is what was injected, whoever steps.
LEMMA StaysScripted ==
  ASSUME Typed, Linked, Scripted, [Next]_vars
  PROVE  Scripted'
<1>1. /\ steps = IF state = "NONE" THEN <<>> ELSE Inject(injector, tables, 0)
      /\ mode = "idle" <=> state \in {"NONE", "INITIAL", "CONNECTED"}
      /\ script = IF mode = "idle" THEN <<>> ELSE steps
      /\ mode = "idle" => Asleep
  BY DEF Scripted, Asleep
<1>2. ASSUME UNCHANGED <<injector, tables, steps, script, mode>>,
             state' = state \/ (mode = "idle" /\ state' \in {"INITIAL", "CONNECTED"} /\ state # "NONE")
               \/ (mode # "idle" /\ state' \in States \ {"NONE", "INITIAL", "CONNECTED"}),
             mode = "idle" => Asleep'
      PROVE  Scripted'
  <2>1. steps' = IF state' = "NONE" THEN <<>> ELSE Inject(injector', tables', 0)
    BY <1>1, <1>2
  <2>2. mode' = "idle" <=> state' \in {"NONE", "INITIAL", "CONNECTED"}
    BY <1>1, <1>2
  <2>3. script' = (IF mode' = "idle" THEN <<>> ELSE steps') /\ (mode' = "idle" => Asleep')
    BY <1>1, <1>2
  <2>4. QED
    BY <2>1, <2>2, <2>3 DEF Scripted, Asleep
<1>3. ASSUME UNCHANGED <<injector, tables, steps, script>>, mode # "idle", mode' # "idle",
             state' \in States \ {"NONE", "INITIAL", "CONNECTED"}
      PROVE  Scripted'
  BY <1>1, <1>3 DEF Scripted
<1>4. CASE Schedule
  <2>1. state' = "INITIAL" /\ steps' = Inject(injector', tables', 0)
    BY <1>4 DEF Schedule
  <2>2. mode' = "idle" /\ script' = <<>> /\ Asleep'
    BY <1>1, <1>4 DEF Schedule, Asleep
  <2>3. QED
    BY <2>1, <2>2 DEF Scripted, Asleep
<1>5. CASE Connect
  BY <1>1, <1>2, <1>5 DEF Connect, Called, Asleep
<1>6. CASE ConnectFails \/ Broken \/ Cancelled \/ Stop \/ CleanedUp \/ (GoDown /\ ServerSteps) \/ UNCHANGED vars
  BY <1>1, <1>2, <1>6 DEF ConnectFails, Broken, Cancelled, Stop, CleanedUp, GoDown, ServerSteps, CleanUp, vars,
       Asleep
<1>7. CASE SendQuery
  <2>1. mode' = "running" /\ script' = steps' /\ state' = "QUERY_SENDING"
        /\ steps' = Inject(injector', tables', 0)
    BY <1>1, <1>7 DEF SendQuery, Called
  <2>2. QED
    BY <2>1 DEF Scripted
<1>8. CASE Flush \/ Failed \/ Done
  <2>1. state \in {"QUERY_SENDING", "QUERY_SENT"}
    BY <1>8 DEF Flush, Failed, Done, Called, Gets, Reads
  <2>2. QED
    BY <1>1, <1>3, <1>8, <2>1 DEF Flush, Failed, Done, CleanUp, States
<1>9. CASE Command \/ Tuples \/ CopyChunk \/ CopyLastChunk \/ ReadRows \/ HandOver
  <2>1. /\ UNCHANGED <<injector, tables, steps, script, mode, state>> /\ state = "QUERY_SENT"
    BY <1>9 DEF Command, Tuples, CopyChunk, CopyLastChunk, ReadRows, HandOver, Handles, Gets, Reads, Called
  <2>2. QED
    BY <1>1, <1>3, <2>1 DEF States
<1>10. CASE (Serve \/ Fail) /\ ServerSteps
  <2>1. /\ UNCHANGED <<injector, tables, steps, script, state>> /\ mode # "idle" /\ mode' # "idle"
    BY <1>10 DEF ServerSteps, Serve, Runs, RunCommand, RunQuery, BeginCopyIn, EndCopyIn, BeginCopyOut,
           SendRow, EndCopyOut, Ready, Fail
  <2>2. state \in States
    BY DEF Typed
  <2>3. QED
    BY <1>1, <1>3, <2>1, <2>2
<1>11. QED
  BY <1>4, <1>5, <1>6, <1>7, <1>8, <1>9, <1>10, StepsAre DEF QuietSteps

\* Once the execution is done, its result is not touched; and it is done by Done only.
LEMMA ResultStays ==
  ASSUME Typed, Linked, Scripted, ResultIsWhole, NEW c, NEW r, Flow(c, r), [Next]_vars
  PROVE  ResultIsWhole'
<1>1. CASE Done
  BY <1>1, DoneFlows
<1>2. ASSUME ending' # "done" \/ (ending = "done" /\ UNCHANGED <<columns, table, produced>>)
      PROVE  ResultIsWhole'
  BY <1>2 DEF ResultIsWhole
<1>3. CASE QuietSteps
  <2>1. UNCHANGED <<columns, table, produced>>
    BY <1>3, QuietAre DEF Quiet
  <2>2. ending' = "done" => ending = "done"
    BY <1>3 DEF QuietSteps, Schedule, Connect, ConnectFails, Flush, Broken, Failed, Cancelled, Stop,
           CleanedUp, ServerSteps, CleanUp, vars
  <2>3. QED
    BY <1>2, <2>1, <2>2
<1>4. CASE (Serve \/ Fail) /\ ServerSteps
  <2>1. link = "up" /\ ending' = ending
    BY <1>4 DEF ServerSteps, Serve, Runs, RunCommand, RunQuery, BeginCopyIn, EndCopyIn, BeginCopyOut,
           SendRow, EndCopyOut, Ready, Fail
  <2>2. QED
    BY <1>2, <2>1 DEF Linked
<1>5. CASE SendQuery \/ Command \/ Tuples \/ CopyChunk \/ CopyLastChunk \/ ReadRows \/ HandOver
  <2>1. ending = "none" /\ ending' = ending
    BY <1>5 DEF SendQuery, Command, Tuples, CopyChunk, CopyLastChunk, ReadRows, HandOver, Handles, Gets,
           Reads, Called
  <2>2. QED
    BY <1>2, <2>1
<1>6. QED
  BY <1>1, <1>3, <1>4, <1>5, StepsAre

-----------------------------------------------------------------------------
(***************************************************************************)
(* The properties.                                                         *)
(***************************************************************************)
\* It holds at the start.
LEMMA InitInv == Init => IInv
<1> SUFFICES ASSUME Init PROVE IInv
  OBVIOUS
<1> USE DEF Init, Idle
<1>1. Typed
  <2>1. data \in Seq(Nat) /\ table \in Seq(Nat) /\ wire \in Seq(Messages)
    OBVIOUS
  <2>2. at \in Nat \ {0} /\ produced \in Nat /\ queryNo \in Nat /\ nextRow \in Nat
    OBVIOUS
  <2>3. /\ state \in States /\ result \in {"none", "COPY_IN", "COPY_OUT"}
        /\ columns \in BOOLEAN /\ cancelRequest \in BOOLEAN /\ copyEnded \in BOOLEAN
    BY DEF States
  <2>4. QED
    BY <2>1, <2>2, <2>3 DEF Typed
<1>2. Linked
  BY DEF Linked
<1>3. Scripted
  BY DEF Scripted
<1>4. ResultIsWhole
  BY DEF ResultIsWhole
<1>5. PICK c, r : c = [i \in 0 .. 0 |-> 1] /\ r = [i \in 0 .. 0 |-> 0]
  OBVIOUS
<1>6. c[0] = 1 /\ r[0] = 0 /\ c \in [0 .. 0 -> Nat] /\ r \in [0 .. 0 -> Nat]
  BY <1>5
<1>7. Len(wire) = 0 /\ Len(table) = 0 /\ Len(data) = 0 /\ Len(script) = 0
  BY EmptySeq
<1>8. StepsCounted(c)
  <2>1. Numbered(c, wire, StepEnds, queryNo + 1, at)
    BY <1>6, <1>7 DEF Numbered
  <2>2. QED
    BY <1>7, <2>1 DEF StepsCounted
<1>9. RowsCounted(r)
  <2>1. Numbered(r, wire, {"ROW"}, Len(table) + Len(data), produced)
    BY <1>6, <1>7 DEF Numbered
  <2>2. table \o data = UpTo(Len(table) + Len(data))
    <3>1. UpTo(0) = <<>>
      BY DEF UpTo
    <3>2. table \o data = <<>>
      BY ConcatEmptySeq
    <3>3. QED
      BY <1>7, <3>1, <3>2
  <2>3. QED
    BY <1>7, <2>1, <2>2 DEF RowsCounted
<1>10. CopiesCounted(c) /\ Taken /\ Ended
  BY <1>7 DEF CopiesCounted, Taken, Ended
<1>11. QED
  BY <1>1, <1>2, <1>3, <1>4, <1>8, <1>9, <1>10 DEF IInv, Flow

\* Every step keeps the invariant.
LEMMA NextInv == IInv /\ [Next]_vars => IInv'
<1> SUFFICES ASSUME IInv, [Next]_vars PROVE IInv'
  OBVIOUS
<1>1. Typed /\ Linked /\ Scripted /\ ResultIsWhole
  BY DEF IInv
<1>2. PICK c, r : Flow(c, r)
  BY DEF IInv
<1>3. Typed'
  BY <1>1, <1>2, StepsAre, QuietTyped, ServerTyped, ReadTyped
<1>4. Linked' /\ Scripted' /\ ResultIsWhole'
  BY <1>1, <1>2, StaysLinked, StaysScripted, ResultStays
<1>5. \E d, s : Flow(d, s)'
  BY <1>1, <1>2, AllFlow
<1>6. QED
  BY <1>3, <1>4, <1>5 DEF IInv

\* The invariant, for any in ports, chunk and result.
THEOREM Inductive == Spec => []IInv
BY InitInv, NextInv, PTL DEF Spec

\* Types are kept, and the executor never counts more steps than there are.
THEOREM TypeCorrect == Spec => []TypeOK
<1>1. IInv => TypeOK
  <2> SUFFICES ASSUME IInv PROVE TypeOK
    OBVIOUS
  <2>1. Typed /\ Linked /\ Scripted
    BY DEF IInv
  <2>2. PICK c, r : Flow(c, r)
    BY DEF IInv
  <2>3. queryNo \in 0 .. Len(steps)
    <3>1. CASE mode = "idle"
      <4>1. queryNo = 0
        BY <2>1, <3>1 DEF Scripted
      <4>2. Len(steps) \in Nat
        <5>1. tables \in Seq(Nat) /\ injector \in {"default", "noresult"}
          BY <2>1, ExecutorAssumption DEF Typed
        <5>2. steps = <<>> \/ steps = Inject(injector, tables, 0)
          BY <2>1 DEF Scripted
        <5>3. steps = <<>> \/ Shaped(steps, tables)
          BY <5>1, <5>2, InjectShape
        <5>4. QED
          BY <5>3, EmptySeq DEF Shaped
      <4>3. QED
        BY <4>1, <4>2
    <3>2. CASE mode # "idle"
      <4>1. script = steps /\ Len(steps) \in Nat
        BY <2>1, <3>2, Served DEF Shaped
      <4>2. at <= Len(script) + 1 /\ at \in Nat /\ queryNo \in Nat
        BY <2>1, <2>2, <3>2 DEF Flow, StepsCounted, Typed
      <4>3. queryNo + 1 <= at
        <5>1. Numbered(c, wire, StepEnds, queryNo + 1, at) /\ wire \in Seq(Messages)
          BY <2>1, <2>2 DEF Flow, StepsCounted, Typed
        <5>2. QED
          BY <5>1, NumberedRises
      <4>4. QED
        BY <4>1, <4>2, <4>3
    <3>3. QED
      BY <3>1, <3>2
  <2>4. \A i \in DOMAIN wire : wire[i].kind \in Kinds
    <3>1. wire \in Seq(Messages)
      BY <2>1 DEF Typed
    <3>2. \A i \in DOMAIN wire : wire[i] \in Messages
      BY <3>1, LenProperties, ElementOfSeq
    <3>3. QED
      BY <3>2 DEF Messages
  <2>5. QED
    BY <2>1, <2>3, <2>4 DEF Typed, TypeOK
<1>2. QED
  BY <1>1, Inductive, PTL

\* The executor counts its steps by what comes back, and never sends rows for another step
\* than the one the server is at, whatever the server does and whoever stops.
THEOREM StepsAreRight == Spec => []StepsMatch
<1>1. IInv => StepsMatch
  <2> SUFFICES ASSUME IInv, Handles("COPY_IN")
               PROVE  steps[queryNo + 1].action = "COPY_IN" /\ at = queryNo + 1
    BY DEF StepsMatch
  <2>1. Typed /\ Linked /\ Scripted
    BY DEF IInv
  <2>2. PICK c, r : Flow(c, r)
    BY DEF IInv
  <2>3. QED
    BY <2>1, <2>2, CopyAt
<1>2. QED
  BY <1>1, Inductive, PTL

\* A table of an in port, of any size and sent in chunks of any size, is in the database
\* whole and in order when its copying is through.
THEOREM TablesAreWhole == Spec => []TablesArriveWhole
<1>1. IInv => TablesArriveWhole
  BY DEF IInv, Flow, Taken, Holds, TablesArriveWhole
<1>2. QED
  BY <1>1, Inductive, PTL

\* An execution that is done has all rows of its result, of any number, in order.
THEOREM ResultsAreWhole == Spec => []ResultIsWhole
<1>1. IInv => ResultIsWhole
  BY DEF IInv
<1>2. QED
  BY <1>1, Inductive, PTL

-----------------------------------------------------------------------------
(***************************************************************************)
(* What QueryProcessor sees: the steps of QueryTask.                       *)
(***************************************************************************)

\* What the connection is to QueryProcessor.
LEMMA ConnectionIs ==
  ASSUME Typed
  PROVE  /\ link = "none" => Connection = "none"
         /\ link = "finished" => Connection = "closed"
         /\ link = "down" => Connection = "error"
         /\ link = "up" => Connection \in {"open", "answered", "error"}
         /\ link = "up" /\ ~Comes("READY") /\ ~Comes("FATAL_ERROR") => Connection = "open"
         /\ link = "up" /\ Comes("READY") => Connection = "answered"
         /\ link = "up" /\ Comes("FATAL_ERROR") => Connection = "error"
BY DEF Typed, Connection, Comes

\* The calls end, and the connection is given back.
LEMMA CloseMaps ==
  ASSUME Typed, Typed', NEW how, ending = "none", CleanUp(how)
  PROVE  Task!Close(how)
<1>1. ending' = how /\ link' = IF link = "none" THEN "none" ELSE "finished"
  BY DEF CleanUp
<1>2. CASE link = "none"
  <2>1. Connection = "none" /\ Connection' = "none"
    BY <1>1, <1>2 DEF Connection
  <2>2. QED
    BY <1>1, <2>1 DEF Task!Close
<1>3. CASE link # "none"
  <2>1. Connection # "none" /\ Connection' = "closed"
    BY <1>1, <1>3 DEF Connection, Typed
  <2>2. QED
    BY <1>1, <2>1 DEF Task!Close
<1>4. QED
  BY <1>2, <1>3

\* While the connection is up and the calls go on, an open one may be answered.
LEMMA OpenMaps ==
  ASSUME Typed, Typed', ending = "none", ending' = "none", link = "up", link' = "up",
         ~Comes("READY"), ~Comes("FATAL_ERROR")
  PROVE  [Task!Next]_(Task!vars)
<1>1. Connection = "open" /\ Connection' \in {"open", "answered", "error"}
  <2>1. Connection = "open"
    BY ConnectionIs
  <2>2. Connection' \in {"open", "answered", "error"}
    BY DEF Connection
  <2>3. QED
    BY <2>1, <2>2
<1>2. CASE Connection' = "open"
  BY <1>1, <1>2 DEF Task!vars
<1>3. CASE Connection' # "open"
  BY <1>1, <1>3 DEF Task!Next, Task!Answer
<1>4. QED
  BY <1>2, <1>3

\* What is first on the wire stays first when the server sends.
LEMMA ServerMaps ==
  ASSUME Typed, Typed', Linked, (Serve \/ Fail) /\ ServerSteps
  PROVE  [Task!Next]_(Task!vars)
<1>1. link = "up" /\ link' = "up" /\ ending = "none" /\ ending' = "none" /\ state' = state /\ result' = result
  BY DEF Linked, ServerSteps, Serve, Runs, RunCommand, RunQuery, BeginCopyIn, EndCopyIn, BeginCopyOut,
         SendRow, EndCopyOut, Ready, Fail
<1>2. CASE wire = <<>>
  BY <1>1, <1>2, OpenMaps DEF Comes
<1>3. CASE wire # <<>>
  <2>1. PICK m, n : wire' = wire \o <<m>> \/ wire' = wire \o <<m, n>>
    BY DEF Serve, RunCommand, RunQuery, BeginCopyIn, EndCopyIn, BeginCopyOut, SendRow, EndCopyOut,
           Ready, Fail, Send
  <2>2. PICK s : wire' = wire \o s /\ (s = <<m>> \/ s = <<m, n>>)
    BY <2>1
  <2>3. wire' # <<>> /\ Head(wire') = Head(wire)
    <3>1. wire \in Seq(Messages) /\ Len(wire) \in Nat /\ Len(wire) # 0
      BY <1>3, EmptySeq, LenProperties DEF Typed
    <3>2. s \in Seq({m, n})
      BY <2>2
    <3>3. PICK All : All = Messages \cup {m, n}
      OBVIOUS
    <3>4. wire \in Seq(All) /\ s \in Seq(All)
      BY <3>1, <3>2, <3>3
    <3>5. /\ wire' \in Seq(All) /\ Len(wire') = Len(wire) + Len(s)
          /\ \A i \in 1 .. Len(wire) + Len(s) : wire'[i] = IF i <= Len(wire) THEN wire[i] ELSE s[i - Len(wire)]
      BY <2>2, <3>4, ConcatProperties
    <3>6. Len(s) \in Nat
      BY <3>4, LenProperties
    <3>7. wire'[1] = wire[1] /\ Len(wire') # 0
      BY <3>1, <3>5, <3>6
    <3>8. QED
      BY <3>5, <3>7
  <2>4. Comes("READY")' = Comes("READY") /\ Comes("FATAL_ERROR")' = Comes("FATAL_ERROR")
    BY <1>1, <1>3, <2>3 DEF Comes
  <2>5. Connection' = Connection
    BY <1>1, <2>4 DEF Connection
  <2>6. QED
    BY <1>1, <2>5 DEF Task!vars
<1>4. QED
  BY <1>2, <1>3

\* The steps of the client that is answered.
LEMMA ReadMaps ==
  ASSUME Typed, Typed', Linked, Done \/ Command \/ Tuples \/ CopyChunk \/ CopyLastChunk \/ ReadRows \/ HandOver
  PROVE  [Task!Next]_(Task!vars)
<1>1. CASE Done
  <2>1. Connection = "answered" /\ ending = "none"
    BY <1>1, ConnectionIs DEF Done, Gets, Reads, Called
  <2>2. Connection' = "closed" /\ ending' = "done"
    BY <1>1 DEF Done, Connection
  <2>3. QED
    BY <2>1, <2>2 DEF Task!Next, Task!Close
<1>2. CASE Command \/ Tuples \/ CopyChunk \/ CopyLastChunk \/ ReadRows \/ HandOver
  <2>1. link = "up" /\ link' = "up" /\ ending = "none" /\ ending' = "none"
    BY <1>2 DEF Command, Tuples, CopyChunk, CopyLastChunk, ReadRows, HandOver, Handles, Gets, Reads, Called
  <2>2. ~Comes("READY") /\ ~Comes("FATAL_ERROR")
    BY <1>2 DEF Command, Tuples, CopyChunk, CopyLastChunk, ReadRows, HandOver, Handles, Gets, Comes
  <2>3. QED
    BY <2>1, <2>2, OpenMaps
<1>3. QED
  BY <1>1, <1>2

\* The connection is opened, fails or is given up.
LEMMA QuietMaps ==
  ASSUME Typed, Typed', Linked, QuietSteps \/ SendQuery
  PROVE  [Task!Next]_(Task!vars)
<1>1. CASE Schedule
  <2>1. ending = "none" /\ ending' = "none" /\ link = "none" /\ link' = "none"
    BY <1>1 DEF Schedule, Linked
  <2>2. QED
    BY <2>1 DEF Connection, Task!vars
<1>2. CASE Connect
  <2>1. ending = "none" /\ ending' = "none" /\ link = "none" /\ link' = "up" /\ state' = "CONNECTED"
    BY <1>2 DEF Connect, Called, Linked
  <2>2. Connection = "none" /\ Connection' = "open"
    BY <2>1 DEF Connection, Comes
  <2>3. QED
    BY <2>1, <2>2 DEF Task!Next, Task!Open
<1>3. CASE ConnectFails
  <2>1. ending = "none" /\ link = "none" /\ CleanUp("failed")
    BY <1>3 DEF ConnectFails, Called, Linked
  <2>2. Connection = "none"
    BY <2>1 DEF Connection
  <2>3. QED
    BY <2>1, <2>2, CloseMaps DEF Task!Next
<1>4. CASE Broken
  <2>1. ending = "none" /\ link = "down" /\ CleanUp("failed")
    BY <1>4 DEF Broken, Called
  <2>2. Connection = "error"
    BY <2>1 DEF Connection
  <2>3. QED
    BY <2>1, <2>2, CloseMaps DEF Task!Next
<1>5. CASE Failed
  <2>1. ending = "none" /\ link = "up" /\ Comes("FATAL_ERROR") /\ CleanUp("failed")
    BY <1>5 DEF Failed, Gets, Reads, Called
  <2>2. Connection = "error"
    BY <2>1, ConnectionIs
  <2>3. QED
    BY <2>1, <2>2, CloseMaps DEF Task!Next
<1>6. CASE Cancelled \/ CleanedUp
  <2>1. ending = "none" /\ CleanUp("cancelled")
    BY <1>6 DEF Cancelled, CleanedUp
  <2>2. QED
    BY <2>1, CloseMaps DEF Task!Next
<1>7. CASE GoDown /\ ServerSteps
  <2>1. link = "up" /\ link' = "down" /\ ending = "none" /\ ending' = "none"
    BY <1>7 DEF GoDown, ServerSteps, Linked
  <2>2. Connection \in {"open", "answered", "error"} /\ Connection' = "error"
    BY <2>1, ConnectionIs DEF Connection
  <2>3. CASE Connection = "error"
    BY <2>1, <2>2, <2>3 DEF Task!vars
  <2>4. CASE Connection # "error"
    BY <2>1, <2>2, <2>4 DEF Task!Next, Task!Answer
  <2>5. QED
    BY <2>3, <2>4
<1>8. CASE Flush
  <2>1. ending = "none" /\ ending' = "none" /\ link' = link /\ state = "QUERY_SENDING"
    BY <1>8 DEF Flush, Called
  <2>2. CASE link = "up"
    BY <2>1, <2>2, OpenMaps DEF Comes
  <2>3. CASE link # "up"
    <3>1. Connection' = Connection
      BY <2>1, <2>3 DEF Connection, Typed
    <3>2. QED
      BY <2>1, <3>1 DEF Task!vars
  <2>4. QED
    BY <2>2, <2>3
<1>9. CASE SendQuery
  <2>1. ending = "none" /\ ending' = "none" /\ link = "up" /\ link' = "up" /\ state = "CONNECTED"
    BY <1>9 DEF SendQuery, Called
  <2>2. QED
    BY <2>1, OpenMaps DEF Comes
<1>10. CASE Stop \/ UNCHANGED vars
  <2>1. UNCHANGED <<link, state, result, wire, ending>>
    BY <1>10 DEF Stop, vars
  <2>2. QED
    BY <2>1 DEF Connection, Comes, Task!vars
<1>11. QED
  BY <1>1, <1>2, <1>3, <1>4, <1>5, <1>6, <1>7, <1>8, <1>9, <1>10 DEF QuietSteps

\* To QueryProcessor, the execution acts as QueryTask says: whatever the server does, its
\* connection is opened at most once and given back, and it is done only after an answer.
THEOREM ExecutionActsAsTask == Spec => ActsAsTask
<1>1. Init => Task!Init
  BY DEF Init, Idle, Connection, Task!Init
<1>2. IInv /\ IInv' /\ [Next]_vars => [Task!Next]_(Task!vars)
  <2> SUFFICES ASSUME IInv, IInv', [Next]_vars PROVE [Task!Next]_(Task!vars)
    OBVIOUS
  <2>1. Typed /\ Typed' /\ Linked
    BY DEF IInv
  <2>2. QED
    BY <2>1, StepsAre, ServerMaps, ReadMaps, QuietMaps
<1>3. QED
  BY <1>1, <1>2, Inductive, PTL DEF Spec, ActsAsTask, Task!Spec
=============================================================================
