------------------------------ MODULE Sharding ------------------------------
(***************************************************************************)
(* The sharding strategies, and the transitions that distribute or collect *)
(* the rows of a table.  A table is a sequence of rows with the names of   *)
(* its columns; of a row only the value of its shard column matters, a     *)
(* number, or NoNumber for text that is none.                              *)
(***************************************************************************)
EXTENDS Integers, Sequences, SequencesExt

CONSTANTS
  Digest,    \* the last three bytes of the md5 sum of a key, as a number
  NoNumber,  \* a key that is text
  Throws,    \* an exception that is no runtime_error: the process dies
  Undefined  \* a vector is indexed out of its bounds

ASSUME DigestAssumption ==
  DOMAIN Digest \subseteq Int \cup {NoNumber} /\ \A key \in DOMAIN Digest : Digest[key] \in Nat

-----------------------------------------------------------------------------
\* C++ division truncates.
Rem(a, n) == IF a >= 0 THEN a % n ELSE -((-a) % n)

\* The bits that are set in both of two numbers of three bytes.
Bits == 24
And(a, b) ==
  LET and[bits \in 0 .. Bits] == [both \in Nat \X Nat |->
        IF bits = 0 THEN 0
        ELSE 2 * and[bits - 1][<<both[1] \div 2, both[2] \div 2>>] + (both[1] % 2) * (both[2] % 2)]
  IN  and[Bits][<<a, b>>]

\* The elements that pass a test, in their order; SelectSeq, with FlattenSeq.
Keep(s, Test(_)) == FlattenSeq([i \in DOMAIN s |-> IF Test(s[i]) THEN <<s[i]>> ELSE <<>>])

\* setShardCount of each strategy, which may refuse.
AcceptsCount(strategy, count) == strategy.name = "modulo" \/ count % 2 = 0

\* Mutant: the strategies count from zero, as ManyToMany does.
ModuloShardIdFromZero(key, count) == Rem(key, count)

ExplicitShardId(key, count) == key
ModuloShardId(key, count) == Rem(key, count) + 1
Md5ShardId(key, count) == And(Digest[key], count - 1) + 1

ShardId(strategy, key, count) ==
  CASE strategy.name = "md5" -> Md5ShardId(key, count)
    [] strategy.name # "md5" /\ key = NoNumber -> Throws
    [] strategy.name = "explicit" /\ key # NoNumber -> ExplicitShardId(key, count)
    [] strategy.name = "modulo" /\ key # NoNumber -> ModuloShardId(key, count)

\* The first strategy whose expression matches a column, or 0.
ShardColumn(strategies, columns) ==
  SelectInSeq(strategies, LAMBDA s : s.shardCol \in columns)

-----------------------------------------------------------------------------
(***************************************************************************)
(* OneToMany::process(): without a shard column every port gets the table. *)
(***************************************************************************)
Split(strategies, count, table) ==
  LET s == ShardColumn(strategies, table.columns)
      ids == {ShardId(strategies[s], row.key, count) : row \in ToSet(table.rows)}
      part(k) == Keep(table.rows, LAMBDA row : ShardId(strategies[s], row.key, count) = k)
  IN  CASE s = 0 -> [k \in 1 .. count |-> table]
        [] s # 0 /\ Throws \in ids -> Throws
        [] s # 0 /\ Throws \notin ids /\ ~ids \subseteq 1 .. count -> Undefined
        [] s # 0 /\ Throws \notin ids /\ ids \subseteq 1 .. count ->
             [k \in 1 .. count |-> [table EXCEPT !.rows = part(k)]]

\* ManyToOne::process(): the tables of the in ports, in their order.
Join(tables) ==
  [columns |-> tables[1].columns,
   rows |-> FlattenSeq([i \in DOMAIN tables |-> tables[i].rows])]
=============================================================================
