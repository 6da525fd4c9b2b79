------------------------- MODULE MCAsyncQueryExecutor -------------------------
(***************************************************************************)
(* Tables smaller, equal and larger than a chunk, for TLC.                 *)
(***************************************************************************)
EXTENDS AsyncQueryExecutor

SmallInputs == {<<>>, <<0>>, <<2>>, <<3, 1>>, <<0, 5>>, <<4, 3>>}
=============================================================================
