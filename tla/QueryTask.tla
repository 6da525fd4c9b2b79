------------------------------ MODULE QueryTask ------------------------------
(***************************************************************************)
(* What QueryProcessor relies on when it polls a database execution: a     *)
(* connection is opened at most once, its query is answered or fails, and  *)
(* however the execution ends, its connection is given back; it is done    *)
(* only after an answer.                                                   *)
(***************************************************************************)
VARIABLES conn, ending

vars == <<conn, ending>>

Init == conn = "none" /\ ending = "none"

Open == conn = "none" /\ conn' = "open" /\ ending = "none" /\ UNCHANGED ending

\* An answer that was not read yet can be lost with the connection.
Answer ==
  /\ ending = "none"
  /\ \/ conn = "open" /\ conn' \in {"answered", "error"}
     \/ conn = "answered" /\ conn' = "error"
  /\ UNCHANGED ending

Close(how) ==
  /\ ending = "none" /\ ending' = how
  /\ conn' = IF conn = "none" THEN "none" ELSE "closed"

Next ==
  \/ Open \/ Answer
  \/ conn = "answered" /\ Close("done")
  \/ conn \in {"none", "error"} /\ Close("failed")
  \/ Close("cancelled")

Spec == Init /\ [][Next]_vars
=============================================================================
