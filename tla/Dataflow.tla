------------------------------ MODULE Dataflow ------------------------------
(***************************************************************************)
(* What running a query file promises, whatever the schedule: an execution *)
(* yields its result once per run, from the results of everything it       *)
(* depends on or from the cache; only results are cached, and what is      *)
(* cached stays; a run is reported finished only when every execution is   *)
(* done.  Runs may be cancelled, fail, crash and be started again.         *)
(***************************************************************************)
EXTENDS ExecutionGraph

VARIABLES
  done,      \* the executions that have a result in this run
  saved,     \* the out ports whose result is in the cache
  verdict    \* how the run ended: "none" while it goes on

vars == <<done, saved, verdict>>

Verdicts == {"none", "finished", "dry", "cancelled", "failed"}

Init ==
  /\ saved \in SUBSET OutPort
  /\ done = {}
  /\ verdict = "none"

\* Results of an earlier run are taken from the cache before anything runs; some, when
\* one of them cannot be read.
Recall ==
  /\ verdict = "none" /\ done = {}
  /\ done' \in SUBSET {e \in Execs : OutPortsOf(e) \subseteq saved}
  /\ UNCHANGED <<saved, verdict>>

\* Every in port of e is fed by an execution that is done.
Ready(e) == \A p \in InPortsOf(e) :
              \E c \in Channels : TargetPort(c) = p /\ c.source \in done

Produce(e) ==
  /\ verdict = "none" /\ e \notin done /\ Ready(e)
  /\ done' = done \cup {e}
  /\ UNCHANGED <<saved, verdict>>

Save(e) ==
  /\ verdict = "none" /\ e \in done
  /\ \E p \in OutPortsOf(e) : saved' = saved \cup {p}
  /\ UNCHANGED <<done, verdict>>

End ==
  /\ verdict = "none"
  /\ \/ verdict' = "finished" /\ done = Execs
     \/ verdict' \in {"dry", "cancelled", "failed"}
  /\ UNCHANGED <<done, saved>>

\* The program is started again, after its end or after a crash.
Restart ==
  /\ done' = {} /\ verdict' = "none"
  /\ UNCHANGED saved

Next ==
  \/ Recall
  \/ \E e \in Execs : Produce(e) \/ Save(e)
  \/ End
  \/ Restart

Spec == Init /\ [][Next]_vars
=============================================================================
