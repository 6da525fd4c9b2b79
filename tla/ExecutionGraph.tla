--------------------------- MODULE ExecutionGraph ---------------------------
(***************************************************************************)
(* The execution graph of a query file: the executions (one per query and  *)
(* shard, plus the transitions that split or join tables between them),    *)
(* their ports and the channels that carry the result at an out port of    *)
(* one execution to an in port of another.  The graph is built before any  *)
(* query runs and never changes afterwards, so it is a set of constants    *)
(* shared by the modules that execute it.                                  *)
(***************************************************************************)
EXTENDS Naturals, Sequences, FiniteSets, Functions

CONSTANTS
  Execs,        \* the executions
  InPorts,      \* InPorts[e]: the names of the tables that e's query reads
  OutPorts,     \* OutPorts[e]: its out ports, in the order of the code's deque
  Channels      \* records [source, sport, target, tport]

(***************************************************************************)
(* What QueryProcessor::populateTransitions hands over: channels join      *)
(* ports that their ends declare, no execution is without an out port      *)
(* (init adds a default one), and no in port is fed by two channels.  The  *)
(* graph may still lack a channel, or have a cycle.                        *)
(***************************************************************************)
ASSUME GraphAssumption ==
  /\ IsFiniteSet(Execs)
  /\ DOMAIN InPorts = Execs
  /\ OutPorts \in [Execs -> Seq(STRING) \ {<<>>}]
  /\ \A c \in Channels :
       /\ c.source \in Execs /\ c.sport \in Range(OutPorts[c.source])
       /\ c.target \in Execs /\ c.tport \in InPorts[c.target]
  /\ \A c, d \in Channels : c.target = d.target /\ c.tport = d.tport => c = d

\* The out ports of an execution, and all ports that can hold a table.
OutPortsOf(e) == {<<e, p>> : p \in Range(OutPorts[e])}
OutPort == UNION {OutPortsOf(e) : e \in Execs}
InPortsOf(e) == {<<e, p>> : p \in InPorts[e]}
InPort == UNION {InPortsOf(e) : e \in Execs}

\* The two ends of a channel.
SourcePort(c) == <<c.source, c.sport>>
TargetPort(c) == <<c.target, c.tport>>
=============================================================================
