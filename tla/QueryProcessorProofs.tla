------------------------ MODULE QueryProcessorProofs ------------------------
(***************************************************************************)
(* Proofs about QueryProcessor, for every graph, order, limit and number   *)
(* of runs that the assumptions of ExecutionGraph and QueryProcessor allow.*)
(***************************************************************************)
EXTENDS QueryProcessor, TLAPS

\* An iteration order is a nonempty sequence of the executions.
LEMMA OrderIsSequence ==
  ASSUME NEW o \in Orders
  PROVE  /\ DOMAIN o = 1..Len(o) /\ Len(o) \in Nat \ {0}
         /\ \A i \in 1..Len(o) : o[i] \in Execs
         /\ \A e \in Execs : \E i \in 1..Len(o) : o[i] = e
<1>1. o \in Seq(Execs) /\ o # <<>> /\ Range(o) = Execs
  BY ProcessorAssumption
<1>2. QED
  BY <1>1 DEF Range

\* The execution that the loop is at is one of the graph's.
LEMMA CurrentInGraph ==
  ASSUME TypeOK  PROVE current \in Execs
BY OrderIsSequence DEF TypeOK, current

\* Ports are the ports of executions.
LEMMA PortsInGraph ==
  ASSUME NEW e \in Execs
  PROVE  OutPortsOf(e) \subseteq OutPort /\ InPortsOf(e) \subseteq InPort
BY DEF OutPort, InPort

\* The ends of a channel are ports of its executions.
LEMMA ChannelEnds ==
  ASSUME NEW c \in Channels
  PROVE  /\ c.source \in Execs /\ c.target \in Execs
         /\ SourcePort(c) \in OutPortsOf(c.source)
         /\ TargetPort(c) \in InPortsOf(c.target)
BY GraphAssumption DEF SourcePort, TargetPort, OutPortsOf, InPortsOf

\* Delivery fills in ports of the graph, and completes executions of the graph.
LEMMA DeliveryInGraph ==
  ASSUME NEW cs \in SUBSET Channels
  PROVE  ReceivedFrom(cs) \subseteq InPort
BY ChannelEnds, PortsInGraph DEF ReceivedFrom

\* The program starts with variables of their types.
LEMMA TypeInit == Init => TypeOK
<1> SUFFICES ASSUME Init PROVE TypeOK
  OBVIOUS
<1>1. 1 \in DOMAIN order
  BY OrderIsSequence DEF Init
<1>2. Unstarted \in [Execs -> States]
  BY DEF Unstarted, States
<1>3. tasks \in [Execs -> Nat] /\ conn \in [Execs -> ConnStates]
  BY DEF Init, ConnStates
<1>4. channel \in [Channels -> {"READY", "CLOSED"}]
  BY DEF Init
<1>5. outFull \subseteq OutPort /\ inFull \subseteq InPort /\ cache \subseteq OutPort
  BY DEF Init
<1>6. stopped \in BOOLEAN
  BY DEF Init
<1>7. QED
  BY <1>1, <1>2, <1>3, <1>4, <1>5, <1>6 DEF Init, TypeOK, Phases, Outcomes

USE DEF option, loop, graph, server, client

\* Every step keeps every variable in its type.
LEMMA TypeNext == TypeOK /\ [Next]_vars => TypeOK'
<1> SUFFICES ASSUME TypeOK, [Next]_vars PROVE TypeOK'
  OBVIOUS
<1> USE DEF TypeOK, End, States, Phases, Outcomes, ConnStates
<1>0. current \in Execs
  BY CurrentInGraph
<1>1. CASE LoadFromCache
  <2>1. ReceivedFrom({c \in Channels : c.source \in
          {e \in Execs : OutPortsOf(e) \subseteq IF opts.disableCache THEN {} ELSE cache}
          /\ c.target \notin
          {e \in Execs : OutPortsOf(e) \subseteq IF opts.disableCache THEN {} ELSE cache}})
        \subseteq InPort
    BY DeliveryInGraph
  <2>2. QED
    BY <1>1, <2>1 DEF LoadFromCache, Loaded, Closed
<1>2. CASE DontExecute \/ CheckConnections \/ ConnectionUnavailable \/ Pass
  BY <1>2 DEF DontExecute, CheckConnections, ConnectionUnavailable, Pass
<1>a. CASE LoadFails
  <2>1. outFull' \subseteq OutPort /\ state' \in [Execs -> States]
    BY <1>a DEF LoadFails
  <2>2. QED
    BY <1>a, <2>1 DEF LoadFails
<1>3. \A S \in SUBSET Execs : /\ Scheduled(S) \in [Execs -> States]
                              /\ Queued(S) \in [Execs -> Nat]
  BY DEF Scheduled, Queued
<1>4. CleanUp \in [Execs -> ConnStates]
  BY DEF CleanUp
<1>5. CASE Skip \/ ProcessCancelled
  BY <1>0, <1>3, <1>4, <1>5 DEF Skip, ProcessCancelled, Schedule
<1>6. CASE Wait \/ ProcessFails
  BY <1>0, <1>3, <1>6 DEF Wait, ProcessFails, Schedule
<1>7. CASE ProcessDone
  BY <1>0, <1>3, <1>7, PortsInGraph DEF ProcessDone
<1>8. CASE Deliver
  <2>1. ReceivedFrom(Open(current)) \subseteq InPort
    BY DeliveryInGraph DEF Open
  <2>2. QED
    BY <1>8, <2>1 DEF Deliver, Closed
<1>9. CASE ResultNotReady \/ CacheItemFails \/ Release
  BY <1>9 DEF ResultNotReady, CacheItemFails, Release
<1>10. CASE CacheItem
  BY <1>10 DEF CacheItem, ToSave
<1>11. CASE Cancel
  BY <1>4, <1>11 DEF Cancel
<1>12. CASE NextExecution \/ NextStep \/ Finish
  <2>1. DOMAIN order = 1..Len(order) /\ Len(order) \in Nat \ {0}
    BY OrderIsSequence
  <2>2. QED
    BY <1>3, <1>12, <2>1 DEF NextExecution, NextStep, Finish, FindExecutables, More, Schedule
<1>13. CASE Stop \/ StopExecution
  <2>1. stopAt <= Len(order) => order[stopAt] \in Execs
    BY OrderIsSequence
  <2>2. stopped' \in BOOLEAN
    BY <1>13 DEF Stop, StopExecution
  <2>3. QED
    BY <1>13, <2>1, <2>2 DEF Stop, StopExecution
<1>14. ASSUME NEW e \in Pg, NEW reply \in {"answered", "error"}, Answer(e, reply)
       PROVE  TypeOK'
  BY <1>14, ProcessorAssumption DEF Answer
<1>15. CASE Restart
  <2>1. order' \in Orders => 1 \in DOMAIN order'
    BY OrderIsSequence
  <2>2. stopped' \in BOOLEAN
    BY <1>15 DEF Restart
  <2>3. QED
    BY <1>15, <2>1, <2>2 DEF Restart, Unstarted
<1>16. CASE UNCHANGED vars
  BY <1>16 DEF vars
<1>17. QED
  BY <1>1, <1>2, <1>a, <1>5, <1>6, <1>7, <1>8, <1>9, <1>10, <1>11, <1>12, <1>13, <1>14,
     <1>15, <1>16 DEF Next, Process, Visit, Output

\* Every variable of the processor keeps its type.
THEOREM TypeCorrect == Spec => []TypeOK
BY TypeInit, TypeNext, PTL DEF Spec

-----------------------------------------------------------------------------
(***************************************************************************)
(* The inductive invariant.  Most steps leave the graph alone, or only     *)
(* schedule what is COMPLETE: they are Quiet, and treated together.        *)
(***************************************************************************)
Quiet ==
  /\ UNCHANGED <<order, prepared, outFull, inFull, channel>>
  /\ UNCHANGED <<state, tasks>> \/ \E S \in SUBSET Execs : Schedule(S)
  /\ phase' = "output" => phase = "output" /\ UNCHANGED <<at, state>>
  /\ phase' = "cache" => phase = "cache" /\ UNCHANGED at
  /\ phase = "output" => outcome' = "failed" \/ UNCHANGED <<phase, at>>
  /\ phase' = "load" <=> phase = "load"
  /\ outcome = "failed" => outcome' = "failed" \/ phase # "ended"

\* A step is one of the six that change the graph, or Quiet.
LEMMA StepKinds ==
  ASSUME TypeOK, [Next]_vars
  PROVE  LoadFromCache \/ LoadFails \/ ProcessDone \/ Deliver \/ Release \/ Restart \/ Quiet
<1> USE DEF Quiet, End
<1>0. current \in Execs
  BY CurrentInGraph
<1>1. CASE DontExecute \/ CheckConnections \/ ConnectionUnavailable \/ Pass
  BY <1>1 DEF DontExecute, CheckConnections, ConnectionUnavailable, Pass
<1>2. CASE Skip \/ ProcessCancelled \/ Wait \/ ProcessFails
  <2>1. Schedule({current}) /\ UNCHANGED <<order, prepared, outFull, inFull, channel>>
    BY <1>2 DEF Skip, ProcessCancelled, Wait, ProcessFails
  <2>2. phase = "visit" /\ phase' \in {"check", "ended"}
    BY <1>2 DEF Skip, ProcessCancelled, Wait, ProcessFails, Called
  <2>3. QED
    BY <1>0, <2>1, <2>2
<1>3. CASE ResultNotReady \/ CacheItem \/ CacheItemFails \/ Cancel
  BY <1>3 DEF ResultNotReady, CacheItem, CacheItemFails, Cancel
<1>4. CASE NextExecution \/ NextStep \/ Finish
  <2>1. Schedule(Execs) /\ UNCHANGED <<order, prepared, outFull, inFull, channel>>
    BY <1>4 DEF NextExecution, NextStep, Finish, FindExecutables
  <2>2. phase = "check" /\ phase' \in {"visit", "ended"}
    BY <1>4 DEF NextExecution, NextStep, Finish, FindExecutables
  <2>3. QED
    BY <2>1, <2>2
<1>5. CASE Stop \/ StopExecution
  BY <1>5 DEF Stop, StopExecution
<1>6. ASSUME NEW e \in Pg, NEW reply \in {"answered", "error"}, Answer(e, reply)
      PROVE  Quiet
  BY <1>6 DEF Answer
<1>7. CASE UNCHANGED vars
  BY <1>7 DEF vars
<1>8. QED
  BY <1>1, <1>2, <1>3, <1>4, <1>5, <1>6, <1>7 DEF Next, Process, Visit, Output

\* A load that fails makes DONE the executions it has read, and sends nothing.
LEMMA LoadFailed ==
  ASSUME TypeOK, Control, LoadFails
  PROVE  /\ phase' = "connect" /\ prepared' = FALSE /\ outcome = "none"
         /\ UNCHANGED <<outcome, inFull, channel, tasks, conn, cache>> /\ inFull = {}
         /\ outFull' \subseteq cache
         /\ \A e \in Execs :
              /\ state[e] \in {"INITIAL", "COMPLETE"}
              /\ state'[e] = "DONE" => OutPortsOf(e) \subseteq outFull'
              /\ state'[e] # "DONE" => state'[e] = state[e]
<1>1. /\ phase = "load" /\ phase' = "connect" /\ prepared' = FALSE
      /\ UNCHANGED <<outcome, inFull, channel, tasks, conn, cache>>
      /\ outFull' \subseteq cache
      /\ state' = [e \in Execs |-> IF e \in Loaded(outFull') THEN "DONE" ELSE state[e]]
  BY DEF LoadFails
<1>2. outcome = "none" /\ state = Unstarted /\ inFull = {}
  BY <1>1 DEF Control
<1>3. ASSUME NEW e \in Execs
      PROVE  /\ state[e] \in {"INITIAL", "COMPLETE"}
             /\ state'[e] = "DONE" => OutPortsOf(e) \subseteq outFull'
             /\ state'[e] # "DONE" => state'[e] = state[e]
  BY <1>1, <1>2 DEF Unstarted, Loaded
<1>4. QED
  BY <1>1, <1>2, <1>3

\* Scheduling moves executions from COMPLETE to SCHEDULED, and no others.
LEMMA ScheduleMoves ==
  ASSUME TypeOK, NEW S \in SUBSET Execs, NEW e \in Execs
  PROVE  /\ \/ Scheduled(S)[e] = state[e]
            \/ state[e] = "COMPLETE" /\ Scheduled(S)[e] = "SCHEDULED"
         /\ Scheduled(S)[e] = "DONE" <=> state[e] = "DONE"
         /\ Scheduled(S)[e] \in {"COMPLETE", "SCHEDULED"} <=> Eligible(e)
BY DEF Scheduled, Fresh, Eligible, TypeOK, States

\* A Quiet step neither makes an execution eligible or DONE, nor takes it back.
LEMMA QuietState ==
  ASSUME TypeOK, Quiet, NEW e \in Execs
  PROVE  (state'[e] = "DONE" <=> state[e] = "DONE") /\ (Eligible(e)' <=> Eligible(e))
BY ScheduleMoves DEF Quiet, Schedule, Eligible

\* Delivery completes executions that are not DONE, and fills in ports of channels.
LEMMA DeliverState ==
  ASSUME TypeOK, Deliver, NEW e \in Execs
  PROVE  /\ state'[e] = "DONE" <=> state[e] = "DONE"
         /\ state'[e] # state[e] =>
              /\ state'[e] = "COMPLETE" /\ state[e] # "DONE"
              /\ \E c \in Open(current) : c.target = e
              /\ InPortsOf(e) \subseteq inFull'
         /\ state'[e] = state[e] \/ state'[e] = "COMPLETE"
<1>1. state'[e] = IF e \in Completed(Open(current)) THEN "COMPLETE" ELSE state[e]
  BY DEF Deliver
<1>2. ASSUME e \in Completed(Open(current))
      PROVE  /\ state[e] # "DONE" /\ \E c \in Open(current) : c.target = e
             /\ InPortsOf(e) \subseteq inFull'
  BY <1>2 DEF Completed, Open, Deliver
<1>3. QED
  BY <1>1, <1>2

\* Where the loop is.
LEMMA ControlNext == TypeOK /\ Control /\ [Next]_vars => Control'
<1> SUFFICES ASSUME TypeOK, Control, [Next]_vars PROVE Control'
  OBVIOUS
<1> USE DEF Control, End
<1>0. current \in Execs
  BY CurrentInGraph
<1>1. CASE DontExecute \/ CheckConnections \/ ConnectionUnavailable \/ Pass
  BY <1>1 DEF DontExecute, CheckConnections, ConnectionUnavailable, Pass, current
<1>2. CASE Skip \/ ProcessCancelled \/ Wait \/ ProcessFails
  BY <1>2 DEF Skip, ProcessCancelled, Wait, ProcessFails, Called
<1>3. CASE ResultNotReady \/ CacheItem \/ CacheItemFails \/ Cancel \/ Release
  BY <1>3 DEF ResultNotReady, CacheItem, CacheItemFails, Cancel, Release, current
<1>4. CASE NextExecution \/ NextStep \/ Finish
  BY <1>4 DEF NextExecution, NextStep, Finish, FindExecutables
<1>5. CASE Stop \/ StopExecution
  BY <1>5 DEF Stop, StopExecution, current, Unstarted
<1>6. ASSUME NEW e \in Pg, NEW reply \in {"answered", "error"}, Answer(e, reply)
      PROVE  Control'
  BY <1>6 DEF Answer, current, Unstarted
<1>7. CASE LoadFromCache \/ LoadFails
  BY <1>7 DEF LoadFromCache, LoadFails
<1>8. CASE ProcessDone
  BY <1>0, <1>8 DEF ProcessDone, Called, current, TypeOK
<1>9. CASE Deliver
  <2>1. state'[current] = "DONE" /\ current' = current
    BY <1>0, <1>9, DeliverState DEF Deliver, current
  <2>2. QED
    BY <1>9, <2>1 DEF Deliver
<1>10. CASE Restart
  BY <1>10 DEF Restart, Unstarted
<1>11. CASE UNCHANGED vars
  BY <1>11 DEF vars, current, Unstarted
<1>12. QED
  BY <1>1, <1>2, <1>3, <1>4, <1>5, <1>6, <1>7, <1>8, <1>9, <1>10, <1>11
     DEF Next, Process, Visit, Output

\* The tables of what is eligible are there.
LEMMA InputsHeldNext ==
  TypeOK /\ Control /\ InputsHeld /\ [Next]_vars => InputsHeld'
<1> SUFFICES ASSUME TypeOK, Control, InputsHeld, [Next]_vars,
                    NEW e \in Execs, Eligible(e)'
             PROVE  InPortsOf(e) \subseteq inFull'
  BY DEF InputsHeld, InPortsOf
<1>0. current \in Execs /\ (Eligible(e) => InPortsOf(e) \subseteq inFull)
  BY CurrentInGraph DEF InputsHeld
<1>1. CASE LoadFromCache
  BY <1>0, <1>1 DEF LoadFromCache, Loaded, Completed, Eligible, TypeOK
<1>2. CASE ProcessDone
  BY <1>0, <1>2 DEF ProcessDone, Eligible, TypeOK
<1>3. CASE Deliver
  <2>1. CASE state'[e] = state[e]
    BY <1>0, <1>3, <2>1 DEF Deliver, Eligible
  <2>2. CASE state'[e] # state[e]
    BY <1>3, <2>2, DeliverState
  <2>3. QED
    BY <2>1, <2>2
<1>4. CASE Release
  <2>1. state[current] = "DONE" /\ UNCHANGED state /\ inFull' = inFull \ InPortsOf(current)
    BY <1>4 DEF Release, Control
  <2>2. e # current
    BY <2>1 DEF Eligible
  <2>3. InPortsOf(e) \cap InPortsOf(current) = {}
    BY <2>2 DEF InPortsOf
  <2>4. QED
    BY <1>0, <2>1, <2>3 DEF Eligible
<1>5. CASE Restart
  BY <1>5 DEF Restart, Unstarted, Eligible, InPortsOf
<1>6. CASE Quiet
  BY <1>0, <1>6, QuietState DEF Quiet
<1>7. CASE LoadFails
  <2>1. state'[e] = state[e] /\ inFull' = inFull
    BY <1>7, LoadFailed DEF Eligible
  <2>2. QED
    BY <1>0, <2>1 DEF Eligible
<1>8. QED
  BY <1>1, <1>2, <1>3, <1>4, <1>5, <1>6, <1>7, StepKinds

\* Full in ports were filled by their channel, from a DONE source.
LEMMA FedNext == TypeOK /\ Control /\ Fed /\ [Next]_vars => Fed'
<1> SUFFICES ASSUME TypeOK, Control, Fed, [Next]_vars PROVE Fed'
  OBVIOUS
<1> USE DEF Fed
<1>0. current \in Execs
  BY CurrentInGraph
<1>1. \A c \in Channels : c.source \in Execs /\ c.target \in Execs
  BY ChannelEnds
<1>a. \A c, d \in Channels : TargetPort(c) = TargetPort(d) => c = d
  BY GraphAssumption DEF TargetPort
<1>2. CASE LoadFromCache
  <2> DEFINE loaded == {e \in Execs : OutPortsOf(e) \subseteq
                          IF opts.disableCache THEN {} ELSE cache}
             sent == {c \in Channels : c.source \in loaded /\ c.target \notin loaded}
  <2>1. /\ inFull' = ReceivedFrom(sent)
        /\ \A e \in loaded : state'[e] = "DONE"
        /\ \A c \in sent : channel'[c] = "CLOSED"
    BY <1>2 DEF LoadFromCache, Loaded, Control, Closed
  <2>2. \A p \in inFull' : \E c \in Channels : TargetPort(c) = p /\ state'[c.source] = "DONE"
    BY <2>1 DEF ReceivedFrom
  <2>3. \A c \in Channels : TargetPort(c) \in inFull' => channel'[c] = "CLOSED"
    BY <1>a, <2>1 DEF ReceivedFrom
  <2>4. QED
    BY <2>2, <2>3 DEF TargetPort
<1>3. CASE ProcessDone
  BY <1>0, <1>1, <1>3 DEF ProcessDone, TargetPort, TypeOK
<1>4. CASE Deliver
  <2>1. /\ inFull' = inFull \cup ReceivedFrom(Open(current))
        /\ \A c \in Channels : channel'[c] = "CLOSED" <=>
             c \in Open(current) \/ channel[c] = "CLOSED"
        /\ state[current] = "DONE"
    BY <1>4 DEF Deliver, Closed, Control
  <2>2. \A e \in Execs : state'[e] = "DONE" <=> state[e] = "DONE"
    BY <1>4, DeliverState
  <2>3. \A p \in inFull' : \E c \in Channels : TargetPort(c) = p /\ state'[c.source] = "DONE"
    BY <1>0, <1>1, <2>1, <2>2 DEF ReceivedFrom, Open
  <2>4. \A c \in Channels : TargetPort(c) \in inFull' => channel'[c] = "CLOSED"
    BY <1>a, <2>1 DEF ReceivedFrom, Open
  <2>5. QED
    BY <2>3, <2>4 DEF TargetPort
<1>5. CASE Release
  BY <1>5 DEF Release, TargetPort
<1>6. CASE Restart
  BY <1>6 DEF Restart
<1>7. CASE Quiet
  <2>1. \A e \in Execs : state'[e] = "DONE" <=> state[e] = "DONE"
    BY <1>7, QuietState
  <2>2. inFull' = inFull /\ channel' = channel
    BY <1>7 DEF Quiet
  <2>3. QED
    BY <1>1, <2>1, <2>2 DEF TargetPort
<1>8. CASE LoadFails
  <2>1. inFull' = {}
    BY <1>8, LoadFailed
  <2>2. QED
    BY <2>1
<1>9. QED
  BY <1>2, <1>3, <1>4, <1>5, <1>6, <1>7, <1>8, StepKinds

\* Closed channels belong to executions whose result was passed on.
LEMMA UsedNext == TypeOK /\ Control /\ Used /\ [Next]_vars => Used'
<1> SUFFICES ASSUME TypeOK, Control, Used, [Next]_vars,
                    NEW c \in Channels, channel'[c] = "CLOSED"
             PROVE  state'[c.source] = "DONE" /\ (phase' = "output" => c.source # current')
  BY DEF Used
<1> USE DEF Used
<1>0. current \in Execs /\ c.source \in Execs /\ c.target \in Execs
  BY CurrentInGraph, ChannelEnds
<1>1. CASE LoadFromCache
  BY <1>0, <1>1 DEF LoadFromCache, Loaded, Closed, Control, Unstarted
<1>2. CASE ProcessDone
  BY <1>0, <1>2 DEF ProcessDone, Called, Eligible, current, TypeOK
<1>3. CASE Deliver
  <2>1. c.source = current \/ channel[c] = "CLOSED"
    BY <1>3 DEF Deliver, Closed, Open
  <2>2. QED
    BY <1>0, <1>3, <2>1, DeliverState DEF Deliver, Control
<1>4. CASE Release
  BY <1>4 DEF Release
<1>5. CASE Restart
  BY <1>5 DEF Restart
<1>6. CASE Quiet
  <2>1. channel[c] = "CLOSED" /\ state'[c.source] = "DONE"
    BY <1>0, <1>6, QuietState DEF Quiet
  <2>2. QED
    BY <1>6, <2>1 DEF Quiet, current
<1>7. CASE LoadFails
  <2>1. channel[c] = "CLOSED" /\ state[c.source] # "DONE"
    BY <1>0, <1>7, LoadFailed
  <2>2. QED
    BY <2>1
<1>8. QED
  BY <1>1, <1>2, <1>3, <1>4, <1>5, <1>6, <1>7, StepKinds

\* What is released was delivered.
LEMMA DeliveredNext ==
  TypeOK /\ Control /\ Fed /\ Used /\ Delivered /\ ChannelUsedOnce /\ [Next]_vars
    => Delivered'
<1> SUFFICES ASSUME TypeOK, Control, Fed, Used, Delivered, [Next]_vars,
                    phase' # "load", outcome' # "failed",
                    NEW c \in Channels,
                    state'[c.source] = "DONE", state'[c.target] # "DONE",
                    ~(phase' = "output" /\ c.source = current')
             PROVE  \/ TargetPort(c) \in inFull'
                    \/ /\ ~prepared' /\ SourcePort(c) \in outFull'
                       /\ ~(phase' = "cache" /\ c.source = current')
  BY DEF Delivered, TargetPort, SourcePort
<1>0. current \in Execs /\ c.source \in Execs /\ c.target \in Execs
  BY CurrentInGraph, ChannelEnds
<1>1. CASE LoadFromCache
  <2> DEFINE loaded == {e \in Execs : OutPortsOf(e) \subseteq
                          IF opts.disableCache THEN {} ELSE cache}
             sent == {d \in Channels : d.source \in loaded /\ d.target \notin loaded}
  <2>1. /\ inFull' = inFull \cup ReceivedFrom(sent)
        /\ \A e \in Execs : state'[e] = "DONE" <=> e \in loaded
    BY <1>1 DEF LoadFromCache, Loaded, Control, Unstarted
  <2>2. c \in sent
    BY <1>0, <2>1
  <2>3. QED
    BY <2>1, <2>2 DEF ReceivedFrom
<1>2. CASE ProcessDone
  <2>1. c.source # current /\ c.target # current /\ UNCHANGED <<inFull, prepared>>
        /\ outFull \subseteq outFull' /\ phase' = "output"
        /\ phase = "visit" /\ outcome = "none"
    BY <1>0, <1>2 DEF ProcessDone, Called, TypeOK, Control, current
  <2>2. state[c.source] = "DONE" /\ state[c.target] # "DONE"
    BY <1>0, <1>2, <2>1 DEF ProcessDone, TypeOK
  <2>3. QED
    BY <2>1, <2>2 DEF Delivered
<1>3. CASE Deliver
  <2>1. state[c.source] = "DONE" /\ state[c.target] # "DONE"
        /\ inFull' = inFull \cup ReceivedFrom(Open(current))
        /\ UNCHANGED <<outFull, prepared, at, order>>
        /\ phase = "output" /\ outcome = "none"
    BY <1>0, <1>3, DeliverState DEF Deliver, Control
  <2>2. CASE c.source = current
    BY <2>1, <2>2 DEF Open, ReceivedFrom
  <2>3. CASE c.source # current
    BY <2>1, <2>3 DEF Delivered, current
  <2>4. QED
    BY <2>2, <2>3
<1>4. CASE Release
  <2>1. UNCHANGED <<state, prepared>> /\ inFull' = inFull \ InPortsOf(current)
        /\ outFull' = outFull \ OutPortsOf(current) /\ phase' = "check"
        /\ phase = "cache" /\ outcome = "none" /\ state[current] = "DONE"
    BY <1>4 DEF Release, Control
  <2>2. \/ TargetPort(c) \in inFull
        \/ ~prepared /\ SourcePort(c) \in outFull /\ c.source # current
    BY <2>1 DEF Delivered
  <2>3. TargetPort(c) \notin InPortsOf(current)
    BY <2>1 DEF TargetPort, InPortsOf
  <2>4. c.source # current => SourcePort(c) \notin OutPortsOf(current)
    BY DEF SourcePort, OutPortsOf
  <2>5. QED
    BY <2>1, <2>2, <2>3, <2>4
<1>5. CASE Restart
  BY <1>5 DEF Restart
<1>6. CASE Quiet
  <2>1. state[c.source] = "DONE" /\ state[c.target] # "DONE"
        /\ UNCHANGED <<inFull, outFull, prepared, order>>
        /\ (phase' = "cache" => phase = "cache" /\ UNCHANGED at)
    BY <1>0, <1>6, QuietState DEF Quiet
  <2>2. phase # "load" /\ outcome # "failed"
    BY <1>6 DEF Quiet, Control
  <2>3. ~(phase = "output" /\ c.source = current)
    <3>1. phase = "output" => UNCHANGED <<phase, at>> /\ UNCHANGED order
      BY <1>6 DEF Quiet
    <3>2. QED
      BY <3>1 DEF current
  <2>4. QED
    BY <2>1, <2>2, <2>3 DEF Delivered, current
<1>7. CASE LoadFails
  <2>1. SourcePort(c) \in outFull'
    BY <1>0, <1>7, LoadFailed, ChannelEnds
  <2>2. QED
    BY <1>7, <2>1, LoadFailed
<1>8. QED
  BY <1>1, <1>2, <1>3, <1>4, <1>5, <1>6, <1>7, StepKinds

\* Scheduling queues a task for what was not scheduled before, only.
LEMMA ScheduleQueues ==
  ASSUME TypeOK, NEW S \in SUBSET Execs, Schedule(S), NEW e \in Execs,
         tasks[e] <= 1, state[e] \in {"INITIAL", "COMPLETE"} => tasks[e] = 0
  PROVE  /\ tasks'[e] <= 1
         /\ state'[e] \in {"INITIAL", "COMPLETE"} => tasks'[e] = 0
         /\ state[e] = "SCHEDULED" => state'[e] = "SCHEDULED"
         /\ e \in S /\ Eligible(e) => state'[e] = "SCHEDULED"
<1>1. /\ state'[e] = IF e \in S /\ state[e] = "COMPLETE" THEN "SCHEDULED" ELSE state[e]
      /\ tasks'[e] = IF e \in S /\ state[e] = "COMPLETE" /\ e \in Pg
                     THEN tasks[e] + 1 ELSE tasks[e]
  BY DEF Schedule, Scheduled, Queued, Fresh
<1>2. tasks[e] \in Nat
  BY DEF TypeOK
<1>3. QED
  BY <1>1, <1>2 DEF Eligible

\* A delivery completes executions that were never scheduled.
LEMMA DeliverToInitial ==
  ASSUME TypeOK, InputsHeld, Fed, Used, Deliver, NEW c \in Open(current)
  PROVE  channel[c] = "READY" /\ state[c.target] = "INITIAL"
<1>1. c \in Channels /\ c.source = current /\ state[c.target] # "DONE" /\ phase = "output"
  BY DEF Open, Deliver
<1>2. c.target \in Execs /\ TargetPort(c) \in InPortsOf(c.target)
  BY <1>1, ChannelEnds
<1>3. channel[c] # "CLOSED"
  BY <1>1 DEF Used
<1>4. TargetPort(c) \notin inFull
  BY <1>1, <1>3 DEF Fed
<1>5. ~Eligible(c.target)
  BY <1>2, <1>4 DEF InputsHeld
<1>6. QED
  BY <1>1, <1>2, <1>3, <1>5 DEF Eligible, TypeOK, States

\* No task is queued twice, and connections belong to scheduled executions.
LEMMA TaskedNext ==
  TypeOK /\ Control /\ InputsHeld /\ Fed /\ Used /\ Tasked /\ [Next]_vars => Tasked'
<1> SUFFICES ASSUME TypeOK, Control, InputsHeld, Fed, Used, Tasked, [Next]_vars,
                    NEW e \in Execs
             PROVE  /\ tasks'[e] <= 1
                    /\ state'[e] \in {"INITIAL", "COMPLETE"} => tasks'[e] = 0
                    /\ conn'[e] \in {"open", "answered", "error"} =>
                         state'[e] = "SCHEDULED" /\ e \in Pg
  BY DEF Tasked
<1>0. /\ current \in Execs
      /\ tasks[e] \in Nat /\ tasks[e] <= 1
      /\ state[e] \in {"INITIAL", "COMPLETE"} => tasks[e] = 0
      /\ conn[e] \in {"open", "answered", "error"} => state[e] = "SCHEDULED" /\ e \in Pg
  BY CurrentInGraph DEF Tasked, TypeOK
<1>1. CASE LoadFromCache
  <2>1. state[e] \in {"INITIAL", "COMPLETE"}
    BY <1>1 DEF LoadFromCache, Control, Unstarted
  <2>2. QED
    BY <1>0, <1>1, <2>1 DEF LoadFromCache
<1>a. CASE LoadFails
  <2>1. state[e] \in {"INITIAL", "COMPLETE"} /\ UNCHANGED <<tasks, conn>>
    BY <1>a, LoadFailed
  <2>2. QED
    BY <1>0, <2>1
<1>2. CASE \/ DontExecute \/ CheckConnections \/ ConnectionUnavailable \/ Pass
           \/ ResultNotReady \/ CacheItem \/ CacheItemFails \/ Release
           \/ Stop \/ StopExecution \/ UNCHANGED vars
  <2>1. UNCHANGED <<state, tasks, conn>>
    BY <1>2 DEF DontExecute, CheckConnections, ConnectionUnavailable, Pass,
       ResultNotReady, CacheItem, CacheItemFails, Release, Stop, StopExecution, vars
  <2>2. QED
    BY <1>0, <2>1
<1>3. CASE Skip \/ ProcessCancelled \/ Wait \/ ProcessFails
  <2>1. Schedule({current}) /\ Eligible(current)
    BY <1>3 DEF Skip, ProcessCancelled, Wait, ProcessFails, Called
  <2>2. conn'[e] \in {"open", "answered", "error"} =>
          conn[e] \in {"open", "answered", "error"} \/ (e = current /\ e \in Pg)
    BY <1>0, <1>3 DEF Skip, ProcessCancelled, Wait, ProcessFails, Called, CleanUp, TypeOK
  <2>3. QED
    BY <1>0, <2>1, <2>2, ScheduleQueues
<1>4. CASE ProcessDone
  <2>1. CASE e = current
    <3>1. state'[e] = "DONE" /\ Eligible(e)
      BY <1>0, <1>4, <2>1 DEF ProcessDone, Called, TypeOK
    <3>2. tasks'[e] <= 1
      BY <1>0, <1>4 DEF ProcessDone, Queued, Fresh
    <3>3. conn'[e] \notin {"open", "answered", "error"}
      BY <1>0, <1>4, <2>1 DEF ProcessDone, TypeOK
    <3>4. QED
      BY <3>1, <3>2, <3>3
  <2>2. CASE e # current
    BY <1>0, <1>4, <2>2 DEF ProcessDone, Queued, Fresh, TypeOK
  <2>3. QED
    BY <2>1, <2>2
<1>5. CASE Deliver
  <2>1. UNCHANGED <<tasks, conn>>
    BY <1>5 DEF Deliver
  <2>2. CASE state'[e] = state[e]
    BY <1>0, <2>1, <2>2
  <2>3. CASE state'[e] # state[e]
    <3>1. state'[e] = "COMPLETE" /\ state[e] = "INITIAL"
      BY <1>5, <2>3, DeliverState, DeliverToInitial
    <3>2. QED
      BY <1>0, <2>1, <3>1
  <2>4. QED
    BY <2>2, <2>3
<1>6. CASE Cancel
  BY <1>0, <1>6 DEF Cancel, CleanUp
<1>7. CASE NextExecution \/ NextStep \/ Finish
  <2>1. Schedule(Execs) /\ UNCHANGED conn
    BY <1>7 DEF NextExecution, NextStep, Finish, FindExecutables
  <2>2. QED
    BY <1>0, <2>1, ScheduleQueues
<1>8. ASSUME NEW x \in Pg, NEW reply \in {"answered", "error"}, Answer(x, reply)
      PROVE  /\ tasks'[e] <= 1
             /\ state'[e] \in {"INITIAL", "COMPLETE"} => tasks'[e] = 0
             /\ conn'[e] \in {"open", "answered", "error"} =>
                  state'[e] = "SCHEDULED" /\ e \in Pg
  BY <1>0, <1>8 DEF Answer, TypeOK
<1>9. CASE Restart
  BY <1>9 DEF Restart
<1>10. QED
  BY <1>1, <1>a, <1>2, <1>3, <1>4, <1>5, <1>6, <1>7, <1>8, <1>9
     DEF Next, Process, Visit, Output

\* No delivery meets a used channel.
LEMMA ChannelUsedOnceNext ==
  TypeOK /\ InputsHeld /\ Fed /\ Used /\ ChannelUsedOnce /\ [Next]_vars => ChannelUsedOnce'
<1> SUFFICES ASSUME TypeOK, InputsHeld, Fed, Used, ChannelUsedOnce, [Next]_vars
             PROVE  outcome' # "broken"
  BY DEF ChannelUsedOnce
<1>1. CASE Deliver
  BY <1>1, DeliverToInitial DEF Deliver
<1>2. CASE LoadFromCache \/ ProcessDone \/ Release \/ Restart
  BY <1>2 DEF LoadFromCache, ProcessDone, Release, Restart, ChannelUsedOnce
<1>3. CASE \/ DontExecute \/ CheckConnections \/ ConnectionUnavailable \/ LoadFails \/ Pass
           \/ Skip \/ ProcessCancelled \/ Wait \/ ProcessFails
  BY <1>3 DEF DontExecute, CheckConnections, ConnectionUnavailable, LoadFails, Pass, Skip,
     ProcessCancelled, Wait, ProcessFails, End, ChannelUsedOnce
<1>4. CASE ResultNotReady \/ CacheItem \/ CacheItemFails \/ Cancel
  BY <1>4 DEF ResultNotReady, CacheItem, CacheItemFails, Cancel, End, ChannelUsedOnce
<1>5. CASE NextExecution \/ NextStep \/ Finish
  BY <1>5 DEF NextExecution, NextStep, Finish, End, ChannelUsedOnce
<1>6. ASSUME NEW x \in Pg, NEW reply \in {"answered", "error"}, Answer(x, reply)
      PROVE  outcome' # "broken"
  BY <1>6 DEF Answer, ChannelUsedOnce
<1>7. CASE Stop \/ StopExecution \/ UNCHANGED vars
  BY <1>7 DEF Stop, StopExecution, vars, ChannelUsedOnce
<1>8. QED
  BY <1>1, <1>2, <1>3, <1>4, <1>5, <1>6, <1>7 DEF Next, Process, Visit, Output

\* What is DONE is cached, up to the execution whose result is being saved.
LEMMA SavedNext ==
  TypeOK /\ Control /\ InputsHeld /\ Fed /\ Used /\ Saved /\ [Next]_vars => Saved'
<1> SUFFICES ASSUME TypeOK, Control, InputsHeld, Fed, Used, Saved, [Next]_vars
             PROVE  Saved'
  OBVIOUS
<1> USE DEF Saved
<1>0. current \in Execs /\ Len(OutPorts[current]) \in Nat
  BY CurrentInGraph, GraphAssumption
<1>p. \A e \in Execs : OutPortsOf(e) = {<<e, OutPorts[e][i]>> : i \in 1..Len(OutPorts[e])}
  BY GraphAssumption DEF OutPortsOf, Range
<1>1. CASE LoadFromCache
  <2>1. \A e \in Execs : state'[e] = "DONE" => OutPortsOf(e) \subseteq cache
    BY <1>1 DEF LoadFromCache, Loaded, Control, Unstarted
  <2>2. phase' = "connect" /\ cache' = cache
    BY <1>1 DEF LoadFromCache
  <2>3. QED
    BY <2>1, <2>2 DEF OutPortsOf
<1>a. CASE LoadFails
  <2>1. \A e \in Execs : state'[e] = "DONE" => OutPortsOf(e) \subseteq cache
    BY <1>a, LoadFailed
  <2>2. phase' = "connect" /\ cache' = cache
    BY <1>a, LoadFailed
  <2>3. QED
    BY <2>1, <2>2 DEF OutPortsOf
<1>2. CASE ProcessDone
  <2>1. /\ phase = "visit" /\ phase' = "output" /\ current' = current
        /\ cache' = cache /\ outcome' = outcome
        /\ \A e \in Execs \ {current} : state'[e] = state[e]
    BY <1>2 DEF ProcessDone, Called, current, TypeOK
  <2>2. current \notin Resultless => OutPortsOf(current) \subseteq outFull'
    BY <1>2 DEF ProcessDone
  <2>3. QED
    BY <2>1, <2>2 DEF OutPortsOf
<1>3. CASE Deliver
  <2>1. \A c \in Open(current) : channel[c] = "READY"
    BY <1>3, DeliverToInitial
  <2>2. /\ phase = "output" /\ phase' = "cache" /\ saving' = 1 /\ outcome' = "none"
        /\ current' = current /\ UNCHANGED <<outFull, cache>> /\ outcome = "none"
    BY <1>3, <2>1 DEF Deliver, current, Control
  <2>3. \A e \in Execs : state'[e] = "DONE" <=> state[e] = "DONE"
    BY <1>3, DeliverState
  <2>4. QED
    BY <2>2, <2>3 DEF OutPortsOf
<1>4. CASE CacheItem
  <2>1. /\ phase = "cache" /\ UNCHANGED <<phase, state, outFull, outcome>>
        /\ current' = current /\ saving' = saving + 1 /\ saving \in Nat
        /\ cache \subseteq cache'
        /\ saving <= Len(OutPorts[current]) => <<current, OutPorts[current][saving]>> \in cache'
    BY <1>4 DEF CacheItem, ToSave, current, TypeOK
  <2>2. ASSUME NEW i \in 1..(saving' - 1), i <= Len(OutPorts[current])
        PROVE  <<current, OutPorts[current][i]>> \in cache'
    <3>1. CASE i = saving
      BY <2>1, <2>2, <3>1
    <3>2. CASE i # saving
      <4>1. i \in 1..(saving - 1)
        BY <2>1, <2>2, <3>2
      <4>2. QED
        BY <2>1, <2>2, <4>1
    <3>3. QED
      BY <3>1, <3>2
  <2>3. QED
    BY <2>1, <2>2 DEF OutPortsOf
<1>5. CASE Release
  <2>1. /\ phase = "cache" /\ phase' = "check" /\ UNCHANGED <<state, outcome, cache>>
        /\ saving \in Nat \ {0}
    BY <1>5 DEF Release, TypeOK
  <2>2. ASSUME current \notin Resultless  PROVE OutPortsOf(current) \subseteq cache
    <3>1. saving > Len(OutPorts[current])
      <4>1. SUFFICES ASSUME saving \in 1..Len(OutPorts[current])
                     PROVE  FALSE
        BY <1>0, <2>1
      <4>2. <<current, OutPorts[current][saving]>> \in OutPortsOf(current)
        BY <1>0, <1>p, <4>1
      <4>3. OutPortsOf(current) \subseteq outFull
        BY <2>1, <2>2
      <4>4. QED
        BY <1>5, <4>1, <4>2, <4>3 DEF Release, ToSave
    <3>2. \A i \in 1..Len(OutPorts[current]) : <<current, OutPorts[current][i]>> \in cache
      BY <1>0, <2>1, <3>1
    <3>3. QED
      BY <1>0, <1>p, <3>2
  <2>3. QED
    BY <1>0, <2>1, <2>2 DEF OutPortsOf
<1>6. CASE ResultNotReady \/ CacheItemFails \/ ConnectionUnavailable \/ ProcessFails
  BY <1>6 DEF ResultNotReady, CacheItemFails, ConnectionUnavailable, ProcessFails, End
<1>7. CASE DontExecute \/ CheckConnections \/ Pass \/ Cancel
  <2>1. /\ phase \in {"connect", "visit", "check"} /\ phase' \in {"visit", "check", "ended"}
        /\ UNCHANGED <<state, cache>>
    BY <1>7 DEF DontExecute, CheckConnections, Pass, Cancel, End
  <2>2. outcome = "none"
    BY <2>1 DEF Control
  <2>3. QED
    BY <2>1, <2>2 DEF OutPortsOf
<1>8. CASE Skip \/ ProcessCancelled \/ Wait \/ NextExecution \/ NextStep \/ Finish
  <2>1. \E S \in SUBSET Execs : Schedule(S)
    BY <1>0, <1>8 DEF Skip, ProcessCancelled, Wait, NextExecution, NextStep, Finish,
       FindExecutables
  <2>2. \A e \in Execs : state'[e] = "DONE" <=> state[e] = "DONE"
    BY <2>1, ScheduleMoves DEF Schedule
  <2>3. /\ phase \in {"visit", "check"} /\ phase' \in {"visit", "check", "ended"}
        /\ cache' = cache
    BY <1>8 DEF Skip, ProcessCancelled, Wait, Called, NextExecution, NextStep, Finish,
       FindExecutables, End
  <2>4. outcome = "none"
    BY <2>3 DEF Control
  <2>5. QED
    BY <2>2, <2>3, <2>4 DEF OutPortsOf
<1>9. CASE Stop \/ StopExecution \/ UNCHANGED vars
  BY <1>9 DEF Stop, StopExecution, vars, current, OutPortsOf
<1>10. ASSUME NEW x \in Pg, NEW reply \in {"answered", "error"}, Answer(x, reply)
      PROVE  Saved'
  BY <1>10 DEF Answer, current, OutPortsOf
<1>11. CASE Restart
  BY <1>11 DEF Restart, Unstarted
<1>12. QED
  BY <1>1, <1>a, <1>2, <1>3, <1>4, <1>5, <1>6, <1>7, <1>8, <1>9, <1>10, <1>11
     DEF Next, Process, Visit, Output

\* An execution has an out port.
LEMMA HasOutPort ==
  ASSUME NEW e \in Execs
  PROVE  OutPortsOf(e) # {}
<1>1. OutPorts[e] \in Seq(STRING) /\ OutPorts[e] # <<>>
  BY GraphAssumption
<1>2. OutPorts[e][1] \in Range(OutPorts[e])
  BY <1>1 DEF Range
<1>3. QED
  BY <1>2 DEF OutPortsOf

\* Where the cache grows or changes hands.
LEMMA CacheSteps ==
  ASSUME TypeOK, [Next]_vars
  PROVE  /\ CacheItem \/ UNCHANGED cache
         /\ Restart \/ UNCHANGED opts
         /\ Restart \/ LoadFails \/ UNCHANGED prepared
         /\ Restart \/ LoadFromCache \/ LoadFails \/ phase' = "load" \/ phase # "load"
<1> USE DEF End
<1>a. CASE LoadFails
  BY <1>a DEF LoadFails
<1>1. CASE LoadFromCache \/ ProcessDone \/ Deliver \/ Release \/ Restart \/ CacheItem
  BY <1>1 DEF LoadFromCache, ProcessDone, Called, Deliver, Release, Restart, CacheItem
<1>2. CASE DontExecute \/ CheckConnections \/ ConnectionUnavailable \/ Pass
  BY <1>2 DEF DontExecute, CheckConnections, ConnectionUnavailable, Pass
<1>3. CASE Skip \/ ProcessCancelled \/ Wait \/ ProcessFails
  BY <1>3 DEF Skip, ProcessCancelled, Wait, ProcessFails, Called
<1>4. CASE ResultNotReady \/ CacheItemFails \/ Cancel
  BY <1>4 DEF ResultNotReady, CacheItemFails, Cancel
<1>5. CASE NextExecution \/ NextStep \/ Finish
  BY <1>5 DEF NextExecution, NextStep, Finish, FindExecutables
<1>6. CASE Stop \/ StopExecution \/ UNCHANGED vars
  BY <1>6 DEF Stop, StopExecution, vars
<1>7. ASSUME NEW x \in Pg, NEW reply \in {"answered", "error"}, Answer(x, reply)
      PROVE  UNCHANGED <<cache, opts, prepared, phase>>
  BY <1>7 DEF Answer
<1>8. QED
  BY <1>a, <1>1, <1>2, <1>3, <1>4, <1>5, <1>6, <1>7 DEF Next, Process, Visit, Output

\* Only Restart takes back what is DONE, and only ProcessDone and loading add to it.
LEMMA DoneSteps ==
  ASSUME TypeOK, Control, [Next]_vars, NEW e \in Execs
  PROVE  \/ Restart \/ LoadFromCache \/ LoadFails
         \/ ProcessDone /\ e = current
         \/ state'[e] = "DONE" <=> state[e] = "DONE"
<1>1. CASE ProcessDone
  BY <1>1 DEF ProcessDone, TypeOK
<1>2. CASE Deliver
  BY <1>2, DeliverState
<1>3. CASE Release
  BY <1>3 DEF Release
<1>4. CASE Quiet
  BY <1>4, QuietState
<1>5. QED
  BY <1>1, <1>2, <1>3, <1>4, StepKinds

\* What the cache holds completely is DONE.
LEMMA RecalledNext == TypeOK /\ Control /\ Recalled /\ [Next]_vars => Recalled'
<1> SUFFICES ASSUME TypeOK, Control, Recalled, [Next]_vars,
                    phase' # "load", prepared', ~opts'.disableCache,
                    NEW e \in Execs, OutPortsOf(e) \subseteq cache'
             PROVE  state'[e] = "DONE"
  BY DEF Recalled, OutPortsOf
<1>a. ~LoadFails
  BY LoadFailed
<1>1. CASE LoadFromCache
  BY <1>1 DEF LoadFromCache, Loaded
<1>2. CASE Restart
  BY <1>2 DEF Restart
<1>3. CASE ProcessDone /\ e = current
  BY <1>3 DEF ProcessDone, TypeOK
<1>4. CASE state'[e] = "DONE" <=> state[e] = "DONE"
  <2>1. SUFFICES ASSUME ~Restart, ~LoadFromCache  PROVE state[e] = "DONE"
    BY <1>1, <1>2, <1>4
  <2>2. phase # "load" /\ prepared /\ ~opts.disableCache
    BY <1>a, <2>1, CacheSteps
  <2>3. CASE UNCHANGED cache
    BY <2>2, <2>3 DEF Recalled
  <2>4. CASE CacheItem
    <3>1. state[current] = "DONE" /\ cache' = cache \cup ToSave
      BY <2>4 DEF CacheItem, Control
    <3>2. CASE e = current
      BY <3>1, <3>2
    <3>3. CASE e # current
      <4>1. OutPortsOf(e) \cap ToSave = {}
        BY <3>3 DEF OutPortsOf, ToSave
      <4>2. QED
        BY <2>2, <3>1, <4>1 DEF Recalled
    <3>4. QED
      BY <3>2, <3>3
  <2>5. QED
    BY <2>3, <2>4, CacheSteps
<1>5. QED
  BY <1>a, <1>1, <1>2, <1>3, <1>4, DoneSteps

\* A run ends as finished in Finish only, as cancelled in Cancel and ProcessCancelled.
LEMMA Endings ==
  ASSUME Control, [Next]_vars
  PROVE  /\ outcome' = "finished" => Finish \/ UNCHANGED vars
         /\ outcome' = "cancelled" => Cancel \/ ProcessCancelled \/ UNCHANGED vars
<1> USE DEF Control, End
<1>1. CASE LoadFromCache \/ ProcessDone \/ Deliver \/ Release \/ CacheItem
  BY <1>1 DEF LoadFromCache, ProcessDone, Called, Deliver, Release, CacheItem
<1>2. CASE DontExecute \/ CheckConnections \/ ConnectionUnavailable \/ LoadFails \/ Pass
  BY <1>2 DEF DontExecute, CheckConnections, ConnectionUnavailable, LoadFails, Pass
<1>3. CASE Skip \/ Wait \/ ProcessFails \/ ResultNotReady \/ CacheItemFails
  BY <1>3 DEF Skip, Wait, ProcessFails, ResultNotReady, CacheItemFails, Called
<1>4. CASE NextExecution \/ NextStep
  BY <1>4 DEF NextExecution, NextStep, FindExecutables
<1>5. CASE Stop \/ StopExecution \/ Restart
  BY <1>5 DEF Stop, StopExecution, Restart
<1>6. ASSUME NEW x \in Pg, NEW reply \in {"answered", "error"}, Answer(x, reply)
      PROVE  outcome' \notin {"finished", "cancelled"}
  BY <1>6 DEF Answer
<1>7. CASE Finish \/ Cancel \/ ProcessCancelled
  BY <1>7 DEF Finish, Cancel, ProcessCancelled
<1>8. QED
  BY <1>1, <1>2, <1>3, <1>4, <1>5, <1>6, <1>7 DEF Next, Process, Visit, Output

\* A finished run is complete.
LEMMA FinishedNext ==
  TypeOK /\ Control /\ Tasked /\ Saved /\ FinishedMeansAllDone /\ [Next]_vars
    => FinishedMeansAllDone'
<1> SUFFICES ASSUME TypeOK, Control, Tasked, Saved, FinishedMeansAllDone, [Next]_vars,
                    outcome' = "finished", NEW e \in Execs
             PROVE  /\ state'[e] = "DONE" /\ conn'[e] \in {"none", "closed"}
                    /\ e \notin Resultless => OutPortsOf(e) \subseteq cache'
  BY DEF FinishedMeansAllDone, OutPortsOf
<1>1. CASE Finish
  <2>1. /\ state[e] = "DONE" /\ phase = "check" /\ outcome = "none"
        /\ Schedule(Execs) /\ UNCHANGED <<conn, cache>>
    BY <1>1 DEF Finish, FindExecutables, AllDone, Control
  <2>2. state'[e] = "DONE"
    BY <2>1, ScheduleMoves DEF Schedule
  <2>3. conn[e] \in {"none", "closed"}
    BY <2>1 DEF Tasked, TypeOK, ConnStates
  <2>4. e \notin Resultless => OutPortsOf(e) \subseteq cache
    BY <2>1 DEF Saved
  <2>5. QED
    BY <2>1, <2>2, <2>3, <2>4
<1>2. CASE UNCHANGED vars
  BY <1>2 DEF vars, FinishedMeansAllDone
<1>3. QED
  BY <1>1, <1>2, Endings

\* A cancelled run holds no connection.
LEMMA CancelNext ==
  TypeOK /\ Control /\ CancelClosesConnections /\ [Next]_vars => CancelClosesConnections'
<1> SUFFICES ASSUME TypeOK, Control, CancelClosesConnections, [Next]_vars,
                    outcome' = "cancelled", NEW e \in Execs
             PROVE  conn'[e] \in {"none", "closed"}
  BY DEF CancelClosesConnections
<1>1. CASE Cancel \/ ProcessCancelled
  BY <1>1 DEF Cancel, ProcessCancelled, CleanUp, TypeOK, ConnStates
<1>2. CASE UNCHANGED vars
  BY <1>2 DEF vars, CancelClosesConnections
<1>3. QED
  BY <1>1, <1>2, Endings

-----------------------------------------------------------------------------
\* The invariant holds when the program starts.
LEMMA IInit == Init => IInv
<1> SUFFICES ASSUME Init PROVE IInv
  OBVIOUS
<1>1. TypeOK
  BY TypeInit
<1>2. \A e \in Execs : /\ state[e] \in {"INITIAL", "COMPLETE"}
                       /\ state[e] = "COMPLETE" => InPorts[e] = {}
  BY DEF Init, Unstarted
<1>3. Control /\ ChannelUsedOnce /\ FinishedMeansAllDone /\ CancelClosesConnections
  BY DEF Init, Control, ChannelUsedOnce, FinishedMeansAllDone, CancelClosesConnections
<1>4. InputsHeld
  BY <1>2 DEF InputsHeld, Eligible, InPortsOf
<1>5. Fed /\ Used /\ Delivered
  BY DEF Init, Fed, Used, Delivered
<1>6. Tasked
  BY <1>2 DEF Init, Tasked
<1>7. Saved
  BY <1>2 DEF Init, Saved
<1>8. Recalled
  BY DEF Init, Recalled
<1>9. QED
  BY <1>1, <1>3, <1>4, <1>5, <1>6, <1>7, <1>8 DEF IInv

\* Every step keeps the invariant.
LEMMA INext == IInv /\ [Next]_vars => IInv'
BY TypeNext, ControlNext, InputsHeldNext, FedNext, UsedNext, DeliveredNext, TaskedNext,
   SavedNext, RecalledNext, ChannelUsedOnceNext, FinishedNext, CancelNext DEF IInv

\* Every reachable state satisfies the inductive invariant.
THEOREM Inductive == Spec => []IInv
BY IInit, INext, PTL DEF Spec

\* step() and findExecutables() schedule an execution, and process() runs it, only while
\* every table it reads is in its in ports.
THEOREM InputsAreHeld == Spec => []InputsHeld
<1>1. IInv => InputsHeld
  BY DEF IInv
<1>2. QED
  BY <1>1, Inductive, PTL

\* Whatever the order of deliveries, an execution gets one task per run.
THEOREM QueriesAreSentOnce == Spec => []QueriedOnce
<1>1. IInv => QueriedOnce
  BY DEF IInv, Tasked, QueriedOnce
<1>2. QED
  BY <1>1, Inductive, PTL

\* outputResult() never opens a channel that was used before.
THEOREM ChannelsAreUsedOnce == Spec => []ChannelUsedOnce
<1>1. IInv => ChannelUsedOnce
  BY DEF IInv
<1>2. QED
  BY <1>1, Inductive, PTL

\* No table is released before every execution that waits for it holds it, and what a failed
\* load has read and not sent is not forgotten either.
THEOREM ResultsAreDelivered == Spec => []DeliveredWhenReleased
<1>1. IInv => DeliveredWhenReleased
  BY DEF IInv, Delivered, DeliveredWhenReleased
<1>2. QED
  BY <1>1, Inductive, PTL

\* process() returns normally only when all executions are DONE and all results cached.
THEOREM FinishedIsComplete == Spec => []FinishedMeansAllDone
<1>1. IInv => FinishedMeansAllDone
  BY DEF IInv
<1>2. QED
  BY <1>1, Inductive, PTL

\* stop() leaves no query running on a server once the run is over.
THEOREM CancelIsClean == Spec => []CancelClosesConnections
<1>1. IInv => CancelClosesConnections
  BY DEF IInv
<1>2. QED
  BY <1>1, Inductive, PTL

\* Connections are opened in Wait only.
LEMMA Opening ==
  ASSUME TypeOK, [Next]_vars, NEW e \in Execs, conn'[e] = "open", conn[e] = "none"
  PROVE  Wait /\ e = current
<1> USE DEF TypeOK, End
<1>0. UNCHANGED conn => FALSE
  OBVIOUS
<1>1. CASE \/ LoadFromCache \/ Deliver \/ Release \/ CacheItem \/ DontExecute
           \/ CheckConnections \/ ConnectionUnavailable \/ LoadFails \/ Pass \/ Skip \/ ResultNotReady
           \/ CacheItemFails \/ NextExecution \/ NextStep \/ Finish
           \/ Stop \/ StopExecution \/ UNCHANGED vars
  BY <1>0, <1>1 DEF LoadFromCache, Deliver, Release, CacheItem, DontExecute,
     CheckConnections, ConnectionUnavailable, LoadFails, Pass, Skip, ResultNotReady, CacheItemFails,
     NextExecution, NextStep, Finish, FindExecutables, Stop, StopExecution, vars
<1>2. CASE ProcessDone \/ ProcessFails
  BY <1>2 DEF ProcessDone, ProcessFails
<1>3. CASE Cancel \/ ProcessCancelled
  BY <1>3 DEF Cancel, ProcessCancelled, CleanUp
<1>4. CASE Restart
  BY <1>4 DEF Restart
<1>5. CASE Wait
  BY <1>5 DEF Wait
<1>6. ASSUME NEW x \in Pg, NEW reply \in {"answered", "error"}, Answer(x, reply)
      PROVE  FALSE
  BY <1>6 DEF Answer
<1>7. QED
  BY <1>1, <1>2, <1>3, <1>4, <1>5, <1>6 DEF Next, Process, Visit, Output

\* No connection is opened for a query whose results are all in the cache, in a run whose
\* prepare() has not thrown; bootstrap() may have caught an exception in the others.
THEOREM CachedQueriesRest == Spec => CachedNotQueried
<1>1. IInv /\ [Next]_vars =>
        [\A e \in Execs : conn'[e] = "open" /\ conn[e] = "none" =>
           opts.disableCache \/ ~prepared \/ ~(OutPortsOf(e) \subseteq cache)]_vars
  <2> SUFFICES ASSUME IInv, [Next]_vars, NEW e \in Execs,
                      conn'[e] = "open", conn[e] = "none",
                      ~opts.disableCache, prepared, OutPortsOf(e) \subseteq cache
               PROVE  FALSE
    OBVIOUS
  <2>1. Wait /\ e = current
    BY Opening DEF IInv
  <2>2. phase = "visit" /\ Eligible(e)
    BY <2>1 DEF Wait, Called
  <2>3. QED
    BY <2>2 DEF IInv, Control, Recalled, Eligible
<1>2. QED
  BY <1>1, Inductive, PTL DEF Spec, CachedNotQueried

-----------------------------------------------------------------------------
(***************************************************************************)
(* QueryProcessor implements Dataflow: every step of the loop, a client, a *)
(* database or a restart is one step of the promise, or changes neither    *)
(* what is done, nor the cache, nor the verdict.                           *)
(***************************************************************************)
USE DEF option, loop, graph, server, client

done == {e \in Execs : state[e] = "DONE"}

\* The operators of Dataflow on ports are those of the processor.
LEMMA SamePorts ==
  /\ \A e \in Execs : Promise!OutPortsOf(e) = OutPortsOf(e)
  /\ \A e \in Execs : Promise!InPortsOf(e) = InPortsOf(e)
  /\ \A c \in Channels : Promise!TargetPort(c) = TargetPort(c)
  /\ Promise!OutPort = OutPort
BY DEF Promise!OutPortsOf, OutPortsOf, Promise!Range, Range, Promise!InPortsOf, InPortsOf,
       Promise!TargetPort, TargetPort, Promise!OutPort, OutPort

\* The processor starts where the promise starts.
LEMMA InitMaps == Init => Promise!Init
BY SamePorts DEF Init, Promise!Init, Unstarted

\* loadFromCache() recalls what an earlier run saved, or nothing with the cache disabled.
LEMMA LoadMaps ==
  ASSUME TypeOK, Control, LoadFromCache
  PROVE  Promise!Recall \/ UNCHANGED Promise!vars
<1>1. done = {}
  BY DEF LoadFromCache, Control, Unstarted, done
<1>2. UNCHANGED <<cache, outcome>> /\ outcome = "none"
  BY DEF LoadFromCache, Control
<1>3. done' = {e \in Execs : OutPortsOf(e) \subseteq
                 IF opts.disableCache THEN {} ELSE cache}
  BY <1>1 DEF LoadFromCache, Loaded, Control, Unstarted, done
<1>4. CASE opts.disableCache
  <2>1. done' = {}
    BY <1>3, <1>4, HasOutPort
  <2>2. QED
    BY <1>1, <1>2, <2>1 DEF done, Promise!vars
<1>5. CASE ~opts.disableCache
  BY <1>1, <1>2, <1>3, <1>5, SamePorts DEF done, Promise!Recall
<1>6. QED
  BY <1>4, <1>5

\* A load that fails recalls some of what an earlier run saved.
LEMMA LoadFailMaps ==
  ASSUME TypeOK, Control, LoadFails
  PROVE  Promise!Recall
<1>1. done = {} /\ outcome = "none" /\ UNCHANGED <<cache, outcome>>
  BY LoadFailed DEF done
<1>2. done' \in SUBSET {e \in Execs : OutPortsOf(e) \subseteq cache}
  BY LoadFailed DEF done
<1>3. QED
  BY <1>1, <1>2, SamePorts DEF done, Promise!Recall

\* process() that returns true produces the result of an execution that was ready.
LEMMA ProduceMaps ==
  ASSUME TypeOK, Control, InputsHeld, Fed, ProcessDone
  PROVE  \E e \in Execs : Promise!Produce(e)
<1>0. current \in Execs
  BY CurrentInGraph
<1>1. /\ Eligible(current) /\ outcome = "none" /\ UNCHANGED <<cache, outcome>>
      /\ done' = done \cup {current} /\ current \notin done
  BY <1>0 DEF ProcessDone, Called, Control, Eligible, done, TypeOK
<1>2. ASSUME NEW p \in InPortsOf(current)
      PROVE  \E c \in Channels : TargetPort(c) = p /\ c.source \in done
  BY <1>0, <1>1, ChannelEnds DEF InputsHeld, Fed, done
<1>3. PICK e \in Execs : e = current
  BY <1>0
<1>4. Promise!Ready(e)
  BY <1>2, <1>3, SamePorts DEF Promise!Ready, done
<1>5. Promise!Produce(e)
  BY <1>1, <1>3, <1>4 DEF Promise!Produce, done
<1>6. QED
  BY <1>5

\* cacheItem() saves a result of an execution that is DONE.
LEMMA SaveMaps ==
  ASSUME TypeOK, Control, CacheItem
  PROVE  \E e \in Execs : Promise!Save(e)
<1>0. current \in Execs /\ current \in done /\ outcome = "none"
      /\ UNCHANGED <<state, outcome>>
  BY CurrentInGraph DEF CacheItem, Control, done
<1>1. PICK p \in OutPortsOf(current) : cache' = cache \cup {p}
  <2>1. saving \in Nat \ {0} /\ saving <= Len(OutPorts[current])
        /\ ToSave = {<<current, OutPorts[current][saving]>>}
        /\ cache' = cache \cup ToSave
    BY DEF CacheItem, ToSave, TypeOK
  <2>2. OutPorts[current] \in Seq(STRING)
    BY <1>0, GraphAssumption
  <2>3. saving \in DOMAIN OutPorts[current]
    BY <2>1, <2>2
  <2>4. OutPorts[current][saving] \in Range(OutPorts[current])
    BY <2>3 DEF Range
  <2>5. <<current, OutPorts[current][saving]>> \in OutPortsOf(current)
    BY <2>4 DEF OutPortsOf
  <2>6. QED
    BY <2>1, <2>5
<1>2. PICK e \in Execs : e = current
  BY <1>0
<1>3. Promise!Save(e)
  BY <1>0, <1>1, <1>2, SamePorts DEF Promise!Save, done
<1>4. QED
  BY <1>3

\* A run ends in one of the ways the promise allows, finished only when all is done.
LEMMA EndMaps ==
  ASSUME TypeOK, Control, ChannelUsedOnce', [Next]_vars, ~Restart, outcome' # outcome
  PROVE  Promise!End
<1> USE DEF End
<1>1. CASE DontExecute \/ ConnectionUnavailable \/ ResultNotReady \/ CacheItemFails \/ Cancel
  <2>1. /\ outcome = "none" /\ UNCHANGED <<state, cache>>
        /\ outcome' \in {"dry", "cancelled", "failed"}
    BY <1>1 DEF DontExecute, ConnectionUnavailable, ResultNotReady, CacheItemFails, Cancel,
       Control
  <2>2. QED
    BY <2>1 DEF Promise!End, done
<1>2. CASE ProcessCancelled \/ ProcessFails
  <2>1. /\ outcome = "none" /\ UNCHANGED cache /\ Schedule({current})
        /\ outcome' \in {"cancelled", "failed"}
    BY <1>2 DEF ProcessCancelled, ProcessFails, Called, Control
  <2>2. done' = done
    BY <2>1, ScheduleMoves, CurrentInGraph DEF Schedule, done
  <2>3. QED
    BY <2>1, <2>2 DEF Promise!End, done
<1>3. CASE Finish
  <2>1. /\ outcome = "none" /\ outcome' = "finished" /\ UNCHANGED cache
        /\ Schedule(Execs) /\ done = Execs
    BY <1>3 DEF Finish, FindExecutables, AllDone, Control, done
  <2>2. done' = done
    BY <2>1, ScheduleMoves DEF Schedule, done
  <2>3. QED
    BY <2>1, <2>2 DEF Promise!End, done
<1>4. CASE Deliver
  BY <1>4 DEF Deliver, Control, ChannelUsedOnce
<1>5. CASE LoadFromCache \/ LoadFails \/ CheckConnections \/ Pass \/ Skip \/ Wait \/ ProcessDone
  BY <1>5 DEF LoadFromCache, LoadFails, CheckConnections, Pass, Skip, Wait, ProcessDone
<1>6. CASE CacheItem \/ Release \/ NextExecution \/ NextStep
  BY <1>6 DEF CacheItem, Release, NextExecution, NextStep
<1>7. CASE Stop \/ StopExecution \/ UNCHANGED vars
  BY <1>7 DEF Stop, StopExecution, vars
<1>8. ASSUME NEW x \in Pg, NEW reply \in {"answered", "error"}, Answer(x, reply)
      PROVE  FALSE
  BY <1>8 DEF Answer
<1>9. QED
  BY <1>1, <1>2, <1>3, <1>4, <1>5, <1>6, <1>7, <1>8 DEF Next, Process, Visit, Output

\* A step of the processor is a step of the promise.
LEMMA StepMaps ==
  ASSUME IInv, IInv', [Next]_vars
  PROVE  [Promise!Next]_(Promise!vars)
<1> USE DEF IInv
<1>1. CASE LoadFromCache
  BY <1>1, LoadMaps DEF Promise!Next
<1>a. CASE LoadFails
  BY <1>a, LoadFailMaps DEF Promise!Next
<1>2. CASE ProcessDone
  <2>1. \E e \in Execs : Promise!Produce(e)
    BY <1>2, ProduceMaps
  <2>2. QED
    BY <2>1 DEF Promise!Next
<1>3. CASE CacheItem
  <2>1. \E e \in Execs : Promise!Save(e)
    BY <1>3, SaveMaps
  <2>2. QED
    BY <2>1 DEF Promise!Next
<1>4. CASE Restart
  <2>1. done' = {} /\ outcome' = "none" /\ UNCHANGED cache
    BY <1>4 DEF Restart, Unstarted, done
  <2>2. QED
    BY <2>1 DEF Promise!Restart, Promise!Next, done
<1>5. CASE outcome' # outcome /\ ~Restart
  BY <1>5, EndMaps DEF Promise!Next
<1>6. CASE /\ outcome' = outcome
           /\ ~LoadFromCache /\ ~LoadFails /\ ~ProcessDone /\ ~CacheItem /\ ~Restart
  <2>1. cache' = cache
    BY <1>6, CacheSteps
  <2>2. done' = done
    BY <1>6, DoneSteps DEF done
  <2>3. QED
    BY <1>6, <2>1, <2>2 DEF Promise!vars, done
<1>7. QED
  BY <1>1, <1>a, <1>2, <1>3, <1>4, <1>5, <1>6

\* Whatever graph, order, limit and interleaving with stop() and the databases: a run
\* produces each result once, from results, and reports finished only when all is done.
THEOREM PromiseIsKept == Spec => KeepsPromise
BY InitMaps, StepMaps, Inductive, PTL DEF Spec, KeepsPromise, Promise!Spec
=============================================================================
