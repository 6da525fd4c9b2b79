--------------------------- MODULE QueryProcessor ---------------------------
(***************************************************************************)
(* QueryProcessor executes the graph: it loads cached results, then steps  *)
(* over all executions in a fixed order again and again, scheduling those  *)
(* whose tables have arrived, polling those that run, and passing the      *)
(* result of one that completes through its channels, into the cache and   *)
(* out of memory.  Beside it act the databases, which answer when they     *)
(* like, and a client that may call stop() from another thread.            *)
(*                                                                         *)
(* The loop is cut where another thread, or a crash, can tell: one action  *)
(* per visit of an execution, per delivery, per cached port and per check  *)
(* of the stop flag.                                                       *)
(***************************************************************************)
EXTENDS ExecutionGraph

CONSTANTS
  Pg,            \* executions run by a database server; the others (resources
                 \* and transitions) complete within one call of process()
  Resultless,    \* Pg executions whose query may yield no table
  MaxParallel,   \* maxParallelExecutions
  Orders,        \* the orders std::set<QueryExecution*> may iterate in
  Options,       \* the command line switches: [disableCache, dontExecute]
  MaxRuns        \* bound on starts of the program

ASSUME ProcessorAssumption ==
  /\ Pg \subseteq Execs /\ Resultless \subseteq Pg
  /\ MaxParallel \in Nat /\ MaxRuns \in Nat
  /\ \A o \in Orders : o \in Seq(Execs) /\ o # <<>> /\ Range(o) = Execs
  /\ Options \subseteq [disableCache : BOOLEAN, dontExecute : BOOLEAN]

VARIABLES
  runs,        \* how often the program was started
  opts, order, \* fixed during a run
  prepared,    \* of this run: prepare() has not thrown (nothing in the code says so
               \* once bootstrap() has caught the exception)
  phase, at,   \* where the loop is: visiting, ... the at-th execution
  saving,      \* the out port that cacheItem looks at
  state,       \* QueryExecution::state
  outFull, inFull,  \* the ports that hold a table
  channel,     \* Channel::state
  running,     \* runningQueries of the current step()
  tasks,       \* the tasks queued in the AsyncQueryExecutor of each execution
  conn,        \* the connection of that task, as far as process() can tell
  stopped, stopAt, cancelReq,  \* stop(): its flag, its progress, the flags
                               \* cancelRequest it has set
  outcome,     \* how process() ended
  cache        \* the out ports whose table is on disk

option == <<runs, opts, order, prepared>>
loop == <<phase, at, saving, running, outcome>>
graph == <<state, outFull, inFull, channel>>
server == <<tasks, conn>>
client == <<stopped, stopAt, cancelReq>>
vars == <<option, loop, graph, server, client, cache>>

States == {"INITIAL", "COMPLETE", "SCHEDULED", "DONE"}
Phases == {"load", "connect", "visit", "output", "cache", "check", "ended"}
Outcomes == {"none", "finished", "dry", "cancelled", "failed", "broken"}
ConnStates == {"none", "open", "answered", "error", "closed"}

TypeOK ==
  /\ runs \in Nat /\ opts \in Options /\ order \in Orders /\ prepared \in BOOLEAN
  /\ phase \in Phases /\ at \in DOMAIN order /\ saving \in Nat \ {0}
  /\ state \in [Execs -> States]
  /\ outFull \subseteq OutPort /\ inFull \subseteq InPort
  /\ channel \in [Channels -> {"READY", "CLOSED"}]
  /\ running \subseteq Execs
  /\ tasks \in [Execs -> Nat] /\ conn \in [Execs -> ConnStates]
  /\ stopped \in BOOLEAN /\ stopAt \in Nat \ {0} /\ cancelReq \subseteq Execs
  /\ outcome \in Outcomes
  /\ cache \subseteq OutPort

-----------------------------------------------------------------------------
\* The execution the loop is at.
current == order[at]

\* The executions as init() leaves them.
Unstarted == [e \in Execs |-> IF InPorts[e] = {} THEN "COMPLETE" ELSE "INITIAL"]

Init ==
  /\ runs = 1 /\ opts \in Options /\ order \in Orders /\ prepared = TRUE
  /\ phase = "load" /\ at = 1 /\ saving = 1 /\ running = {} /\ outcome = "none"
  /\ state = Unstarted /\ outFull = {} /\ inFull = {}
  /\ channel = [c \in Channels |-> "READY"]
  /\ tasks = [e \in Execs |-> 0] /\ conn = [e \in Execs |-> "none"]
  /\ stopped = FALSE /\ stopAt = 1 /\ cancelReq = {}
  /\ cache \in SUBSET OutPort

\* The process ends, by itself or in a crash, and is started again.
Restart ==
  /\ runs < MaxRuns
  /\ runs' = runs + 1 /\ opts' \in Options /\ order' \in Orders /\ prepared' = TRUE
  /\ phase' = "load" /\ at' = 1 /\ saving' = 1 /\ running' = {} /\ outcome' = "none"
  /\ state' = Unstarted /\ outFull' = {} /\ inFull' = {}
  /\ channel' = [c \in Channels |-> "READY"]
  /\ tasks' = [e \in Execs |-> 0] /\ conn' = [e \in Execs |-> "none"]
  /\ stopped' = FALSE /\ stopAt' = 1 /\ cancelReq' = {}
  /\ UNCHANGED cache

End(result) == phase' = "ended" /\ outcome' = result

-----------------------------------------------------------------------------
(***************************************************************************)
(* Sending along the channels cs: each target stores the table and becomes *)
(* COMPLETE when all its in ports hold one, whatever state it was in.  The *)
(* channels are opened, used and closed.  A release empties all ports.     *)
(***************************************************************************)
ReceivedFrom(cs) == {TargetPort(c) : c \in cs}

\* Mutant: one table is enough to become COMPLETE.
CompletedByAny(cs) ==
  {e \in {c.target : c \in cs} : InPortsOf(e) \cap (inFull \cup ReceivedFrom(cs)) # {}}

Completed(cs) ==
  {e \in {c.target : c \in cs} : InPortsOf(e) \subseteq inFull \cup ReceivedFrom(cs)}

\* Mutants: a result is sent to executions that have run too, or from one port only.
OpenToDone(e) == {c \in Channels : c.source = e}
OpenFirstPort(e) ==
  {c \in Channels : c.source = e /\ c.sport = OutPorts[e][1] /\ state[c.target] # "DONE"}

Open(e) == {c \in Channels : c.source = e /\ state[c.target] # "DONE"}

Closed(cs) == [c \in Channels |-> IF c \in cs THEN "CLOSED" ELSE channel[c]]

\* The executions that have all their results when the tables in hit are read.
Loaded(hit) == {e \in Execs : OutPortsOf(e) \subseteq hit}

LoadFromCache ==
  LET hit    == IF opts.disableCache THEN {} ELSE cache
      loaded == Loaded(hit)
      sent   == {c \in Channels : c.source \in loaded /\ c.target \notin loaded}
  IN  /\ phase = "load"
      /\ state' = [e \in Execs |-> IF e \in loaded THEN "DONE"
                                   ELSE IF e \in Completed(sent) THEN "COMPLETE"
                                   ELSE state[e]]
      /\ outFull' = hit \ UNION {OutPortsOf(e) : e \in loaded}
      /\ inFull' = inFull \cup ReceivedFrom(sent)
      /\ channel' = Closed(sent)
      /\ phase' = "connect"
      /\ UNCHANGED <<option, at, saving, running, outcome, server, client, cache>>

\* The ports before the k-th of the i-th execution.
PortsBefore(i, k) ==
  UNION {OutPortsOf(order[m]) : m \in 1..(i - 1)}
    \cup {<<order[i], OutPorts[order[i]][l]>> : l \in 1..(k - 1)}

(***************************************************************************)
(* A cached table cannot be read, or it is read and cannot be linked:      *)
(* prepare() throws where it is, with nothing sent and nothing released.   *)
(* bootstrap() catches the exception, and run() goes on with the graph as  *)
(* it was left.                                                            *)
(***************************************************************************)
LoadFails ==
  \E i \in DOMAIN order : \E k \in DOMAIN OutPorts[order[i]] :
    LET port == <<order[i], OutPorts[order[i]][k]>>
    IN  /\ phase = "load" /\ ~opts.disableCache /\ port \in cache
        /\ outFull' \in {PortsBefore(i, k) \cap cache,
                         (PortsBefore(i, k) \cup {port}) \cap cache}
        /\ state' = [e \in Execs |-> IF e \in Loaded(outFull') THEN "DONE" ELSE state[e]]
        /\ prepared' = FALSE /\ phase' = "connect"
        /\ UNCHANGED <<runs, opts, order, at, saving, running, outcome, inFull, channel,
                       server, client, cache>>

-----------------------------------------------------------------------------
(***************************************************************************)
(* process(): a dry run ends at once; otherwise every database that is     *)
(* still needed is pinged, and the steps begin.                            *)
(***************************************************************************)
DontExecute ==
  /\ phase = "connect" /\ opts.dontExecute
  /\ End("dry")
  /\ UNCHANGED <<option, at, saving, running, graph, server, client, cache>>

CheckConnections ==
  /\ phase = "connect" /\ ~opts.dontExecute
  /\ phase' = "visit"
  /\ UNCHANGED <<option, at, saving, running, outcome, graph, server, client, cache>>

ConnectionUnavailable ==
  /\ phase = "connect" /\ ~opts.dontExecute
  /\ \E e \in Pg : state[e] # "DONE"
  /\ End("failed")
  /\ UNCHANGED <<option, at, saving, running, graph, server, client, cache>>

-----------------------------------------------------------------------------
(***************************************************************************)
(* One iteration of step().                                                *)
(***************************************************************************)
\* Mutant: what is SCHEDULED is scheduled again.
FreshAgain(S) == {e \in S : state[e] \in {"COMPLETE", "SCHEDULED"}}

\* schedule() of those among S that are COMPLETE; it queues a task for a database.
Fresh(S) == {e \in S : state[e] = "COMPLETE"}
Scheduled(S) == [e \in Execs |-> IF e \in Fresh(S) THEN "SCHEDULED" ELSE state[e]]
Queued(S) == [e \in Execs |-> IF e \in Fresh(S) \cap Pg THEN tasks[e] + 1 ELSE tasks[e]]
Schedule(S) == state' = Scheduled(S) /\ tasks' = Queued(S)

\* Mutant: what is SCHEDULED is not polled.
EligibleOnce(e) == state[e] = "COMPLETE"

Eligible(e) == state[e] \in {"COMPLETE", "SCHEDULED"}

\* Neither ready nor still to run.
Pass ==
  /\ phase = "visit" /\ ~Eligible(current)
  /\ phase' = "check"
  /\ UNCHANGED <<option, at, saving, running, outcome, graph, server, client, cache>>

\* Scheduled, but maxParallelExecutions others run in this step.
Skip ==
  /\ phase = "visit" /\ Eligible(current)
  /\ Cardinality(running) >= MaxParallel
  /\ Schedule({current})
  /\ phase' = "check"
  /\ UNCHANGED <<option, at, saving, running, outcome, outFull, inFull, channel,
                 conn, client, cache>>

\* There is room to call process(), and stop() has not told the execution yet.
Called ==
  /\ phase = "visit" /\ Eligible(current)
  /\ Cardinality(running) < MaxParallel
  /\ current \notin cancelReq

\* Mutant: only the execution that the loop is at is cleaned up.
CleanUpCurrent == [conn EXCEPT ![current] =
                     IF @ \in {"open", "answered", "error"} THEN "closed" ELSE @]

\* cleanUp(): every connection in use is cancelled and given back.
CleanUp == [e \in Execs |-> IF conn[e] \in {"open", "answered", "error"}
                            THEN "closed" ELSE conn[e]]

\* process() of a database execution finds the flag that stop() has set.
ProcessCancelled ==
  /\ phase = "visit" /\ Eligible(current)
  /\ Cardinality(running) < MaxParallel
  /\ current \in cancelReq
  /\ Schedule({current})
  /\ conn' = CleanUp
  /\ End("cancelled")
  /\ UNCHANGED <<option, at, saving, running, outFull, inFull, channel, client, cache>>

\* process() connects, or polls a query that has no answer: it returns false.
Wait ==
  /\ Called /\ current \in Pg /\ conn[current] \in {"none", "open"}
  /\ Schedule({current})
  /\ conn' = [conn EXCEPT ![current] = "open"]
  /\ running' = running \cup {current}
  /\ phase' = "check"
  /\ UNCHANGED <<option, at, saving, outcome, outFull, inFull, channel, client, cache>>

\* No connection can be made (a refusal shows as an error later), the query has failed,
\* the transition cannot place a row, the resource cannot be read; only the connection
\* of this query is closed.
ProcessFails ==
  /\ Called /\ (current \in Pg => conn[current] \in {"none", "error"})
  /\ Schedule({current})
  /\ conn' = [conn EXCEPT ![current] = IF @ = "error" THEN "closed" ELSE @]
  /\ End("failed")
  /\ UNCHANGED <<option, at, saving, running, outFull, inFull, channel, client, cache>>

\* process() sets all results and the state DONE, and returns true.  A query has no result
\* in a run in which its file names the injector worker.
ProcessDone ==
  /\ Called /\ (current \in Pg => conn[current] = "answered")
  /\ tasks' = Queued({current})
  /\ state' = [state EXCEPT ![current] = "DONE"]
  /\ conn' = [conn EXCEPT ![current] = IF @ = "answered" THEN "closed" ELSE @]
  /\ \/ outFull' = outFull \cup OutPortsOf(current)
     \/ current \in Resultless /\ UNCHANGED outFull
  /\ phase' = "output"
  /\ UNCHANGED <<option, at, saving, running, outcome, inFull, channel, client, cache>>

-----------------------------------------------------------------------------
(***************************************************************************)
(* outputResult(): every channel needs a result, and those to executions   *)
(* that are not done must not have been used.                              *)
(***************************************************************************)
ResultReady == \A c \in Channels : c.source = current => SourcePort(c) \in outFull

Deliver ==
  LET cs == Open(current)
      ok == \A c \in cs : channel[c] = "READY"   \* or Channel::open throws
  IN  /\ phase = "output" /\ ResultReady
      /\ inFull' = inFull \cup ReceivedFrom(cs)
      /\ state' = [e \in Execs |-> IF e \in Completed(cs) THEN "COMPLETE" ELSE state[e]]
      /\ channel' = Closed(cs)
      /\ phase' = (IF ok THEN "cache" ELSE "ended") /\ saving' = 1
      /\ outcome' = IF ok THEN "none" ELSE "broken"
      /\ UNCHANGED <<option, at, running, outFull, server, client, cache>>

ResultNotReady ==
  /\ phase = "output" /\ ~ResultReady
  /\ End("failed")
  /\ UNCHANGED <<option, at, saving, running, graph, server, client, cache>>

\* Mutant: only the first port is saved.
ToSaveFirst == IF saving = 1 THEN {<<current, OutPorts[current][1]>>} \cap outFull ELSE {}

\* cacheItem() writes port after port, up to the first one without a result; it
\* fails when a file cannot be written, or linked after it was written.
ToSave == IF saving <= Len(OutPorts[current])
          THEN {<<current, OutPorts[current][saving]>>} \cap outFull
          ELSE {}

CacheItem ==
  /\ phase = "cache" /\ ToSave # {}
  /\ cache' = cache \cup ToSave
  /\ saving' = saving + 1
  /\ UNCHANGED <<option, phase, at, running, outcome, graph, server, client>>

CacheItemFails ==
  /\ phase = "cache" /\ (ToSave # {} \/ saving > 1)
  /\ End("failed")
  /\ UNCHANGED <<option, at, saving, running, graph, server, client, cache>>

Release ==
  /\ phase = "cache" /\ ToSave = {}
  /\ outFull' = outFull \ OutPortsOf(current)
  /\ inFull' = inFull \ InPortsOf(current)
  /\ phase' = "check"
  /\ UNCHANGED <<option, at, saving, running, outcome, state, channel, server, client,
                 cache>>

-----------------------------------------------------------------------------
(***************************************************************************)
(* The end of an iteration: the stop flag, then findExecutables(), then    *)
(* the next execution, the next step, or the end.                          *)
(***************************************************************************)
\* Mutant: done is what the last execution visited says.
LastDone == state[current] = "DONE"

AllDone == \A e \in Execs : state[e] = "DONE"

Cancel ==
  /\ phase = "check" /\ stopped
  /\ conn' = CleanUp
  /\ End("cancelled")
  /\ UNCHANGED <<option, at, saving, running, graph, tasks, client, cache>>

\* Mutants: the stop flag is not looked at; the last index is Len(order) + 1.
FindAlways == phase = "check" /\ Schedule(Execs)
MoreOrEqual == at <= Len(order)

FindExecutables ==
  /\ phase = "check" /\ ~stopped
  /\ Schedule(Execs)

More == at < Len(order)

NextExecution ==
  /\ FindExecutables /\ More
  /\ at' = at + 1 /\ phase' = "visit"
  /\ UNCHANGED <<option, saving, running, outcome, outFull, inFull, channel, conn,
                 client, cache>>

NextStep ==
  /\ FindExecutables /\ ~More /\ ~AllDone
  /\ at' = 1 /\ running' = {} /\ phase' = "visit"
  /\ UNCHANGED <<option, saving, outcome, outFull, inFull, channel, conn, client, cache>>

Finish ==
  /\ FindExecutables /\ ~More /\ AllDone
  /\ End("finished")
  /\ UNCHANGED <<option, at, saving, running, outFull, inFull, channel, conn, client,
                 cache>>

-----------------------------------------------------------------------------
(***************************************************************************)
(* The client: stop() sets the flag of the loop, then the flag of one      *)
(* database execution after the other.                                     *)
(***************************************************************************)
Stop ==
  /\ phase \notin {"load", "ended"} /\ ~stopped
  /\ stopped' = TRUE
  /\ UNCHANGED <<option, loop, graph, server, stopAt, cancelReq, cache>>

StopExecution ==
  /\ phase # "ended" /\ stopped /\ stopAt <= Len(order)
  /\ cancelReq' = cancelReq \cup ({order[stopAt]} \cap Pg)
  /\ stopAt' = stopAt + 1
  /\ UNCHANGED <<option, loop, graph, server, stopped, cache>>

\* The database: the query of e has its result, or has failed; a result that was not
\* read yet can be lost with the connection.
Answer(e, reply) ==
  /\ phase # "ended"
  /\ conn[e] = "open" \/ (conn[e] = "answered" /\ reply = "error")
  /\ conn' = [conn EXCEPT ![e] = reply]
  /\ UNCHANGED <<option, loop, graph, tasks, client, cache>>

-----------------------------------------------------------------------------
Visit == Pass \/ Skip \/ ProcessCancelled \/ Wait \/ ProcessFails \/ ProcessDone

Output == Deliver \/ ResultNotReady \/ CacheItem \/ CacheItemFails \/ Release

Process == LoadFromCache \/ LoadFails
             \/ DontExecute \/ CheckConnections \/ ConnectionUnavailable
             \/ Visit \/ Output \/ Cancel \/ NextExecution \/ NextStep \/ Finish

Next ==
  \/ Process
  \/ Stop \/ StopExecution
  \/ \E e \in Pg, reply \in {"answered", "error"} : Answer(e, reply)
  \/ Restart

Spec == Init /\ [][Next]_vars

(***************************************************************************)
(* The thread that runs the loop keeps running.  A server has to end a     *)
(* query only when it was told a timeout, and populateUrls2() tells none.  *)
(* Neither a stop nor a restart has to come.                               *)
(***************************************************************************)
UrlParameters == {}

FairLoop == Spec /\ WF_vars(Process)
FairServers ==
  "statementTimeout" \in UrlParameters =>
    \A e \in Pg : WF_vars(\E reply \in {"answered", "error"} : Answer(e, reply))
FairSpec == FairLoop /\ FairServers

-----------------------------------------------------------------------------
(***************************************************************************)
(* What must hold in every state.                                          *)
(***************************************************************************)
\* An execution is scheduled or run only while every table its query reads is in its
\* in ports: schedule() injects them, and transitions read them in process().
InputsHeld ==
  \A e \in Execs : Eligible(e) => InPortsOf(e) \subseteq inFull

\* No execution is handed to its database twice in a run, although both step() and
\* findExecutables() schedule, and every delivery may make an execution COMPLETE.
QueriedOnce == \A e \in Execs : tasks[e] <= 1

\* A channel is used once: outputResult() never meets one that loadFromCache() or an
\* earlier delivery has closed, so Channel::open does not throw.
ChannelUsedOnce == outcome # "broken"

\* release() forgets a result only when every execution that still waits for it has
\* it: a table is not lost between outputResult() or loadFromCache() and release(), and
\* what a failed load did not send is still held by the execution it was read for.
DeliveredWhenReleased ==
  outcome # "failed" /\ phase \notin {"load", "output"} =>
    \A c \in Channels :
      state[c.source] = "DONE" /\ state[c.target] # "DONE" =>
        TargetPort(c) \in inFull \/ (~prepared /\ SourcePort(c) \in outFull)

\* A run that ends as finished has run or loaded every execution, holds no connection,
\* and has left every result in the cache for the next run.
FinishedMeansAllDone ==
  outcome = "finished" =>
    \A e \in Execs : /\ state[e] = "DONE" /\ conn[e] \in {"none", "closed"}
                     /\ e \notin Resultless => OutPortsOf(e) \subseteq cache

\* A cancelled run leaves no query running on any database.
CancelClosesConnections ==
  outcome = "cancelled" => \A e \in Execs : conn[e] \in {"none", "closed"}

\* A query whose results are all cached is not sent again, not even by a run that
\* starts after a crash in the middle of saving the results of another.  Only a run
\* whose prepare() has thrown may send it: loadFromCache() has not come to it.
CachedNotQueried ==
  [][\A e \in Execs : conn'[e] = "open" /\ conn[e] = "none" =>
       opts.disableCache \/ ~prepared \/ ~(OutPortsOf(e) \subseteq cache)]_vars

\* "maximal number of parallel executions" (the option max-parallel-executions).
ParallelLimit == Cardinality({e \in Pg : conn[e] = "open"}) <= MaxParallel

\* "timeout when processing database queries" (the option statement-timeout): a query
\* that is sent is over in the end, or the run is.
QueriesTimeOut == \A e \in Pg : conn[e] = "open" ~> conn[e] # "open" \/ phase = "ended"

\* A load that failed has left a table with its execution, and nothing will send it.
Starved ==
  ~prepared /\ \E c \in Channels : /\ state[c.source] = "DONE" /\ state[c.target] = "INITIAL"
                                  /\ SourcePort(c) \in outFull

\* If no query stays without an answer for ever, every run comes to an end: no execution
\* is starved by the limit, and none waits for a table that was never sent, unless
\* loadFromCache() has thrown with the table in its hands, when process() polls for ever.
Termination ==
  (\A e \in Pg : []<>(conn[e] # "open")) => <>[](phase = "ended" \/ Starved)

\* After stop() the run ends even if no query is ever answered, as long as the servers
\* take the request to cancel it; a crash clears the flag.
StopEndsRun == stopped ~> (phase = "ended" \/ ~stopped)

\* The processor keeps the promises of Dataflow.
Promise == INSTANCE Dataflow WITH
  done <- {e \in Execs : state[e] = "DONE"}, saved <- cache, verdict <- outcome
KeepsPromise == Promise!Spec

-----------------------------------------------------------------------------
(***************************************************************************)
(* Why the invariants hold: the parts of an inductive invariant.           *)
(***************************************************************************)
\* Where the loop is, and what that says of the execution it is at.
Control ==
  /\ outcome = "none" <=> phase # "ended"
  /\ phase = "load" => state = Unstarted /\ inFull = {}
  /\ phase \in {"output", "cache"} => state[current] = "DONE"

\* A full in port was filled by its one channel, which is closed, from a DONE source.
Fed ==
  /\ \A p \in inFull : \E c \in Channels : TargetPort(c) = p /\ state[c.source] = "DONE"
  /\ \A c \in Channels : TargetPort(c) \in inFull => channel[c] = "CLOSED"

\* A closed channel belongs to a DONE execution whose result was passed on.
Used ==
  \A c \in Channels : channel[c] = "CLOSED" =>
    state[c.source] = "DONE" /\ (phase = "output" => c.source # current)

\* DeliveredWhenReleased, for the execution whose result is being passed on too: its
\* channels have been used when it is cached and released.
Delivered ==
  phase # "load" /\ outcome # "failed" =>
    \A c \in Channels :
      /\ state[c.source] = "DONE" /\ state[c.target] # "DONE"
      /\ ~(phase = "output" /\ c.source = current)
      => \/ TargetPort(c) \in inFull
         \/ /\ ~prepared /\ SourcePort(c) \in outFull
            /\ ~(phase = "cache" /\ c.source = current)

\* A task is queued by the step to SCHEDULED, and a connection used only after it.
Tasked ==
  \A e \in Execs :
    /\ tasks[e] <= 1
    /\ state[e] \in {"INITIAL", "COMPLETE"} => tasks[e] = 0
    /\ conn[e] \in {"open", "answered", "error"} => state[e] = "SCHEDULED" /\ e \in Pg

\* What is DONE is in the cache, up to the execution that is being cached.
Saved ==
  /\ outcome # "failed" =>
       \A e \in Execs \ Resultless :
         state[e] = "DONE" /\ ~(phase \in {"output", "cache"} /\ e = current)
           => OutPortsOf(e) \subseteq cache
  /\ phase \in {"output", "cache"} /\ current \notin Resultless =>
       OutPortsOf(current) \subseteq outFull
  /\ phase = "cache" =>
       \A i \in 1..(saving - 1) :
         i <= Len(OutPorts[current]) => <<current, OutPorts[current][i]>> \in cache

\* With the cache in use, and loaded, an execution whose results are all cached is DONE.
Recalled ==
  phase # "load" /\ prepared /\ ~opts.disableCache =>
    \A e \in Execs : OutPortsOf(e) \subseteq cache => state[e] = "DONE"

IInv ==
  /\ TypeOK /\ Control /\ InputsHeld /\ Fed /\ Used /\ Delivered /\ Tasked /\ Saved
  /\ Recalled /\ ChannelUsedOnce /\ FinishedMeansAllDone /\ CancelClosesConnections
=============================================================================
