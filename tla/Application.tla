---------------------------- MODULE Application ----------------------------
(***************************************************************************)
(* Application.cpp: bootstrap() builds the parts of the program and lets   *)
(* the query processor prepare a query, run() executes it, and everything  *)
(* that happens is fired as an event.  The frontends that create an        *)
(* application, listen to it and stop it are CommandLineProgram (main and  *)
(* the curses display) and ProcessingApi.  The query processor is reduced  *)
(* to what its callers see; QueryProcessor has its steps.                  *)
(***************************************************************************)
EXTENDS Naturals, Sequences, FiniteSets

CONSTANTS
  Execs,       \* the executions of the prepared query
  Listening    \* an EventListener is attached: it handles an event before firing returns

ASSUME ApplicationAssumption == Execs # {} /\ IsFiniteSet(Execs) /\ Listening \in BOOLEAN

VARIABLES
  at,          \* control point of the thread that is in the application
  processor,   \* TRUE once the pointer queryProcessor is set
  graph,       \* the executions that are in the execution graph
  blocked,     \* the ones of graph that wait for a table that nobody will send
  progress,    \* how far each execution is
  dryRun, disableCache,  \* the options --dont-execute and --disable-cache
  stopped,     \* queryProcessor->stopped
  bootFailed,  \* bootstrap() has caught an exception
  events,      \* what has been fired
  pending,     \* the event the listener is handling, or None
  crash        \* why the process has died, or "no"

appVars == <<at, processor, graph, blocked, progress, dryRun, disableCache, stopped,
             bootFailed, events, pending, crash>>

None == [type |-> "NONE"]
Event(type) == [type |-> type]
StateChange(e, s) == [type |-> "EXECUTION_STATE_CHANGE", exec |-> e, state |-> s]
PortId(e) == <<e, "port">>   \* of its out port: executions have one here
ReceiveData(e) == [type |-> "RECEIVE_DATA", port |-> PortId(e)]
CacheLoaded(e) == [type |-> "CACHE_LOADED", port |-> PortId(e)]
Verdicts == {"APPLICATION_FINISHED", "APPLICATION_FAILED", "APPLICATION_CANCELED"}
Events ==
  {Event(t) : t \in Verdicts \cup {"APPLICATION_INITIALIZED", "QUERY_PREPARED"}}
    \cup {StateChange(e, s) : e \in Execs, s \in {"CONNECTED", "DONE", "CACHED"}}
    \cup {ReceiveData(e) : e \in Execs} \cup {CacheLoaded(e) : e \in Execs}

\* Where bootstrap() may throw, and all points.
Booting == {"configure", "parse", "populate", "load", "cached"}
Points == {"new", "linked", "received", "booted", "run", "process", "returned", "ended",
           "deleted", "exited"} \cup Booting
Crashes == {"no", "null_processor", "no_executions", "logic_error", "unjoinable_clock",
            "map_race", "deleted_application", "torn_queue", "deleted_while_running"}

AppTypeOK ==
  /\ at \in Points /\ processor \in BOOLEAN /\ blocked \subseteq graph /\ graph \subseteq Execs
  /\ progress \in [Execs -> {"waiting", "connected", "done"}]
  /\ {dryRun, disableCache, stopped, bootFailed} \subseteq BOOLEAN
  /\ events \in Seq(Events) /\ pending \in Events \cup {None} /\ crash \in Crashes

AppInit ==
  /\ at = "new" /\ processor = FALSE /\ graph = {} /\ blocked = {}
  /\ progress = [e \in Execs |-> "waiting"]
  /\ dryRun \in BOOLEAN /\ disableCache \in BOOLEAN /\ stopped = FALSE /\ bootFailed = FALSE
  /\ events = <<>> /\ pending = None /\ crash = "no"

-----------------------------------------------------------------------------
\* The thread in the application goes on: it lives, and no listener holds it.
Runs(point) == at = point /\ crash = "no" /\ pending = None

\* Fire an event and go on at a point.
Fire(event, point) ==
  /\ events' = Append(events, event) /\ at' = point
  /\ pending' = IF Listening THEN event ELSE None

Quiet(point) == at' = point /\ UNCHANGED <<events, pending>>

Dies(why) == crash' = why /\ UNCHANGED <<at, events, pending>>

option == <<dryRun, disableCache, bootFailed>>

(***************************************************************************)
(* bootstrap(): everything up to the processor; parsing; the executions    *)
(* and their transitions; the cached results.  Events that the frontends   *)
(* only print or pass on, and that change no state of theirs, are fired    *)
(* here where the display or loadFromCache() tells executions apart by     *)
(* them; PROCESSED, SENT_DATA, INITIALIZE, PING and their like are not.    *)
(***************************************************************************)
Configure ==
  /\ Runs("configure") /\ processor' = TRUE /\ Quiet("parse")
  /\ UNCHANGED <<graph, blocked, progress, stopped, option, crash>>

Parse ==
  /\ Runs("parse") /\ Quiet("populate")
  /\ UNCHANGED <<processor, graph, blocked, progress, stopped, option, crash>>

Populate ==
  /\ Runs("populate") /\ graph' = Execs
  /\ Fire(Event("APPLICATION_INITIALIZED"), "load")
  /\ UNCHANGED <<processor, blocked, progress, stopped, option, crash>>

\* The cached table is set as the result, which makes the execution DONE; it is linked;
\* then three events tell that.
LoadCached(e) ==
  /\ Runs("load") /\ ~disableCache /\ progress[e] = "waiting"
  /\ progress' = [progress EXCEPT ![e] = "done"]
  /\ Fire(StateChange(e, "DONE"), "cached")
  /\ UNCHANGED <<processor, graph, blocked, stopped, option, crash>>

\* The event that was fired last.
Newest == events[Len(events)]

Tell(point, before, event, next) ==
  /\ Runs(point) /\ Newest = before /\ Fire(event, next)
  /\ UNCHANGED <<processor, graph, blocked, progress, stopped, option, crash>>

\* Mutant: the execution is named by the id of its port.
TellPort(e) == Tell("cached", StateChange(e, "DONE"), StateChange(PortId(e), "CACHED"), "linked")

TellCached(e) == Tell("cached", StateChange(e, "DONE"), StateChange(e, "CACHED"), "linked")
TellReceived(e) == Tell("linked", StateChange(e, "CACHED"), ReceiveData(e), "received")
TellLoaded(e) == Tell("received", ReceiveData(e), CacheLoaded(e), "load")

\* With the cache disabled its items are only told of.
TellUnused(e) ==
  /\ Runs("load") /\ disableCache /\ \A i \in DOMAIN events : events[i] # CacheLoaded(e)
  /\ Fire(CacheLoaded(e), "load")
  /\ UNCHANGED <<processor, graph, blocked, progress, stopped, option, crash>>

Prepared ==
  /\ Runs("load") /\ Fire(Event("QUERY_PREPARED"), "booted")
  /\ UNCHANGED <<processor, graph, blocked, progress, stopped, option, crash>>

\* A runtime_error at any point ends in an event, and bootstrap() returns as ever.
\* What populateUrls2 and populateTransitions have added by then stays, and so does what
\* loadFromCache has made DONE: its tables are not sent any more.
BootstrapFails ==
  /\ \E point \in Booting : Runs(point)
  /\ graph' \in IF at = "populate" THEN SUBSET Execs ELSE {graph}
  /\ blocked' \in SUBSET {e \in graph' : progress[e] = "waiting"}
  /\ blocked' # {} => at = "populate" \/ \E e \in Execs : progress[e] = "done"
  /\ bootFailed' = TRUE /\ Fire(Event("APPLICATION_FAILED"), "booted")
  /\ UNCHANGED <<processor, progress, stopped, dryRun, disableCache, crash>>

-----------------------------------------------------------------------------
(***************************************************************************)
(* run(): process(), which asserts that there is something to execute,     *)
(* answers a dry run with an event of its own, or steps until all is done. *)
(***************************************************************************)
Process ==
  /\ Runs("run")
  /\ \/ ~processor /\ Dies("null_processor")
     \/ processor /\ graph = {} /\ Dies("no_executions")
     \/ /\ processor /\ graph # {} /\ dryRun
        /\ Fire(Event("APPLICATION_FINISHED"), "returned") /\ UNCHANGED crash
     \/ processor /\ graph # {} /\ ~dryRun /\ Quiet("process") /\ UNCHANGED crash
  /\ UNCHANGED <<processor, graph, blocked, progress, stopped, option>>

Connected(e) ==
  /\ Runs("process") /\ e \in graph \ blocked /\ progress[e] = "waiting"
  /\ progress' = [progress EXCEPT ![e] = "connected"]
  /\ Fire(StateChange(e, "CONNECTED"), "process")
  /\ UNCHANGED <<processor, graph, blocked, stopped, option, crash>>

Done(e) ==
  /\ Runs("process") /\ progress[e] = "connected"
  /\ progress' = [progress EXCEPT ![e] = "done"]
  /\ Fire(StateChange(e, "DONE"), "process")
  /\ UNCHANGED <<processor, graph, blocked, stopped, option, crash>>

\* Mutant: process() reports a run that is done, as it does a dry run.
AllDoneReported ==
  /\ Runs("process") /\ \A e \in graph : progress[e] = "done"
  /\ Fire(Event("APPLICATION_FINISHED"), "returned")
  /\ UNCHANGED <<processor, graph, blocked, progress, stopped, option, crash>>

AllDone ==
  /\ Runs("process") /\ (\A e \in graph : progress[e] = "done") /\ Quiet("returned")
  /\ UNCHANGED <<processor, graph, blocked, progress, stopped, option, crash>>

Finished ==
  /\ Runs("returned") /\ Fire(Event("APPLICATION_FINISHED"), "ended")
  /\ UNCHANGED <<processor, graph, blocked, progress, stopped, option, crash>>

\* Mutants: a cancellation is reported by process() and again by run(); it is noticed
\* between two executions only.
CancelledTwice ==
  /\ Runs("process") /\ stopped /\ Fire(Event("APPLICATION_CANCELED"), "returned")
  /\ UNCHANGED <<processor, graph, blocked, progress, stopped, option, crash>>
CancelledBetween ==
  /\ Runs("process") /\ stopped /\ \E e \in graph : progress[e] = "connected"
  /\ Fire(Event("APPLICATION_CANCELED"), "ended")
  /\ UNCHANGED <<processor, graph, blocked, progress, stopped, option, crash>>

Cancelled ==
  /\ Runs("process") /\ stopped /\ Fire(Event("APPLICATION_CANCELED"), "ended")
  /\ UNCHANGED <<processor, graph, blocked, progress, stopped, option, crash>>

ProcessFails ==
  /\ Runs("process") /\ Fire(Event("APPLICATION_FAILED"), "ended")
  /\ UNCHANGED <<processor, graph, blocked, progress, stopped, option, crash>>

\* Both functions catch runtime_error only: a logic_error (stoi, at()) ends the process.
Escapes ==
  /\ \E point \in Booting \cup {"process"} : Runs(point)
  /\ Dies("logic_error")
  /\ UNCHANGED <<processor, graph, blocked, progress, stopped, option>>

Stop == stopped' = TRUE /\ UNCHANGED <<processor, graph, blocked, progress>>

Load(e) == LoadCached(e) \/ TellCached(e) \/ TellReceived(e) \/ TellLoaded(e) \/ TellUnused(e)
Bootstrap == Configure \/ Parse \/ Populate \/ Prepared \/ \E e \in Execs : Load(e)
Run == Process \/ AllDone \/ Finished \/ Cancelled \/ \E e \in Execs : Connected(e) \/ Done(e)
Fails == BootstrapFails \/ ProcessFails \/ Escapes
=============================================================================
