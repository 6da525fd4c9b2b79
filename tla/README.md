# A verification project for db_agg

db_agg runs one query file against many databases. The parts of the query
become *executions* (one per query and shard, plus *transitions* that split and
join tables), each execution is sent to its database when the tables it reads
are there, and results travel from execution to execution over *channels* and
into a cache on disk. This directory holds TLA+ models of that machinery, the
TLC configurations that check them on small instances, and proofs, checked by
TLAPS, of what holds for every instance.

Paths below are relative to the repository; `core/`, `graph/`, `cache/` and so
on stand for `src/lib/core/` etc.

## The system

| part | state it keeps | operations | hard about it |
|---|---|---|---|
| execution graph (`graph/`, `core/QueryExecution`) | executions, ports with a table or none, channel states | receive, setResult, setState, release; open, send, close | a delivery may complete an execution at any moment; a channel works once |
| query processor (`core/QueryProcessor`) | the loop, `stopped`, the set `runningQueries` of one step | prepare, loadFromCache, process, step, outputResult, cacheItem, findExecutables, stop, cleanUp | order of completion, limit on parallel executions, cached and fresh results in one graph, stop from another thread, failures, crashes between cached ports |
| PostgreSQL execution (`extensions/postgresql`) | a task: state, connection, kept result, step number, next row, rows read | schedule, process, stop, cleanUp | a query of many statements over one polled connection: COPY IN by chunks, COPY OUT by parts, failure anywhere |
| dependency injection (`injection/`) | the steps of a query | inject, getStep | the steps must match the results that the server sends back |
| transitions (`core/OneToMany`, `ManyToOne`, `ManyToMany`) and `sharding/` | none beyond the execution | process; getShardId | shard ids from data, numbering from 0 or from 1, transitions shared by targets |
| cache registry (`cache/`) | items in memory, three files per result, links | exists, load, registerItem, save, getData | crashes between files, writes that fail unseen, ids that change with a text |
| application (`core/Application`, `bin/db_agg.cpp`) | the processor and its parts | bootstrap, run, stop, handleSignal | failing half way, who is told what |
| processing API (`api/`, `event/AsyncEvent`) | an application, a thread, event queues | configure, run, receive, stop, destruction | two threads without locks |
| progress display (`bin/ui`) | times per execution, the layout, a clock thread | handleEvent, updateClock | the clock thread reads what the handler writes, and has to be joined by it |
| memcached, sqlite3, SOAP executions | the offset of the next chunk | process | chunk boundaries, empty tables |
| tables (`table/`) | columns, rows, an index of offsets | append, load, save; views that join, split, extend, range | offsets and row numbers at boundaries |
| query parsing, templates | read once at start | normalise, detect dependencies, parse; scan, parse, render | texts that a scanner or an LALR automaton gets wrong without an error |
| registries, configuration, extension loading, Excel, XML, utilities | read once at start | look-ups, text formats | ambiguous or missing answers |

The application builds the processor from its configuration, the processor
builds the graph, runs it, and forwards the events of executions to listeners.
A listener is called in the thread that runs the application: the progress
display handles an event before that thread goes on, the API's producer pushes it
into a queue that another thread polls. A client (a signal handler in the
thread of the program, or another thread through the API) can call `stop()` at
any time. The database executions are driven by polling only: every step of
`process()` calls each of them once.

What makes each part correct is listed as hazards in `PROJECT.json`, each at
its line, with the properties that guard it or the reason none does.

## Modules

State machines, in the order in which they build on each other:

| module | models | extends |
|---|---|---|
| `ExecutionGraph` | the graph as constants: executions, ports, channels | |
| `Dataflow` | **abstract**: what running a query file promises | `ExecutionGraph` |
| `QueryProcessor` | `QueryProcessor.cpp` from `loadFromCache()` on, with `QueryExecution`, `Channel`, `Port`, the cache as a set, stop, crash and restart | `ExecutionGraph` |
| `DependencyInjector` | the statements made by the three injectors, and the query for the types of the columns | |
| `PostgresServer` | external: a server and libpq as the executor uses them | `DependencyInjector` |
| `QueryTask` | **abstract**: what the processor relies on when it polls an execution | |
| `AsyncQueryExecutor` | `AsyncQueryExecutor.cpp`, `PGQueryExecution.cpp`, `PGConnection.cpp` | `PostgresServer` |
| `Sharding` | the three strategies, and how a transition distributes or collects rows | |
| `Transitions` | `populateUrls2`, `populateTransitions`, `calculateExecutionIds`: how the graph is made | `Sharding` |
| `CacheRegistry` | `CacheRegistry.cpp` and the processor's use of it, write by write | |
| `Application` | `Application.cpp`: bootstrap, run, stop and the events they fire | |
| `CommandLineProgram` | `db_agg.cpp` and `CursesListener.cpp`: main, signals, the display and its clock thread | `Application` |
| `ProcessingApi` | `DbAggProcessingApi.cpp`, `AsyncEvent.cpp`: a client, a detached run, the queue between them | `Application` |

Parts whose results are a function of what they are given, as operators; each
states a reference definition beside the one that follows the code:

| module | models |
|---|---|
| `Outcomes` | what an operation may give instead of a value: null, an exception, an abort, undefined memory |
| `Tables` | `CsvTableData` with its index, `TextFormat`, joined, splitted, extended and range views |
| `StoredTable` | the life of one table: appended, saved, edited, loaded (a state machine over `Tables`) |
| `ChunkedExecution` | `process()` of memcached, sqlite3 and SOAP, a call at a time (a state machine over `Tables`) |
| `QueryParsing` | `normalizeQuery`, `detectDependencies`, `extractMetaData`, `getSourceQuery`, both parsers |
| `Configuring` | the command line and JSON to a `Configuration`; `PasswordManager` |
| `Registries` | `Url`, `UrlRegistry`, `DatabaseRegistry`, `ExtensionLoader` |
| `Templates` | the scanner, the LALR automaton with its error recovery, variables, JSON, rendering |
| `Workbooks` | `ExcelToTextFormat`, `ResourceQueryExecution` |
| `ProgressScreen` | the layout of the progress display |

`MC...` modules hold the values that TLC needs; `MCData` composes the parts
of the second table, whose behaviours do not meet. `...Proofs` modules
and `FlattenSeqTheorems` hold theorems, see below. An operator marked
"Mutant" is a plausible bug; nothing uses it, it is put in the place of its
neighbour to see that a property notices.

### QueryProcessor

The loop is cut wherever another thread, the database or a crash could tell the
difference: one action per visit of an execution (`Pass`, `Skip`, `Wait`,
`ProcessDone`, `ProcessFails`, `ProcessCancelled`), per delivery (`Deliver`), per
cached port (`CacheItem`), for `release()`, and for the end of an iteration,
where the stop flag is tested (`Cancel`) and `findExecutables()` runs before the
next execution (`NextExecution`), the next step (`NextStep`) or the end
(`Finish`). A delivery sends all channels at once and loading is one action: no
other actor reads ports or channels in between.

`state`, `channel`, `outFull`, `inFull` are the states of executions, channels
and ports (a table is there or not); `running` is the set `runningQueries`,
empty in every new step as in the code; `tasks` counts calls of `addQuery`;
`conn` is the connection of an execution as `process()` can tell: `none`,
`open`, `answered`, `error`, `closed`. `cache` is what is on disk and the only
thing a `Restart` keeps. `order` is the order of `std::set<QueryExecution*>`,
that is of addresses: any order of the executions, fixed during a run.

`stop()` first sets the flag of the loop, then those of the executions, each in
its own action, at any moment of the run, from another thread as with the API or
in between as with the signal handler.

`Pg` are the executions with a database server. All others complete, or fail, in
one call of `process()`, which is true of resources and transitions; the
executions of the memcached, sqlite3 and SOAP extensions, which need several
calls, are in `ChunkedExecution`. `Resultless` are those whose `process()` may set no
result: a query whose file names the injector `worker` is sent as one DO block, which yields
no table. An execution is processed at most once in a run, so the choice `ProcessDone` makes
is what the file says in that run.

`failed` is the exception that ends `process()`. One that ends `loadFromCache()`,
because a cached table cannot be read or linked, does not end the run: `bootstrap()`
catches it, and `main` calls `run()` on what was built (`core/Application.cpp:165`,
`src/bin/db_agg.cpp:97`). `LoadFails` stops at any port of the order: what was loaded before
stays in the out ports, executions with all their tables are DONE, nothing is sent or
released, and the loop starts. `prepared` is history: nothing in the code keeps it. A `prepare()` that fails before
`loadFromCache()`, with a graph built in part, is in `Application`.

### AsyncQueryExecutor

One action is one call of `process()`, in the state of the task it finds. The
server is an independent actor which runs the statements of the query and puts
answers on the wire; it may fail at any statement, and the connection may go
down at any time. An execution has one task in its executor: that is what
`QueriedOnce` proves of the processor.

The connection is made by `PQconnectdb` (`connectAsync` is the constant false),
so it blocks on writing. Hence four branches cannot be taken and are left out:
the state CONNECTING, "would block" after `putCopyData` and `putCopyEnd`, and
`flush` returning 1. Since `schedule()` passes the threshold 0, no step is an
INSERT and no table without rows reaches COPY IN, so the branch for `rowCount`
0 cannot be taken either. `PGConnection::connected` tests a pointer only: a
refused connection looks up and fails at `sendQuery`, and the model does so too.
`cleanUp` cancels, then clears results until one is null, then finishes the
connection; the loop stops after the first result, which is harmless because
the connection is closed next. An abandoned row of a failing `getCopyData` (-2)
is part of `Broken`.

### Transitions and Sharding

`PopulateUrls` makes the executions of one query, one action of
`populateTransitions` handles one dependency: its guards are the tests on the
numbers of source and target shards, its effect the channels and the transition
node that are added, or the node that is found again by its id. `CalculateIds`
gives every node the id under which its result is cached; the digest md5 is taken
to be injective there, and a function of the keys in `Sharding` (`DigestAssumption`:
of keys that are numbers or `NoNumber`, to numbers of three bytes; `And` is their
bitwise and). The graph may have cycles, since nothing keeps a query from naming a
later one or itself: `getDependencies` then recurses without end, which is
`EndlessDependencies`. `Edit` is the user who changes a text and starts again. What
the channels carry is computed from the finished graph by `Result` and `Arriving`,
with the rows of each execution named by where they come from; `Throws` and
`Undefined`, the outcomes that are no table, are told from tables and numbers by
`OutcomesAssumption`.

`Served` says which dependencies the graph serves, in terms of the configuration alone,
and with it what the code does not do: a transition is found again by an id that names
neither the database nor the shard count of its target, so a target may get parts made
for another one (`FirstSplit`); n shards that feed m > 1 shards, n different from m, get
no channel at all; a query that names a source twice, or one shard of many where it has
many itself, has a port that nothing feeds.

### CacheRegistry

A result of this run has an `id`; on disk it is `table`, `index` and `desc`, and
a `link` leads to it from the output directory. `LookUp` is one result of
`loadFromCache()`; `LookUpFails` and `LookUpUnlinked` are one that cannot be read or linked,
which ends loading and not the run: the results after it are computed. An index that does
not fit its table trips an assertion, which is a `Restart`. `Register`, `OpenTable`,
`WriteTable`, `WriteIndex`, `OpenDescription`, `WriteDescription`, `Unlink`, `Link` are what
`cacheItem()` does, each a write of its own. `Moved` are the results of transitions: views,
which `TableData::save` writes without an index (`SkipIndex`), and which have no link
(`SkipLink`). `save()` does not look at its streams, so the writes of table
and index may fail unseen (`ok`). `Restart` is the end of the process, by a crash
anywhere or after a run, and the next start, with the same or other texts and
with some tables thrown away. `exposed` is history: the ids with a description
whose table was opened for writing again or cut short. `items` is the registry in
memory; `Torn` an item without a path, which `exists()` reports all the same.

### Application, CommandLineProgram and ProcessingApi

`at` is the control point of the thread in the application, `pending` the event
its listener is handling (the thread goes on when the listener has returned),
`events` all that was fired. The processor is reduced to what its callers see: a
pointer that is null until `Configure`, a graph that may be left half built
(`blocked` are executions that wait for a channel nobody made, or for a table that was
loaded and not sent when `loadFromCache()` failed), and executions
that connect and finish. `crash` names why the process has died.

A cached result fires DONE when it is set, then CACHED, RECEIVE_DATA and CACHE_LOADED
(`core/QueryProcessor.cpp:278-285`), each handled before the next; with the cache disabled
the last alone. `StampTime` reacts to CONNECTED and DONE only, `PrintData` to the other two,
under the mutex. PROCESSED, SENT_DATA, INITIALIZE and the state changes between CONNECTED
and DONE, which are printed or passed on like these, are left out.

In `CommandLineProgram` the display handles events in the steps the code takes
between locking and unlocking: `OpenScreen` starts the clock, `StampTime` and
`PrintState` work on the times and on the screen, a verdict stops the clock,
joins it and waits for a key. The clock thread has its own control point. A mutex
guards the screen, not the map of times, and the model says when the two threads
meet there (`map_race`). `Signal` reaches the application only once main has
registered it, and still does after main has deleted it.

In `ProcessingApi` the client is free when no call of its own is under way: always
with a detached run, between calls otherwise. `Push` is the thread of the run,
`Peek` and `Pop` are the two halves of `getEvent()`. The queue is a `std::deque`;
that both threads change it without a lock is undefined, and the outcome modelled
is what libstdc++ does: nothing, unless the push moves the map of nodes while
the other thread leaves a node (`NodeEvents`, `MapEvents`, both external).

### The data modules

A behaviour of `MCData` is the life of a table, an execution driven in chunks, or a
single state that holds an input of one of the pure parts; `part` says which. Each
property conjoins what is to hold of each part. Each input set is finite and
listed in `MCData`; it is made of the words that change what the code does, not
of arbitrary text: a `Templates` input is up to four of the pieces `{{`, `}}`, `{%`,
`%}`, `{`, `}`, a blank, `for`, `in`, a name and a digit.

## Runs

| run | instance | shows |
|---|---|---|
| `shards` | a query split over two shards and joined (5 executions, 3 of them on databases), limit 1, three loop orders, all options, any cache at start, two runs | the safety of the processor, and that it implements `Dataflow`, also after a load that failed |
| `termination` | three queries, two of which may have no result, all six loop orders, limit 1, all options, two runs | if no query stays unanswered for ever, every run ends, but for one starved by a failed load; a stopped run ends even if servers are silent |
| `timeout` | as `termination`, one run | **violated**: the statement timeout |
| `limit` | as `termination`, one run | **violated**: the limit on parallel executions |
| `executor` | up to two tables of 0 to 5 rows, chunks of 2, results of up to 3 rows, both injectors | data crosses whole, calls end, the executor implements `QueryTask` |
| `threshold` | as `executor`, threshold 5 | **violated**: the copy threshold |
| `graph` | three queries in two or three databases of one to three shards, the ways each can depend on those before it, on later ones and on itself, one query bound to a shard, two sets of strategies, four sets of keys | a port is fed exactly if its dependency is served, and a graph of served dependencies fits together; rows reach the shard of their key; an edit changes the ids it must and no others |
| `cache` | a query with three ids and a transition with one, three runs, the query's ids interchangeable | what a later run takes from the cache is whole and its own, with an index and a link unless it is a view; links lead to tables |
| `stale_link` | the query alone, three runs | **violated**: the link leads to the result of the query |
| `command_line` | two executions, the display attached | one verdict is reported, the clock ends first, what can crash, runs and stopped runs end |
| `api` | two executions, two events in a node, a map moved after three pushes | no event is lost or overtaken, a client in one thread is safe, every run is reported |
| `data` | see below | tables, views, chunks, texts, settings, look-ups and the display |

Bounds. `MaxRuns` = 2 lets a run meet the cache of a crashed, cancelled or
failed one; a third meets nothing new, since the cache at the start is any set of
ports already. A limit of 1 makes executions wait for each other, the hardest
case; a graph of five has a source with two targets, a target with two in
ports and an execution with two out ports. The three orders of `shards` visit
sources first, sources last, and mixed; the smaller graphs take all orders.
Chunks of 2 with tables of 2, 3, 4 and 5 rows meet an exact chunk, a rest of one,
two exact chunks and two with a rest (the code uses 100); two tables show the
reset between them, `<<0, 5>>` a table that is not copied.

Three queries are a chain, a fork, a join and a cycle; with one to three shards in each
database every pair of numbers occurs that `populateTransitions`
distinguishes: one to one, one to many, many to one, equal, and different, and three
databases give a split a second target of another size. Keys
are a number beyond the last shard, a negative one, and text. In `cache`, three
ids for one query let its text be changed twice, or changed and put back; three runs are a
result written, overwritten half way, and looked up. The transition's result is a view of
an id of its own, written, overwritten or taken in the same runs. The theorems are about
any number of results. In `command_line` and `api` two
executions are what it takes to have a state between the first and the last
event; five events of a run pass two nodes and a move of the map. In `data`
tables have up to 3 rows of 2 columns, chunks are 2 rows over sources of 0 to 4, texts
up to 5 characters of the seven that `normalizeQuery` knows, argument lists and
`.pgpass` files have up to 3 items, templates up to 4 pieces, trees two nested
loops. `IntLimit`, `UintLimit`, `LineLimit` stand for 2^32 and 2^64 where numbers
wrap; they are small so that a wrapped number is seen as one and larger than
anything the inputs hold. `MaxCalls` = 6 is more calls of `process()` than any source
needs.

`CHECK_DEADLOCK FALSE` in all runs but `graph`: a run ends, and the program with
it. `graph` ends in `Done`, so that a dependency which no action handles is
found as a deadlock.

Fairness. `FairLoop` is weak fairness of `Process`: the thread that runs the loop
is not suspended for ever. Nothing in the code makes a server answer: the option
`statement-timeout` would, but reaches no connection (`timeout`; `FairSpec` gives servers
fairness exactly if `UrlParameters` has it). That queries are answered is therefore a
hypothesis of `Termination`, written out in it, and `StopEndsRun` does without. It does
assume that `PQcancel`, `PQfinish` and the `PQgetResult` of `cleanUp`
(`AsyncQueryExecutor.cpp:393`) return, and it ends when a crash clears the flag. In the
executor, weak fairness of the client is the processor polling on; that of the server is
an assumption about servers, as is, in `CommandLineProgram` and `ProcessingApi`, that an
execution that connects gets its answer. Nothing makes a failure, a stop or a restart
happen.

In `CommandLineProgram` main and the clock thread have weak fairness. The listener
has strong fairness: it needs a mutex that the clock takes again and again, and
gives up for the 10 ms in which it waits for a key in each of its rounds. In
`ProcessingApi` the application's steps, the pushes and the client's polling have
weak fairness: `RunReported` is about a client that keeps polling, which is
what `receive()` is made for. Nowhere is there fairness for failures, signals, keys, a change of the
terminal's size, `stop()` or the deletion.

### What the violated runs say

* `limit`: `runningQueries` is local to `step()`
  (`core/QueryProcessor.cpp:100,117`). An execution early in the loop that becomes
  ready late takes the place of one that was opened before: with a limit of 1, two
  executions are in progress: the second connects while the query of the first is out, and
  sends its own with the next call. The option is documented as "maximal number of parallel
  executions" (`src/bin/db_agg.cli:110`).
* `timeout`: only `populateUrls()`, which nothing calls, gives a url the parameter
  `statementTimeout` (`core/QueryProcessor.cpp:412`); `populateUrls2()`, which took its place,
  does not, so the option `statement-timeout` ("timeout when processing database queries",
  `src/bin/db_agg.cli:72`) has no effect, and a query that is not answered is open for ever.
* `threshold`: `PGQueryExecution::schedule` passes 0
  (`extensions/postgresql/PGQueryExecution.cpp:67`), so the option
  `copy-threshold` ("use copy instead of value injection when size of rows >
  threshold", `src/bin/db_agg.cli:50`) has no effect.
* `stale_link`: `loadFromCache()` makes the link of a cached result only if there is
  none that leads anywhere (`core/QueryProcessor.cpp:274`). A query whose text is
  changed, run, and changed back is answered from the cache, while the output
  directory still links the result of the text in between, where the results "can
  be then found" (`src/README.md:85`).

### What the properties had to leave out

These are disjuncts or preconditions of properties that hold, each because the code
does otherwise; no document promises more.

* After a failed `bootstrap()` main calls `run()` all the same: with no processor or
  no execution the program dies, with half a graph the run waits for ever for a
  channel nobody made, until a signal stops it (`CrashesOnly`, `RunEnds`,
  `StopEnds`). When it is `loadFromCache()` that has failed, the tables read before are
  never sent, and an execution that needs one keeps the run polling for ever
  (`DeliveredWhenReleased`, `Termination`); executions that loading did not reach are
  queried again, although their results are in the cache (`CachedNotQueried`); and the
  result whose link could not be made has none (`LinksLead`). With the API, `stop()` before there is a processor dies too
  (`SynchronousIsSafe`).
* A dry run fires APPLICATION_FINISHED twice; the second time the display joins a
  thread that is joined, the exception is reported as a third verdict and then ends the
  program (`OneVerdict`, `CrashesOnly`).
* A source of n shards has no way to a target of m > 1 shards, n different from m; a
  query that names a source twice never runs; a split made for one target is used
  for others (`PortsFit`, `RowsArrive`).
* The index of another text, left beside an edited file, misleads the table that is
  loaded from them; appending to a table that was loaded is not in the model, nothing
  does it. `TableDataRange::getRows` repeats its first row when it is asked for several
  (`TablesReadBack`).
* The `worker` injector appends the statement of a table to the one before, so
  rows are pushed twice; a query that ends in `limit 0` gets a second limit when it
  is asked for its types (`QueriesParsed`).
* The second heading of a sheet is left of the reader, the difference of the
  unsigned columns wraps and 2^32 - 1 nulls are to be written; four flags of a
  `Configuration` that comes from JSON have no value (`InputsTaken`).
* A template that does not parse becomes the empty text; a terminal of four lines
  divides by zero, and after a change of its size columns that do not fit keep their
  old places
  (`TextsShown`).

## Proofs

All theorems hold for every value of the constants that satisfies the named
assumptions. Eight modules hold them.

`QueryProcessorProofs` proves, for every graph, order, limit and number of runs
that satisfies the two assumptions of the modules:

    TypeCorrect, InputsAreHeld, QueriesAreSentOnce, ChannelsAreUsedOnce,
    ResultsAreDelivered, FinishedIsComplete, CancelIsClean, CachedQueriesRest,
    PromiseIsKept

the last saying that every step of the processor is a step of `Dataflow`, or a
stutter.

The assumptions are that channels join declared ports, that no in port is fed by
two channels, and that every execution has an out port (`GraphAssumption`), and
that an order lists all executions (`ProcessorAssumption`). A graph may have
cycles or lack channels; then a run may not end, but stays safe.

None of the safety properties is inductive alone. The argument is a chain, whose
links are the conjuncts of `IInv`:

* `Used`: a closed channel belongs to a source that is DONE and whose result was
  passed on. So a source that completes has open channels only, and
  `ChannelUsedOnce` holds: loading closes channels of executions it makes DONE, and
  these are never processed.
* `Fed`: a full in port was filled by the one channel that leads to it, and this
  channel is closed. So a delivery never reaches a port that is full, an execution
  whose ports are full receives nothing any more, and SCHEDULED never falls back
  to COMPLETE: `Tasked`, and with it `QueriedOnce`.
* `Control` ties the place in the loop to the state of the execution it is at, and
  `InputsHeld` follows from what `Completed` demands, since only `release()` of an
  execution that is DONE empties in ports.
* `Delivered` extends `DeliveredWhenReleased` over the time between completion and
  delivery, when the result exists in the out port only, as it does for good after a
  load that failed.
* `Saved`: what is DONE is in the cache except for the execution that is being
  cached, of which the ports up to `saving` are; from it `FinishedMeansAllDone`.
* `Recalled`: once loading was through, what the cache holds completely is DONE; from it
  `CachedNotQueried`.

A load that fails maps to a step of `Dataflow` too, which lets a run recall any of the
results that are saved.

`CacheRegistryProofs` proves, for any number of results, ids and runs
(`CacheAssumption`: results and ids are there, and none is called "none"; some of each may
be those of transitions), the type invariant and

    CacheIsWhole, CacheIsRemembered, ResultsAreLinked

The invariant `IInv` ties the step of the save to the files: `SavesInOrder` (a
result is being saved exactly between its registration and its link), `Written`
(what of its three files is already of this run), `OldIsExposed` (from when its
table is opened an old description counts as exposed), `ViewsHaveNoIndex`. Without them
`DescribedIsWhole` is not inductive: the step that writes the description does not
look at the table, and the description is right only because the table and its
index were written before it, by this run and to the end, or the id is exposed.
`Remembered` strengthens `MemoryMatchesDisk` over a failed run, and `Linked` says of
each query what `LinksLead` says of all at the end.

`ProcessingApiProofs` proves `EventsArriveInOrder` and `OneThreadIsSafe`, for any
number of executions, events and nodes (`ApiAssumption`: the producer is attached,
which the constructor does). `Kept` adds to the order of events that the queue is not
empty while its front is held, or `Pop` would take what is not there; that is why only
the client may pop. `Built` says from which point on there are a processor and a
graph unless bootstrap has failed.

`CommandLineProgramProofs` proves `TypeCorrect`, `ClockEndsFirstAlways`,
`OneVerdictAlways` and `CrashesOnlyAlways`, for any executions (`ApplicationAssumption`).
`Joined`, `Opened` and `Settled` say that a clock exists only with a screen, is joined
only when it has ended, and that main cannot be past its run with a clock alive
unless a verdict is being handled. `Single` says that a plain run (prepared, no dry
run) has fired no verdict before its end and has joined no clock, so that the branch
in which join throws, which fires another verdict, cannot be taken. `Built`, `Counted` and
`Placed` say what must have happened before each crash: a verdict that finds the clock
joined is the second, or the third after a second that was FINISHED; a processor or
executions are missing only after a failed preparation; and the map of times, which the
clock iterates over, changes only when an execution connects or is done after connecting,
for what is DONE from the cache has no entry to erase (`Unprocessed`).

`AsyncQueryExecutorProofs` proves, for any in ports, results, thresholds and sizes of a
chunk (`ExecutorAssumption`),

    TypeCorrect, StepsAreRight, TablesAreWhole, ResultsAreWhole, ExecutionActsAsTask

the last being the refinement of `QueryTask` on which the composition rests. Client and
server meet only in the messages on the wire, so `StepsMatch` is not inductive: that the
answer at the head is the one of the step the client believes it is at depends on
everything behind it. `Flow(c, r)` therefore numbers the wire: `c` gives each message the
step it answers and `r` each row its number, from what the client has counted at the
head (`StepsCounted`, `RowsCounted`, `CopiesCounted`) to what the server has reached at
the end. A step of the client moves the first numbers, a step of the server adds to the
last, and the invariant is that such numberings exist. `Taken` says which tables the
server holds whole and which in part, `Ended` that it is ready only after all steps or
after one that has failed. `Linked` and `Scripted` tie the connection and the script of the server to the
state of the task. The server runs the script at will and may fail or hang up at any
statement, so nothing is assumed of it but the order of its answers.

`TransitionsProofs` proves, for any number of queries, whatever they depend on, and any
registry of databases,

    PortsServed, GraphFitsTogether, RowsArriveWhole, EditsInvalidate, EditsSpare

and, of the strategies alone, `ShardIsMeant`. It assumes that the queries are the numbers
from 1 on (`QueriesAssumption`), that a configuration has the types the parsers give it
and the new text is a new one (`ConfigurationAssumption`), and the two assumptions on data
above (`DigestAssumption`, `OutcomesAssumption`). The invariant follows the three loops of
`prepare()`. `Populating` and `Populated` give each query its executions. `Linking` says
that there is a numbering of the channels by the dependencies they were made for, in
which each dependency that the loop has passed and that the code links (`Linked`) has one
channel to each execution of its query, that channel is as `IsLink` says, and no other
leads to an execution. `NodesFit` says of each transition whose rows it takes (`Feeds`:
one channel to each of its ports, from the execution of that number, and none besides),
and of a split which query it was made for: the first that needed it, which is how the
parts of a shared one come to be of the wrong number. Neither is inductive without the
ids, by which a transition is found again. A ManyToMany breaks both, and no run with one
gets to its end; the invariant is about graphs without.

At the end the channels that reach a port are counted by the dependencies whose channels
go there (`ReachingSingle`, `ReachingSeveral`), and that there is one of them is what
`Served` says in other words: `PortsServed`. `GraphFitsTogether` adds the other ends of
the channels and the ports of transitions. `RowsArriveWhole` follows the one channel back:
a table, the tables that a join received, or the part of a split. There the columns that
the strategies have in common with the table decide, and `ShardIsMeant` is what makes the
parts a partition: the remainder that C++ computes is the shard number of the key also
where the key is negative or text, and the mask of the md5 strategy is a remainder where
the number of shards is a power of two (`AndOfPower`, by induction on the bits).
`EditsInvalidate` needs of the graph only that `Dependencies` reaches the edited query:
every id of the first run is clean of the new text (`IsClean`), every id of the second
that depends on the edited query has it.

`EditsSpare` compares two runs, of which the state holds only one and the ids of the
other. What the texts do to a graph is to say which transitions are one: where no two
executions have the same url and text (`PartedBy`), a transition is found again exactly
if it was made for the same query, so a graph is known from its shape, which has the
urls and no text (`IsShape`, and `Effect` for what a step does to it). `HistoryInv` says that
there is a sequence of shapes, a `Story`, each the effect on the one before and the last
of them of a graph that is complete, such that the ids the first run left are those of
the last shape with the first texts; and that the second run is at one of the
shapes of that sequence, which only the registry and the dependencies determine, so it can
end nowhere else (`SecondRunFollows`). The text that was written is new, so it parts
the executions if the old one did. Then an id differs only by the texts in it, and the
edited one is in none that `EditSpares` is about.

`TablesProofs` proves `StoredTableReadsBack` (`TablesReadBack`), for any columns, cells
and number of rows, and `DecodeEncode`. It assumes that a result has a column, that its
columns are not taken for a fault, and that values are texts (`StoredAssumption`); and
that the letters the model knows are characters and that no outcome is a text, a number
or a size (`TextAssumption`), which only says that the model's data can be told apart.
`TablesReadBack` speaks of what is read, so the invariant says what is there: a table
that was not misled holds the text of its rows and the index that belongs to this text
(`Holds`), and a file, unless its index is stale, does so too or has no index (`Keeps`).
That an append keeps it, though the new chunk is scanned from the character before, that
a load without an index makes the index a save would have written, and that offsets lead
to cells, all come from one fact about text: `Sheet` cuts the text of rows into pieces
that end in a separator and hold no other (`Laid`, `IsPiece`), so that the k-th separator
ends the k-th piece (`LaidMarks`) and piece `(r - 1) * m + c` is cell c of row r
(`SheetMarks`, `SheetCell`). It needs that no cell has a separator in it, which is what
`Encode` is for (`EncodedIsCell`). A view is `Faithful` to the rows that it stands for,
and the lemmas on joined, splitted and extended tables take one faithful view to another,
which is why they hold of views of views.

`FlattenSeqTheorems` says what the community modules' `FlattenSeq` returns at each place,
for all sequences of sequences; the steps an injector makes are such a sequence, and so
are the rows of a join or a part, and the text of a table. It is by induction over data,
as are `Dependencies` and `And` in `TransitionsProofs` and the runs of backslashes in
`TablesProofs`: each is got from the well-foundedness of `<` on a set of
numbers, since the induction theorems for operators cannot be used.

Only model-checked: the liveness properties (`Termination`, `StopEndsRun`, `Ends`,
`RunEnds`, `StopEnds`, `RunReported`), since TLAPS has no rules for fairness and
ENABLED; and the other data modules
(`ChunksArriveWhole`, `QueriesParsed`, `InputsTaken`, `TextsShown`), where each fold and each recursive function would need an
induction of its own, and those that declare RECURSIVE operators are out of the prover's
reach altogether.

## Not modelled, and why

* Code that nothing calls: `table/Data.cpp`, `QueryProcessor::populateUrls`,
  `PostgresqlExecution.cpp`, `TableDataVar` and external variables of templates,
  `CacheRegistry::removeOrphans`; `toSqlValues` cannot be reached, since the
  threshold is 0.
* The digest of `md5.cpp`: an operator where shards are chosen, injective where ids are
  made.
* What wraps a library or the system (zip, XML, JSON, pcre, files, dlopen): its
  documents are taken as parsed, a regular expression as the set of what it matches.
* Logging, colours, the formats of numbers and times, the usage text, the dump of the
  plan as `executionPlan.dot`, `db_agg_config`, which prints a value, and the splitting
  of a query file at its marks.
* In `QueryProcessor`, rows of tables: a table is there or not; which rows go where
  is `Transitions`. The executions of the three smaller extensions complete in one
  call there; their calls are `ChunkedExecution`. The composition rests on
  `QueryTask`, which only the PostgreSQL executor is shown, and proved, to implement.
* That `QueryProcessor` is given a graph of `Transitions`: its `GraphAssumption` is what
  `GraphFitsTogether` proves of a graph whose dependencies are all served, but the two
  modules name executions and ports differently and are not composed.

## Left to do

`CacheRegistry` as an implementation of the set `cache` of `QueryProcessor`, with the
ids of `Transitions`.
