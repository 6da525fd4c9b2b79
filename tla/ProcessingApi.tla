--------------------------- MODULE ProcessingApi ---------------------------
(***************************************************************************)
(* DbAggProcessingApi.cpp and AsyncEvent.cpp: a client configures an       *)
(* application, runs it in its own thread or in a detached one, polls a    *)
(* queue for the events, stops the run and deletes the object.  The queue  *)
(* is a std::deque no lock protects, used by both threads.                 *)
(***************************************************************************)
EXTENDS Application, SequencesExt

CONSTANTS
  NodeEvents,  \* events in one node of the deque (external: libstdc++)
  MapEvents    \* pushes after which the deque moves its map of nodes (external)

\* The constructor attaches the producer of events.
ASSUME ApiAssumption == Listening /\ {NodeEvents, MapEvents} \subseteq Nat \ {0}

VARIABLES
  queue,       \* queues[listener]
  peeked,      \* getEvent() holds the front of the queue and has not popped it
  received,    \* what receive() has returned
  async,       \* run(true) has been called
  deleted      \* ~DbAggProcessingApi has been called

client == <<queue, peeked, received, async, deleted>>
vars == <<appVars, client>>
application == <<processor, graph, blocked, progress, dryRun, disableCache, bootFailed>>

Init ==
  /\ AppInit /\ queue = <<>> /\ received = <<>>
  /\ peeked = FALSE /\ async = FALSE /\ deleted = FALSE

-----------------------------------------------------------------------------
(***************************************************************************)
(* The thread in the application, and AsyncEventProducer::fireEvent, which *)
(* pushes what is fired.  The deque may break when it moves its map while  *)
(* the other thread is about to leave a node.                              *)
(***************************************************************************)
App == (Bootstrap \/ Run \/ Fails) /\ UNCHANGED client

Moves == Len(events) % MapEvents = 0
LeavesNode == peeked /\ (Len(received) + 1) % NodeEvents = 0

\* Mutant: the listener is registered once the application is prepared.
PushPrepared ==
  /\ crash = "no" /\ pending # None
  /\ queue' = IF at \in Booting \cup {"booted"} THEN queue ELSE Append(queue, pending)
  /\ pending' = None
  /\ UNCHANGED <<application, at, events, stopped, crash, peeked, received, async, deleted>>

\* Mutant: a push gives up while the other thread uses the queue.
PushUnlessBusy ==
  /\ crash = "no" /\ pending # None
  /\ queue' = IF peeked THEN queue ELSE Append(queue, pending)
  /\ pending' = None
  /\ UNCHANGED <<application, at, events, stopped, crash, peeked, received, async, deleted>>

Push ==
  /\ crash = "no" /\ pending # None
  /\ queue' = Append(queue, pending) /\ pending' = None
  /\ crash' \in IF async /\ Moves /\ LeavesNode THEN {"no", "torn_queue"} ELSE {"no"}
  /\ UNCHANGED <<application, at, events, stopped, peeked, received, async, deleted>>

-----------------------------------------------------------------------------
(***************************************************************************)
(* The client.  It is free while a detached thread runs, and otherwise     *)
(* when the call it has made returns.                                      *)
(***************************************************************************)
Running == at \notin {"new", "booted", "ended"} \/ pending # None

\* Mutant: a run of the client's own thread does not hold it.
FreeAlways == crash = "no" /\ ~deleted

Free == crash = "no" /\ ~deleted /\ (Running => async)

Configures ==
  /\ Free /\ Runs("new") /\ Quiet("configure")
  /\ UNCHANGED <<application, stopped, crash, client>>

Start(detached) ==
  /\ Free /\ Runs("booted") /\ Quiet("run") /\ async' = detached
  /\ UNCHANGED <<application, stopped, crash, queue, peeked, received, deleted>>

\* getEvent(): the front is read, then popped, then turned into JSON.
Peek ==
  /\ Free /\ ~peeked /\ queue # <<>> /\ peeked' = TRUE
  /\ UNCHANGED <<appVars, queue, received, async, deleted>>

Pop ==
  /\ Free /\ peeked /\ peeked' = FALSE
  /\ queue' = Tail(queue) /\ received' = Append(received, Head(queue))
  /\ UNCHANGED <<appVars, async, deleted>>

StopRun ==
  /\ Free /\ at # "new"
  /\ IF processor THEN stopped' = TRUE /\ UNCHANGED crash
                  ELSE crash' = "null_processor" /\ UNCHANGED stopped
  /\ UNCHANGED <<application, at, events, pending, client>>

\* The application is deleted with the object; a detached thread works on as long as its
\* memory is not used for something else.
Destroy ==
  /\ Free /\ ~peeked /\ deleted' = TRUE
  /\ crash' \in IF Running THEN {"no", "deleted_while_running"} ELSE {"no"}
  /\ UNCHANGED <<application, at, events, pending, stopped, queue, peeked, received, async>>

Receive == Peek \/ Pop
Next == App \/ Push \/ Configures \/ (\E detached \in BOOLEAN : Start(detached))
          \/ Receive \/ StopRun \/ Destroy

\* The application goes on, and the client, which may stop or leave, keeps polling.
Fairness == WF_vars((Bootstrap \/ Run) /\ UNCHANGED client) /\ WF_vars(Push) /\ WF_vars(Receive)

Spec == Init /\ [][Next]_vars /\ Fairness

-----------------------------------------------------------------------------
\* What has been fired was received, is queued or is being pushed, in that order: no
\* event is lost, repeated or overtaken, whatever the two threads do.
EventsInOrder ==
  received \o queue \o (IF pending = None THEN <<>> ELSE <<pending>>) = events

\* A client that runs the query in its own thread and looks whether bootstrap() has
\* failed meets no crash but the one of an exception nobody catches.
SynchronousIsSafe == crash \notin {"no", "logic_error"} => async \/ bootFailed

\* The client of a prepared run learns how it has ended.  (After a failed preparation a run
\* may wait for ever for executions without channels, and hold a synchronous client.)
Reported == \E i \in DOMAIN received : received[i].type \in Verdicts
RunReported == (at = "run" /\ ~bootFailed) ~> Reported \/ deleted \/ crash # "no"
=============================================================================
