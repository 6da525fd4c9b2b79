------------------------- MODULE CommandLineProgram -------------------------
(***************************************************************************)
(* db_agg.cpp and CursesListener.cpp: main() creates an application, with  *)
(* --show-progress attaches the display to it, bootstraps and runs it.     *)
(* The display handles events in the thread of main and has a clock thread *)
(* of its own; a mutex guards the screen, but not the map timeSpent.       *)
(* Signals arrive at any time and reach the handlers registered so far.    *)
(***************************************************************************)
EXTENDS Application

VARIABLES
  registered,  \* the application is in the list of GlobalSignalHandler
  initialized, \* the display has opened the screen and started its clock
  running,     \* the flag the clock thread looks at
  clock,       \* control point of the clock thread
  joined,      \* clockThread has been joined
  screen,      \* "unopened", "open" or "closed"
  handling,    \* how far the display is with the pending event
  timeSpent    \* the executions whose time is displayed

display == <<initialized, running, clock, joined, screen, handling, timeSpent>>
vars == <<appVars, registered, display>>
\* What the display leaves alone.
application == <<processor, graph, blocked, progress, dryRun, disableCache, stopped, bootFailed>>

TypeOK ==
  /\ AppTypeOK /\ {registered, initialized, running, joined} \subseteq BOOLEAN
  /\ clock \in {"none", "check", "draw", "key", "resize", "ended"}
  /\ screen \in {"unopened", "open", "closed"}
  /\ handling \in {"none", "print", "join", "key"} /\ timeSpent \subseteq Execs

Init ==
  /\ AppInit /\ registered = FALSE /\ initialized = FALSE /\ running = TRUE
  /\ clock = "none" /\ joined = FALSE /\ screen = "unopened" /\ handling = "none"
  /\ timeSpent = {}

-----------------------------------------------------------------------------
(***************************************************************************)
(* main(), and the signals it has asked for.                               *)
(***************************************************************************)
Start ==
  /\ Runs("new") /\ Quiet("configure")
  /\ UNCHANGED <<application, crash, registered, display>>

AddHandler ==
  /\ Runs("booted") /\ registered' = TRUE /\ Quiet("run")
  /\ UNCHANGED <<application, crash, display>>

Delete ==
  /\ Runs("ended") /\ Quiet("deleted")
  /\ UNCHANGED <<application, crash, registered, display>>

Exit ==
  /\ Runs("deleted") /\ Quiet("exited")
  /\ UNCHANGED <<application, crash, registered, display>>

\* A registered application is stopped if it has a processor; the list keeps its
\* address after main has deleted it.
Signal ==
  /\ crash = "no" /\ registered /\ at # "exited"
  /\ IF at = "deleted" THEN crash' \in {"no", "deleted_application"} /\ UNCHANGED application
     ELSE processor /\ Stop /\ UNCHANGED <<option, crash>>
  /\ UNCHANGED <<at, events, pending, registered, display>>

Main ==
  \/ Start \/ AddHandler \/ Delete \/ Exit
  \/ (Bootstrap \/ Run) /\ UNCHANGED <<registered, display>>

-----------------------------------------------------------------------------
(***************************************************************************)
(* CursesListener::handleEvent.                                            *)
(***************************************************************************)
Handles(types, point) ==
  crash = "no" /\ pending.type \in types /\ handling = point

Handled == pending' = None /\ handling' = "none" /\ UNCHANGED <<at, events>>

ScreenMutexFree == clock \notin {"draw", "resize"}

OpenScreen ==
  /\ Handles({"APPLICATION_INITIALIZED"}, "none") /\ ScreenMutexFree
  /\ screen' = "open" /\ clock' = "check" /\ initialized' = TRUE /\ Handled
  /\ UNCHANGED <<application, crash, registered, running, joined, timeSpent>>

\* Without the lock: what the clock thread does with the map meanwhile is undefined.
StampTime ==
  /\ Handles({"EXECUTION_STATE_CHANGE"}, "none")
  /\ timeSpent' = CASE pending.state = "CONNECTED" -> timeSpent \cup {pending.exec}
                    [] pending.state = "DONE" -> timeSpent \ {pending.exec}
                    [] OTHER -> timeSpent
  /\ crash' \in IF clock = "draw" /\ timeSpent' # timeSpent THEN {"no", "map_race"} ELSE {"no"}
  /\ handling' = "print"
  /\ UNCHANGED <<application, at, events, pending, registered, initialized, running, clock,
                 joined, screen>>

PrintState ==
  /\ Handles({"EXECUTION_STATE_CHANGE"}, "print") /\ ScreenMutexFree /\ Handled
  /\ UNCHANGED <<application, crash, registered, initialized, running, clock, joined, screen,
                 timeSpent>>

PrintData ==
  /\ Handles({"RECEIVE_DATA", "CACHE_LOADED"}, "none") /\ ScreenMutexFree /\ Handled
  /\ UNCHANGED <<application, crash, registered, initialized, running, clock, joined, screen,
                 timeSpent>>

Ignore ==
  /\ Handles({"QUERY_PREPARED"}, "none") /\ Handled
  /\ UNCHANGED <<application, crash, registered, initialized, running, clock, joined, screen,
                 timeSpent>>

StopClock ==
  /\ Handles(Verdicts, "none") /\ running' = FALSE /\ handling' = "join"
  /\ UNCHANGED <<application, at, events, pending, crash, registered, initialized, clock,
                 joined, screen, timeSpent>>

\* Mutant: the clock thread is not waited for.
DetachClock ==
  /\ Handles(Verdicts, "join") /\ joined' = initialized /\ handling' = "key"
  /\ UNCHANGED <<application, at, events, pending, crash, registered, initialized, running,
                 clock, screen, timeSpent>>

JoinClock ==
  /\ Handles(Verdicts, "join") /\ ~joined /\ (initialized => clock = "ended")
  /\ IF initialized
     THEN joined' = TRUE /\ handling' = "key" /\ UNCHANGED <<at, events, pending>>
     ELSE Handled /\ UNCHANGED joined
  /\ UNCHANGED <<application, crash, registered, initialized, running, clock, screen,
                 timeSpent>>

\* A second verdict: join() throws a system_error, which is a runtime_error.  run()
\* catches the one from FINISHED and fires FAILED, from outside its try block.
JoinThrows ==
  /\ Handles(Verdicts, "join") /\ joined
  /\ IF pending.type = "APPLICATION_FINISHED"
     THEN Fire(Event("APPLICATION_FAILED"), "ended") /\ handling' = "none" /\ UNCHANGED crash
     ELSE Dies("unjoinable_clock") /\ UNCHANGED handling
  /\ UNCHANGED <<application, registered, initialized, running, clock, joined, screen,
                 timeSpent>>

\* "press any key to exit..."
KeyPressed ==
  /\ Handles(Verdicts, "key") /\ Handled /\ screen' = "closed"
  /\ UNCHANGED <<application, crash, registered, initialized, running, clock, joined,
                 timeSpent>>

Listen == OpenScreen \/ StampTime \/ PrintState \/ PrintData \/ Ignore \/ StopClock
            \/ JoinClock \/ JoinThrows

(***************************************************************************)
(* CursesListener::updateClock, the thread that redraws the times and      *)
(* looks for a change of the terminal's size.                              *)
(***************************************************************************)
Tick(from, to) ==
  /\ crash = "no" /\ clock = from /\ clock' = to
  /\ UNCHANGED <<appVars, registered, initialized, running, joined, screen, handling, timeSpent>>

\* Mutant: the thread never looks at the flag.
ClockRunsOn == Tick("check", "draw") \/ Tick("draw", "key") \/ Tick("key", "check")

Clock ==
  \/ running /\ Tick("check", "draw")
  \/ ~running /\ Tick("check", "ended")
  \/ Tick("draw", "key")
  \/ Tick("key", "check")
  \/ Tick("resize", "check")

Resize == Tick("key", "resize")

Failure == Fails /\ UNCHANGED <<registered, display>>

Next == Main \/ Failure \/ Signal \/ Listen \/ KeyPressed \/ Clock \/ Resize

\* Main, its listener and the clock go on; a failure, a signal, a key and a resize need
\* not come.
\* The listener gets the mutex in the end: the clock gives it up for the 10 ms it waits for
\* a key in each of its rounds.
Fairness == WF_vars(Main) /\ SF_vars(Listen) /\ WF_vars(Clock)

Spec == Init /\ [][Next]_vars /\ Fairness

-----------------------------------------------------------------------------
\* The verdicts fired so far.
Fired == {i \in DOMAIN events : events[i].type \in Verdicts}

\* The program is over, or only waits for its user.
Ended == crash # "no" \/ at = "exited" \/ handling = "key"

\* A listener of a run that was prepared, and is not a dry run, hears one verdict, and
\* nothing after it.
OneVerdict ==
  ~bootFailed /\ ~dryRun => \A i \in Fired : i = Len(events)

\* The display crashes nothing but a dry run or a run that was started although its
\* preparation had failed, and never sees a fourth verdict; a run without executions
\* follows a failed preparation only; the map of times breaks while queries run only.
CrashesOnly ==
  /\ crash \in {"unjoinable_clock", "null_processor", "no_executions"} =>
       bootFailed \/ (dryRun /\ crash = "unjoinable_clock")
  /\ crash = "unjoinable_clock" => joined /\ Cardinality(Fired) \in {2, 3}
  /\ crash = "map_race" => at = "process"
  /\ crash = "deleted_application" => Fired # {}

\* The clock thread has ended when the screen is closed and when the program is left.
ClockEndsFirst == screen = "closed" \/ at = "exited" => clock \in {"none", "ended"}

\* A run that was prepared comes to an end.
RunEnds == <>(Ended \/ bootFailed)

\* A stopped run ends, even when it executes a graph whose preparation has failed.
StopEnds == stopped ~> Ended
=============================================================================
