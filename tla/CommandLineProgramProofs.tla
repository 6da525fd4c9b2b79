----------------------- MODULE CommandLineProgramProofs -----------------------
(***************************************************************************)
(* Proofs about CommandLineProgram, for every query: whatever main, the    *)
(* display, the clock and the signals do, the clock thread ends first, a   *)
(* run that was prepared reports one verdict, and the process crashes only *)
(* as foreseen.                                                            *)
(***************************************************************************)
EXTENDS CommandLineProgram, TLAPS, SequenceTheorems, FiniteSetTheorems

\* The clock thread is started with the screen, and joined only when it has ended.
Joined ==
  /\ clock = "none" <=> initialized = FALSE
  /\ joined = TRUE => clock = "ended"
  /\ handling = "key" \/ screen = "closed" => joined = TRUE

\* The display hears that the program is initialized once, before it has a clock.
Opened ==
  /\ at \in {"new", "configure", "parse", "populate"} => clock = "none"
  /\ pending.type = "APPLICATION_INITIALIZED" => at = "load" /\ clock = "none"

\* Without a listener nothing is pending; a run that has ended has a verdict pending, or has
\* had one that waited for the clock.
Settled ==
  /\ ~Listening => pending = None /\ clock = "none"
  /\ at = "ended" => pending.type \in Verdicts \/ clock \in {"none", "ended"}
  /\ at \in {"deleted", "exited"} => clock \in {"none", "ended"}

CInv == Joined /\ Opened /\ Settled

USE DEF appVars, display, application, option

\* At the start there is no clock and no event.
LEMMA ClockInit == Init => CInv
BY DEF Init, AppInit, CInv, Joined, Opened, Settled, None

\* What is fired has the type it was made with.
LEMMA TypesOfEvents ==
  /\ \A t \in Verdicts \cup {"APPLICATION_INITIALIZED", "QUERY_PREPARED"} : Event(t).type = t
  /\ \A e \in Execs : \A x \in {"CONNECTED", "DONE", "CACHED"} :
       StateChange(e, x).type = "EXECUTION_STATE_CHANGE" /\ StateChange(e, x).state = x
  /\ \A e \in Execs : ReceiveData(e).type = "RECEIVE_DATA" /\ CacheLoaded(e).type = "CACHE_LOADED"
  /\ None.type = "NONE"
BY DEF Event, StateChange, ReceiveData, CacheLoaded, None

\* The three verdicts are the events that end a run, and no others.
LEMMA VerdictsAreFired ==
  /\ \A t \in {"APPLICATION_FINISHED", "APPLICATION_FAILED", "APPLICATION_CANCELED"} :
       Event(t).type = t /\ t \in Verdicts
  /\ "APPLICATION_INITIALIZED" \notin Verdicts /\ "NONE" \notin Verdicts
BY DEF Event, Verdicts

\* Where executions change, and what is fired of one.
ExecPoints == {"load", "cached", "linked", "received", "process"}
Told(e) == {StateChange(e, x) : x \in {"CONNECTED", "DONE", "CACHED"}}
             \cup {ReceiveData(e), CacheLoaded(e)}

\* A step of an execution fires one event, of a kind that depends on where it is.
LEMMA ExecSteps ==
  ASSUME NEW e \in Execs, Load(e) \/ Connected(e) \/ Done(e)
  PROVE  /\ pending = None /\ at \in ExecPoints
         /\ UNCHANGED <<processor, graph, blocked, stopped, option, crash>>
         /\ \E told \in Told(e), point \in ExecPoints :
              /\ Fire(told, point) /\ (point = "process" <=> at = "process")
              /\ told.type = "EXECUTION_STATE_CHANGE" =>
                   \/ point = "process"
                   \/ point = "cached" /\ told.state = "DONE"
                   \/ point = "linked" /\ told.state = "CACHED"
<1> USE TypesOfEvents DEF ExecPoints, Told, Runs
<1>1. CASE LoadCached(e)
  BY <1>1 DEF LoadCached
<1>2. CASE TellCached(e)
  BY <1>2 DEF TellCached, Tell
<1>3. CASE TellReceived(e)
  BY <1>3 DEF TellReceived, Tell
<1>4. CASE TellLoaded(e)
  BY <1>4 DEF TellLoaded, Tell
<1>5. CASE TellUnused(e)
  BY <1>5 DEF TellUnused
<1>6. CASE Connected(e) \/ Done(e)
  BY <1>6 DEF Connected, Done
<1>7. QED
  BY <1>1, <1>2, <1>3, <1>4, <1>5, <1>6 DEF Load

\* What goes on in the application leaves the display alone, and does not end without firing
\* a verdict.
LEMMA AppSettles ==
  ASSUME Bootstrap \/ Run \/ Fails, Opened, Settled, UNCHANGED display
  PROVE  Opened' /\ Settled'
<1>0. clock' = clock
  OBVIOUS
<1> USE <1>0, TypesOfEvents, VerdictsAreFired DEF Opened, Settled, Runs, Fire, Quiet, Dies
<1>1. CASE Configure \/ Parse
  BY <1>1 DEF Configure, Parse
<1>2. CASE Populate
  BY <1>2 DEF Populate
<1>3. CASE Prepared
  BY <1>3 DEF Prepared
<1>4. ASSUME NEW e \in Execs, Load(e) \/ Connected(e) \/ Done(e)
      PROVE  Opened' /\ Settled'
  <2>1. PICK told \in Told(e), point \in ExecPoints : Fire(told, point)
    BY <1>4, ExecSteps
  <2>2. pending = None /\ at' \in ExecPoints /\ at \in ExecPoints
    BY <1>4, <2>1, ExecSteps
  <2>3. told.type \in {"EXECUTION_STATE_CHANGE", "RECEIVE_DATA", "CACHE_LOADED"}
    BY DEF Told
  <2>4. pending' = IF Listening THEN told ELSE None
    BY <2>1
  <2>5. QED
    BY <2>2, <2>3, <2>4 DEF ExecPoints
<1>5. CASE Process
  <2>1. pending = None /\ at = "run" /\ at' \in {"run", "returned", "process"}
    BY <1>5 DEF Process
  <2>2. pending' \in {Event("APPLICATION_FINISHED"), None} /\ (~Listening => pending' = None)
    BY <1>5 DEF Process
  <2>3. QED
    BY <2>1, <2>2
<1>6. CASE AllDone \/ Finished
  BY <1>6 DEF AllDone, Finished
<1>7. CASE Cancelled \/ ProcessFails
  BY <1>7 DEF Cancelled, ProcessFails
<1>8. CASE BootstrapFails
  BY <1>8 DEF BootstrapFails
<1>9. CASE Escapes
  BY <1>9 DEF Escapes
<1>10. QED
  BY <1>1, <1>2, <1>3, <1>4, <1>5, <1>6, <1>7, <1>8, <1>9 DEF Bootstrap, Run, Fails

\* Main, the display, the clock, signals, keys and failures keep the order of the ends.
LEMMA ClockNext == CInv /\ [Next]_vars => CInv'
<1> SUFFICES ASSUME Joined, Opened, Settled, [Next]_vars PROVE Joined' /\ Opened' /\ Settled'
  BY DEF CInv
<1> USE DEF Joined, Opened, None
<1>1. CASE (Bootstrap \/ Run \/ Fails) /\ UNCHANGED <<registered, display>>
  BY <1>1, AppSettles
<1>2. CASE Start \/ AddHandler \/ Delete \/ Exit
  <2>1. pending = None => pending.type \notin Verdicts
    BY DEF None, Verdicts
  <2>2. QED
    BY <1>2, <2>1 DEF Start, AddHandler, Delete, Exit, Runs, Quiet, Settled
<1>3. CASE Signal
  BY <1>3 DEF Signal, Stop, Settled
<1>4. CASE OpenScreen
  BY <1>4 DEF OpenScreen, Handles, Handled, Settled, Verdicts
<1>5. CASE StampTime
  BY <1>5 DEF StampTime, Settled
<1>6. CASE PrintState \/ PrintData \/ Ignore
  BY <1>6 DEF PrintState, PrintData, Ignore, Handles, Handled, Settled, Verdicts
<1>7. CASE StopClock
  BY <1>7 DEF StopClock, Handles, Settled
<1>8. CASE JoinClock
  BY <1>8 DEF JoinClock, Handles, Handled, Settled
<1>9. CASE JoinThrows
  BY <1>9, VerdictsAreFired DEF JoinThrows, Handles, Fire, Dies, Settled
<1>10. CASE KeyPressed
  BY <1>10 DEF KeyPressed, Handles, Handled, Settled
<1>11. CASE Clock \/ Resize
  BY <1>11 DEF Clock, Resize, Tick, Settled
<1>12. CASE UNCHANGED vars
  BY <1>12 DEF vars, Settled
<1>13. QED
  BY <1>1, <1>2, <1>3, <1>4, <1>5, <1>6, <1>7, <1>8, <1>9, <1>10, <1>11, <1>12
  DEF Next, Main, Failure, Listen

\* The clock thread has ended when the screen is closed and when the program is left, for
\* every query and in every order of main, clock, signals and keys.
THEOREM ClockEndsFirstAlways == Spec => []ClockEndsFirst
<1>1. CInv => ClockEndsFirst
  BY DEF CInv, Joined, Settled, ClockEndsFirst
<1>2. QED
  BY <1>1, ClockInit, ClockNext, PTL DEF Spec

-----------------------------------------------------------------------------
(***************************************************************************)
(* One verdict.  A run is plain if it was prepared and is no dry run.      *)
(***************************************************************************)
Plain == bootFailed = FALSE /\ dryRun = FALSE
Late == {"ended", "deleted", "exited"}
Fatal(event) == event.type \in Verdicts

\* No verdict was fired before the end, and then it is the last event; the clock is joined
\* for a verdict only.
Single ==
  /\ events \in Seq(Events)
  /\ Plain /\ at \notin Late =>
       /\ \A i \in 1 .. Len(events) : ~Fatal(events[i])
       /\ joined = FALSE /\ ~Fatal(pending)
  /\ Plain /\ at \in Late => \A i \in 1 .. Len(events) : Fatal(events[i]) => i = Len(events)
  /\ Plain /\ joined = TRUE => handling = "key" \/ pending = None

\* Firing adds one event to the others.
LEMMA FireAppends ==
  ASSUME events \in Seq(Events), NEW e \in Events, events' = Append(events, e)
  PROVE  /\ events' \in Seq(Events) /\ Len(events') = Len(events) + 1 /\ Len(events) \in Nat
         /\ \A i \in 1 .. Len(events) : events'[i] = events[i]
         /\ events'[Len(events) + 1] = e
BY AppendProperties, LenProperties

\* All that is fired is an event, and fatal exactly if it is a verdict.
LEMMA EventsFired ==
  /\ \A t \in {"APPLICATION_FINISHED", "APPLICATION_FAILED", "APPLICATION_CANCELED"} :
       Event(t) \in Events /\ Fatal(Event(t))
  /\ \A t \in {"APPLICATION_INITIALIZED", "QUERY_PREPARED"} : Event(t) \in Events /\ ~Fatal(Event(t))
  /\ \A e \in Execs : \A told \in Told(e) : told \in Events /\ ~Fatal(told)
  /\ ~Fatal(None)
<1>1. \A t \in Verdicts \cup {"APPLICATION_INITIALIZED", "QUERY_PREPARED"} : Event(t) \in Events
  BY DEF Events
<1>2. \A e \in Execs : \A told \in Told(e) : told \in Events
  BY DEF Events, Told
<1>3. "APPLICATION_INITIALIZED" \notin Verdicts /\ "QUERY_PREPARED" \notin Verdicts
      /\ "EXECUTION_STATE_CHANGE" \notin Verdicts
      /\ "RECEIVE_DATA" \notin Verdicts /\ "CACHE_LOADED" \notin Verdicts
  BY DEF Verdicts
<1>a. \A e \in Execs : \A told \in Told(e) :
        told.type \in {"EXECUTION_STATE_CHANGE", "RECEIVE_DATA", "CACHE_LOADED"}
  BY TypesOfEvents DEF Told
<1>4. \A t \in {"APPLICATION_FINISHED", "APPLICATION_FAILED", "APPLICATION_CANCELED"} : t \in Verdicts
  BY DEF Verdicts
<1>5. QED
  BY <1>1, <1>2, <1>3, <1>a, <1>4, TypesOfEvents, VerdictsAreFired DEF Fatal

\* An event that is no verdict, and goes on before the end.
LEMMA MildFire ==
  ASSUME Single, NEW e \in Events, ~Fatal(e), NEW point, point \notin Late, at \notin Late,
         Fire(e, point), UNCHANGED <<joined, handling, bootFailed, dryRun>>
  PROVE  Single'
<1>1. pending' \in {e, None} /\ at' = point /\ events' = Append(events, e)
  BY DEF Fire
<1>2. ~Fatal(pending')
  BY <1>1, EventsFired
<1>3. QED
  BY <1>1, <1>2, FireAppends DEF Single, Plain

\* A verdict ends the run.
LEMMA LastFire ==
  ASSUME Single, NEW e \in Events, at \notin Late, Fire(e, "ended"),
         UNCHANGED <<joined, handling, bootFailed, dryRun>>
  PROVE  Single'
<1>1. at' \in Late /\ events' = Append(events, e)
  BY DEF Fire, Late
<1>2. QED
  BY <1>1, FireAppends DEF Single, Plain

\* Quiet steps stay before the end, or after it.
LEMMA QuietStep ==
  ASSUME Single, UNCHANGED <<events, pending, joined, handling, bootFailed, dryRun>>,
         (at \in Late) <=> (at' \in Late)
  PROVE  Single'
BY DEF Single, Plain

\* The application fires a verdict only as it ends.
LEMMA AppSingle ==
  ASSUME Single, Bootstrap \/ Run \/ Fails, UNCHANGED display
  PROVE  Single'
<1> USE DEF Late
<1>0. UNCHANGED <<joined, handling>>
  OBVIOUS
<1>1. CASE Configure \/ Parse \/ AllDone
  BY <1>0, <1>1, QuietStep DEF Configure, Parse, AllDone, Runs, Quiet
<1>2. CASE Populate
  BY <1>0, <1>2, MildFire, EventsFired DEF Populate, Runs
<1>3. CASE Prepared
  BY <1>0, <1>3, MildFire, EventsFired DEF Prepared, Runs
<1>4. ASSUME NEW e \in Execs, Load(e) \/ Connected(e) \/ Done(e) PROVE Single'
  <2>1. PICK told \in Told(e), point \in ExecPoints : Fire(told, point)
    BY <1>4, ExecSteps
  <2>2. at \notin Late /\ point \notin Late /\ UNCHANGED option
    BY <1>4, <2>1, ExecSteps DEF ExecPoints
  <2>3. told \in Events /\ ~Fatal(told)
    BY EventsFired
  <2>4. QED
    BY <1>0, <2>1, <2>2, <2>3, MildFire
<1>7. CASE Finished
  BY <1>0, <1>7, LastFire, EventsFired DEF Finished, Runs
<1>8. CASE Cancelled
  BY <1>0, <1>8, LastFire, EventsFired DEF Cancelled, Runs
<1>9. CASE ProcessFails
  BY <1>0, <1>9, LastFire, EventsFired DEF ProcessFails, Runs
<1>10. CASE Escapes
  BY <1>0, <1>10, QuietStep DEF Escapes, Dies
<1>11. CASE BootstrapFails
  <2>1. bootFailed' = TRUE /\ events' = Append(events, Event("APPLICATION_FAILED"))
    BY <1>11 DEF BootstrapFails, Fire
  <2>2. events' \in Seq(Events)
    BY <2>1, EventsFired, FireAppends DEF Single
  <2>3. QED
    BY <2>1, <2>2 DEF Single, Plain
<1>12. CASE Process
  <2>1. CASE UNCHANGED <<events, pending>>
    BY <1>0, <1>12, <2>1, QuietStep DEF Process, Runs, Quiet, Dies, Fire
  <2>2. CASE dryRun /\ Fire(Event("APPLICATION_FINISHED"), "returned")
    <3>1. events' \in Seq(Events)
      BY <2>2, EventsFired, FireAppends DEF Single, Fire
    <3>2. dryRun' = dryRun
      BY <1>12 DEF Process
    <3>3. QED
      BY <2>2, <3>1, <3>2 DEF Single, Plain
  <2>3. QED
    BY <1>12, <2>1, <2>2 DEF Process, Quiet, Dies
<1>13. QED
  BY <1>1, <1>2, <1>3, <1>4, <1>7, <1>8, <1>9, <1>10, <1>11, <1>12
  DEF Bootstrap, Run, Fails

\* At the start no verdict was fired.
LEMMA SingleInit == Init => Single
BY EventsFired DEF Init, AppInit, Single, Late

\* No step of main, the display, the clock or a signal adds a second verdict.
LEMMA SingleNext == Single /\ [Next]_vars => Single'
<1> SUFFICES ASSUME Single, [Next]_vars PROVE Single'
  OBVIOUS
<1> USE DEF Single, Plain, Late
<1>1. CASE (Bootstrap \/ Run \/ Fails) /\ UNCHANGED <<registered, display>>
  BY <1>1, AppSingle
<1>2. CASE Start \/ AddHandler \/ Delete \/ Exit
  BY <1>2, QuietStep DEF Start, AddHandler, Delete, Exit, Runs, Quiet
<1>3. CASE Signal
  BY <1>3, QuietStep DEF Signal, Stop
<1>4. CASE OpenScreen \/ PrintState \/ PrintData \/ Ignore
  BY <1>4, EventsFired DEF OpenScreen, PrintState, PrintData, Ignore, Handled
<1>5. CASE StampTime
  <2>1. Handles({"EXECUTION_STATE_CHANGE"}, "none") /\ handling' = "print"
        /\ UNCHANGED <<at, events, pending, joined, bootFailed, dryRun>>
    BY <1>5 DEF StampTime
  <2>2. pending # None
    BY <2>1 DEF Handles, None
  <2>3. QED
    BY <2>1, <2>2 DEF Handles
<1>6. CASE StopClock
  <2>1. Handles(Verdicts, "none") /\ UNCHANGED <<at, events, pending, joined, bootFailed, dryRun>>
    BY <1>6 DEF StopClock
  <2>2. pending # None
    BY <2>1, EventsFired DEF Handles, Fatal
  <2>3. QED
    BY <2>1, <2>2 DEF Handles
<1>7. CASE JoinClock
  <2>1. Fatal(pending)
    BY <1>7 DEF JoinClock, Handles, Fatal
  <2>2. CASE initialized
    BY <1>7, <2>1, <2>2 DEF JoinClock
  <2>3. CASE ~initialized
    BY <1>7, <2>3, EventsFired DEF JoinClock, Handled
  <2>4. QED
    BY <2>2, <2>3
<1>8. CASE JoinThrows
  <2>1. Handles(Verdicts, "join") /\ joined /\ UNCHANGED <<bootFailed, dryRun, joined>>
    BY <1>8 DEF JoinThrows
  <2>2. pending # None
    BY <2>1, EventsFired DEF Handles, Fatal
  <2>3. ~Plain
    BY <2>1, <2>2 DEF Handles
  <2>4. events' \in Seq(Events)
    <3>1. events' \in {events, Append(events, Event("APPLICATION_FAILED"))}
      BY <1>8 DEF JoinThrows, Fire, Dies
    <3>2. QED
      BY <3>1, EventsFired, AppendProperties
  <2>5. QED
    BY <2>1, <2>3, <2>4
<1>9. CASE KeyPressed
  BY <1>9, EventsFired DEF KeyPressed, Handled
<1>10. CASE Clock \/ Resize
  BY <1>10, QuietStep DEF Clock, Resize, Tick
<1>11. CASE UNCHANGED vars
  BY <1>11, QuietStep DEF vars
<1>12. QED
  BY <1>1, <1>2, <1>3, <1>4, <1>5, <1>6, <1>7, <1>8, <1>9, <1>10, <1>11
  DEF Next, Main, Failure, Listen

\* A listener of a run that was prepared and is no dry run hears one verdict, and nothing after
\* it, for every query.
THEOREM OneVerdictAlways == Spec => []OneVerdict
<1>1. Single => OneVerdict
  BY DEF Single, OneVerdict, Plain, Fired, Fatal
<1>2. QED
  BY <1>1, SingleInit, SingleNext, PTL DEF Spec

-----------------------------------------------------------------------------
(***************************************************************************)
(* Type correctness.                                                       *)
(***************************************************************************)
\* What the events of the application are, one by one.
LEMMA EventFields ==
  /\ None \in Events \cup {None}
  /\ \A e \in Events \cup {None} :
       e.type = "EXECUTION_STATE_CHANGE" =>
         e.exec \in Execs /\ e.state \in {"CONNECTED", "DONE", "CACHED"}
<1>1. \A t \in Verdicts \cup {"APPLICATION_INITIALIZED", "QUERY_PREPARED"} :
        Event(t).type # "EXECUTION_STATE_CHANGE"
  BY DEF Event, Verdicts
<1>2. \A e \in Execs : \A x \in {"CONNECTED", "DONE", "CACHED"} :
        StateChange(e, x).exec = e /\ StateChange(e, x).state = x
  BY DEF StateChange
<1>3. None.type # "EXECUTION_STATE_CHANGE"
      /\ \A e \in Execs : /\ ReceiveData(e).type # "EXECUTION_STATE_CHANGE"
                         /\ CacheLoaded(e).type # "EXECUTION_STATE_CHANGE"
  BY TypesOfEvents
<1>4. QED
  BY <1>1, <1>2, <1>3 DEF Events

\* Firing an event keeps the types of what it touches.
LEMMA FireTypes ==
  ASSUME events \in Seq(Events), NEW e \in Events, NEW point \in Points, Fire(e, point)
  PROVE  at' \in Points /\ events' \in Seq(Events) /\ pending' \in Events \cup {None}
BY AppendProperties DEF Fire

\* A step of the application keeps its types.
LEMMA AppTypes ==
  ASSUME AppTypeOK, Bootstrap \/ Run \/ Fails
  PROVE  AppTypeOK'
<1> USE DEF AppTypeOK, Points, Booting
<1>1. CASE Configure \/ Parse
  BY <1>1 DEF Configure, Parse, Quiet
<1>2. CASE Populate
  BY <1>2, FireTypes, EventsFired DEF Populate, Verdicts
<1>3. CASE Prepared
  BY <1>3, FireTypes, EventsFired DEF Prepared
<1>4. ASSUME NEW e \in Execs, Load(e) \/ Connected(e) \/ Done(e) PROVE AppTypeOK'
  <2>1. progress' \in [Execs -> {"waiting", "connected", "done"}]
    BY <1>4 DEF Load, LoadCached, TellCached, TellReceived, TellLoaded, Tell, TellUnused,
                Connected, Done
  <2>2. PICK told \in Told(e), point \in ExecPoints : Fire(told, point)
    BY <1>4, ExecSteps
  <2>3. at' \in Points /\ events' \in Seq(Events) /\ pending' \in Events \cup {None}
    BY <2>2, FireTypes, EventsFired DEF ExecPoints
  <2>4. UNCHANGED <<processor, graph, blocked, stopped, option, crash>>
    BY <1>4, ExecSteps
  <2>5. QED
    BY <2>1, <2>3, <2>4
<1>5. CASE Process
  <2>1. at' \in Points /\ events' \in Seq(Events) /\ pending' \in Events \cup {None}
    BY <1>5, FireTypes, EventsFired DEF Process, Dies, Quiet
  <2>2. crash' \in Crashes
    BY <1>5 DEF Process, Dies, Crashes
  <2>3. QED
    BY <1>5, <2>1, <2>2 DEF Process
<1>6. CASE AllDone
  BY <1>6 DEF AllDone, Quiet
<1>7. CASE Finished
  BY <1>7, FireTypes, EventsFired DEF Finished
<1>8. CASE Cancelled
  BY <1>8, FireTypes, EventsFired DEF Cancelled
<1>9. CASE ProcessFails
  BY <1>9, FireTypes, EventsFired DEF ProcessFails
<1>10. CASE BootstrapFails
  <2>1. at' \in Points /\ events' \in Seq(Events) /\ pending' \in Events \cup {None}
    BY <1>10, FireTypes, EventsFired DEF BootstrapFails
  <2>2. graph' \subseteq Execs /\ blocked' \subseteq graph'
    BY <1>10 DEF BootstrapFails
  <2>3. QED
    BY <1>10, <2>1, <2>2 DEF BootstrapFails
<1>11. CASE Escapes
  BY <1>11 DEF Escapes, Dies, Crashes
<1>12. QED
  BY <1>1, <1>2, <1>3, <1>4, <1>5, <1>6, <1>7, <1>8, <1>9, <1>10, <1>11 DEF Bootstrap, Run, Fails

\* The types at the start.
LEMMA TypesInit == Init => TypeOK
<1> SUFFICES ASSUME Init PROVE TypeOK
  OBVIOUS
<1>1. crash \in Crashes
  BY DEF Init, AppInit, Crashes
<1>2. pending \in Events \cup {None} /\ events \in Seq(Events)
  BY EventFields DEF Init, AppInit
<1>3. QED
  BY <1>1, <1>2 DEF Init, AppInit, TypeOK, AppTypeOK, Points

\* Main, the display, the clock and signals keep the types.
LEMMA TypesNext == TypeOK /\ [Next]_vars => TypeOK'
<1> SUFFICES ASSUME TypeOK, [Next]_vars PROVE TypeOK'
  OBVIOUS
<1> USE DEF TypeOK
<1>1. CASE (Bootstrap \/ Run \/ Fails) /\ UNCHANGED <<registered, display>>
  BY <1>1, AppTypes
<1>2. CASE Start \/ AddHandler \/ Delete \/ Exit
  BY <1>2 DEF Start, AddHandler, Delete, Exit, Quiet, AppTypeOK, Points, Booting
<1>3. CASE Signal
  BY <1>3 DEF Signal, Stop, AppTypeOK, Crashes
<1>4. CASE OpenScreen \/ PrintState \/ PrintData \/ Ignore \/ KeyPressed
  BY <1>4, EventFields DEF OpenScreen, PrintState, PrintData, Ignore, KeyPressed, Handled, AppTypeOK
<1>5. CASE StampTime
  <2>1. pending.exec \in Execs
    BY <1>5, EventFields DEF StampTime, Handles, AppTypeOK
  <2>2. timeSpent' \subseteq Execs
    BY <1>5, <2>1 DEF StampTime
  <2>3. crash' \in Crashes
    BY <1>5 DEF StampTime, Crashes
  <2>4. QED
    BY <1>5, <2>2, <2>3 DEF StampTime, AppTypeOK
<1>6. CASE StopClock
  BY <1>6 DEF StopClock, AppTypeOK
<1>7. CASE JoinClock
  BY <1>7, EventFields DEF JoinClock, Handled, AppTypeOK
<1>8. CASE JoinThrows
  <2>1. at' \in Points /\ events' \in Seq(Events) /\ pending' \in Events \cup {None}
    BY <1>8, FireTypes, EventsFired DEF JoinThrows, Dies, AppTypeOK, Points
  <2>2. crash' \in Crashes /\ handling' \in {"none", "print", "join", "key"}
    BY <1>8 DEF JoinThrows, Dies, AppTypeOK, Crashes
  <2>3. QED
    BY <1>8, <2>1, <2>2 DEF JoinThrows, AppTypeOK
<1>9. CASE Clock \/ Resize
  BY <1>9 DEF Clock, Resize, Tick, AppTypeOK
<1>10. CASE UNCHANGED vars
  BY <1>10 DEF vars, AppTypeOK
<1>11. QED
  BY <1>1, <1>2, <1>3, <1>4, <1>5, <1>6, <1>7, <1>8, <1>9, <1>10 DEF Next, Main, Failure, Listen

\* Every variable of main, the application and the display has its type: in particular the
\* display is told of executions only, and times no others.
THEOREM TypeCorrect == Spec => []TypeOK
BY TypesInit, TypesNext, PTL DEF Spec

-----------------------------------------------------------------------------
(***************************************************************************)
(* Crashes.  What a crash needs, before it happens: a second verdict for a *)
(* display that has joined its clock; a preparation that has failed; an    *)
(* execution's event; the end of main.                                     *)
(***************************************************************************)
\* What a preparation that has not failed has built.
Built ==
  bootFailed = TRUE \/
    /\ at \in {"new", "configure"} \/ processor = TRUE
    /\ at \in {"new", "configure", "parse", "populate"} \/ graph = Execs

\* The verdicts of a display with a clock: the first one is what the clock is joined for, the
\* second meets the clock joined, and a third follows only if the second was FINISHED.
Counted ==
  /\ IsFiniteSet(Fired)
  /\ at \in {"new", "configure", "parse", "populate"} \/ pending.type = "APPLICATION_INITIALIZED" =>
       Cardinality(Fired) = 0
  /\ initialized = TRUE /\ joined = FALSE =>
       Cardinality(Fired) = IF Fatal(pending) THEN 1 ELSE 0
  /\ joined = TRUE /\ (~Fatal(pending) \/ handling = "key") => Cardinality(Fired) = 1
  /\ joined = TRUE /\ Fatal(pending) /\ handling # "key" =>
       \/ Cardinality(Fired) = 2
       \/ Cardinality(Fired) = 3 /\ pending.type # "APPLICATION_FINISHED"

Early == {"new", "configure", "parse", "populate"}
Unprocessed == Early \cup {"load", "cached", "linked", "received", "booted", "run"}

\* Executions change while they are loaded or processed, and connect in process() only; main ends
\* with a verdict; the display is at rest when nothing is pending, and has no times before process().
Placed ==
  /\ pending = None => handling = "none"
  /\ pending.type = "EXECUTION_STATE_CHANGE" =>
       \/ at = "process"
       \/ at = "cached" /\ pending.state = "DONE"
       \/ at = "linked" /\ pending.state = "CACHED"
  /\ at \in Late => Fired # {}
  /\ at \in Unprocessed => timeSpent = {}

KInv == TypeOK /\ CInv /\ Single /\ Built /\ Counted /\ Placed /\ CrashesOnly

\* Firing adds one to the verdicts if it fires one.
LEMMA FireCounts ==
  ASSUME events \in Seq(Events), NEW e \in Events, events' = Append(events, e), IsFiniteSet(Fired)
  PROVE  /\ IsFiniteSet(Fired') /\ Cardinality(Fired) \in Nat /\ Cardinality(Fired') \in Nat
         /\ Fatal(e) => Cardinality(Fired') = Cardinality(Fired) + 1 /\ Fired' # {}
         /\ ~Fatal(e) => Fired' = Fired
<1>1. DOMAIN events = 1 .. Len(events) /\ DOMAIN events' = 1 .. Len(events) + 1
  BY FireAppends, LenProperties
<1>2. Fatal(e) => Fired' = Fired \cup {Len(events) + 1} /\ Len(events) + 1 \notin Fired
  BY <1>1, FireAppends DEF Fired, Fatal
<1>3. ~Fatal(e) => Fired' = Fired
  BY <1>1, FireAppends DEF Fired, Fatal
<1>4. Cardinality(Fired) \in Nat
  BY FS_CardinalityType
<1>5. IsFiniteSet(Fired \cup {Len(events) + 1})
      /\ (Len(events) + 1 \notin Fired =>
            Cardinality(Fired \cup {Len(events) + 1}) = Cardinality(Fired) + 1)
  BY FS_AddElement
<1>6. QED
  BY <1>2, <1>3, <1>4, <1>5, FS_CardinalityType

\* The count after an event that is no verdict.
LEMMA MildCounts ==
  ASSUME Counted, Single, NEW e \in Events, ~Fatal(e), pending = None,
         e.type = "APPLICATION_INITIALIZED" => at = "populate",
         NEW point, point \notin Early, Fire(e, point), UNCHANGED <<initialized, joined, handling>>
  PROVE  Counted'
<1>1. pending' \in {e, None} /\ at' = point /\ events' = Append(events, e)
  BY DEF Fire
<1>2. Fired' = Fired /\ IsFiniteSet(Fired')
  BY <1>1, FireCounts DEF Counted, Single
<1>3. ~Fatal(pending') /\ ~Fatal(pending)
  BY <1>1, EventsFired
<1>4. pending'.type = "APPLICATION_INITIALIZED" => Cardinality(Fired) = 0
  BY <1>1, TypesOfEvents DEF Counted
<1>5. QED
  BY <1>1, <1>2, <1>3, <1>4 DEF Counted, Early

\* The count after a verdict.
LEMMA VerdictCounts ==
  ASSUME Counted, Single, Settled, Joined, Placed, TypeOK, NEW e \in Events, Fatal(e), pending = None,
         NEW point, point \notin Early, Fire(e, point), UNCHANGED <<initialized, joined, handling>>
  PROVE  Counted' /\ Fired' # {}
<1>1. pending' = (IF Listening THEN e ELSE None) /\ at' = point /\ events' = Append(events, e)
  BY DEF Fire
<1>2. IsFiniteSet(Fired') /\ Cardinality(Fired) \in Nat
      /\ Cardinality(Fired') = Cardinality(Fired) + 1 /\ Fired' # {}
  BY <1>1, FireCounts DEF Counted, Single
<1>3. ~Fatal(pending) /\ handling = "none" /\ e.type # "APPLICATION_INITIALIZED"
  BY EventsFired, VerdictsAreFired DEF Placed, Fatal
<1>4. ~Listening => initialized = FALSE /\ joined = FALSE
  BY DEF Settled, Joined, TypeOK
<1>5. pending'.type # "APPLICATION_INITIALIZED"
  BY <1>1, <1>3, TypesOfEvents
<1>6. QED
  BY <1>1, <1>2, <1>3, <1>4, <1>5 DEF Counted, Early

\* The count after a step that fires nothing and leaves what is pending.
LEMMA QuietCounts ==
  ASSUME Counted, UNCHANGED <<events, pending, initialized, joined, handling>>,
         at' \in Early => at \in Early
  PROVE  Counted'
BY DEF Counted, Early, Fired

\* The application counts right, whatever happens in it.
LEMMA AppCounts ==
  ASSUME Counted, Single, Settled, Joined, Placed, TypeOK, Bootstrap \/ Run \/ Fails,
         UNCHANGED display
  PROVE  Counted'
<1> USE DEF Early
<1>0. UNCHANGED <<initialized, joined, handling>>
  OBVIOUS
<1>1. CASE Configure \/ Parse \/ AllDone
  BY <1>0, <1>1, QuietCounts DEF Configure, Parse, AllDone, Runs, Quiet
<1>2. CASE Populate
  BY <1>0, <1>2, MildCounts, EventsFired DEF Populate, Runs
<1>3. CASE Prepared
  <2>1. Event("QUERY_PREPARED").type = "QUERY_PREPARED"
    BY TypesOfEvents
  <2>2. QED
    BY <1>0, <1>3, <2>1, MildCounts, EventsFired DEF Prepared, Runs
<1>4. ASSUME NEW e \in Execs, Load(e) \/ Connected(e) \/ Done(e) PROVE Counted'
  <2>1. PICK told \in Told(e), point \in ExecPoints : Fire(told, point)
    BY <1>4, ExecSteps
  <2>2. pending = None /\ point \notin Early
    BY <1>4, ExecSteps DEF ExecPoints
  <2>3. told.type # "APPLICATION_INITIALIZED" /\ told \in Events /\ ~Fatal(told)
    BY TypesOfEvents, EventsFired DEF Told
  <2>4. QED
    BY <1>0, <2>1, <2>2, <2>3, MildCounts
<1>5. CASE Process
  <2>1. CASE Fire(Event("APPLICATION_FINISHED"), "returned")
    BY <1>0, <1>5, <2>1, VerdictCounts, EventsFired DEF Process, Runs
  <2>2. CASE ~Fire(Event("APPLICATION_FINISHED"), "returned")
    BY <1>0, <1>5, <2>2, QuietCounts DEF Process, Runs, Quiet, Dies
  <2>3. QED
    BY <2>1, <2>2
<1>6. CASE Finished
  BY <1>0, <1>6, VerdictCounts, EventsFired DEF Finished, Runs
<1>7. CASE Cancelled
  BY <1>0, <1>7, VerdictCounts, EventsFired DEF Cancelled, Runs
<1>8. CASE ProcessFails
  BY <1>0, <1>8, VerdictCounts, EventsFired DEF ProcessFails, Runs
<1>9. CASE BootstrapFails
  BY <1>0, <1>9, VerdictCounts, EventsFired DEF BootstrapFails, Runs
<1>10. CASE Escapes
  BY <1>0, <1>10, QuietCounts DEF Escapes, Dies
<1>11. QED
  BY <1>1, <1>2, <1>3, <1>4, <1>5, <1>6, <1>7, <1>8, <1>9, <1>10 DEF Bootstrap, Run, Fails

\* The application fires the changes of executions at their places, and ends with a verdict.
LEMMA AppPlaces ==
  ASSUME Counted, Single, Settled, Joined, Placed, TypeOK, Bootstrap \/ Run \/ Fails,
         UNCHANGED display
  PROVE  Placed'
<1> USE DEF Placed, Late, Unprocessed, Early
<1>0. UNCHANGED <<handling, timeSpent>> /\ None.type # "EXECUTION_STATE_CHANGE"
  BY TypesOfEvents
<1>1. CASE Configure \/ Parse \/ AllDone
  BY <1>0, <1>1 DEF Configure, Parse, AllDone, Runs, Quiet
<1>2. CASE Populate
  BY <1>0, <1>2, TypesOfEvents DEF Populate, Runs, Fire
<1>3. CASE Prepared
  BY <1>0, <1>3, TypesOfEvents DEF Prepared, Runs, Fire
<1>4. ASSUME NEW e \in Execs, Load(e) \/ Connected(e) \/ Done(e) PROVE Placed'
  <2>1. PICK told \in Told(e), point \in ExecPoints :
          /\ Fire(told, point) /\ (point = "process" <=> at = "process")
          /\ told.type = "EXECUTION_STATE_CHANGE" =>
               \/ point = "process"
               \/ point = "cached" /\ told.state = "DONE"
               \/ point = "linked" /\ told.state = "CACHED"
    BY <1>4, ExecSteps
  <2>2. pending' \in {told, None} /\ at' = point /\ handling = "none"
    BY <1>4, <2>1, ExecSteps DEF Fire
  <2>3. at' \in Unprocessed => at \in Unprocessed
    BY <1>4, <2>1, <2>2, ExecSteps DEF ExecPoints
  <2>4. QED
    BY <1>0, <2>1, <2>2, <2>3 DEF ExecPoints
<1>5. CASE Process
  <2>1. Event("APPLICATION_FINISHED").type # "EXECUTION_STATE_CHANGE"
    BY VerdictsAreFired
  <2>2. QED
    BY <1>0, <1>5, <2>1 DEF Process, Runs, Fire, Quiet, Dies
<1>6. ASSUME NEW t \in {"APPLICATION_FINISHED", "APPLICATION_FAILED", "APPLICATION_CANCELED"},
             NEW point \in {"booted", "ended"}, Fire(Event(t), point), pending = None,
             point = "booted" => at \in Booting
      PROVE  Placed'
  <2>1. Event(t).type # "EXECUTION_STATE_CHANGE"
    BY VerdictsAreFired
  <2>2. Fired' # {}
    BY <1>0, <1>6, VerdictCounts, EventsFired DEF Early
  <2>3. QED
    BY <1>0, <1>6, <2>1, <2>2 DEF Fire, Booting
<1>7. CASE Finished \/ Cancelled \/ ProcessFails
  BY <1>6, <1>7 DEF Finished, Cancelled, ProcessFails, Runs
<1>8. CASE BootstrapFails
  BY <1>6, <1>8 DEF BootstrapFails, Runs
<1>9. CASE Escapes
  BY <1>0, <1>9 DEF Escapes, Dies, Fired
<1>10. QED
  BY <1>1, <1>2, <1>3, <1>4, <1>5, <1>7, <1>8, <1>9 DEF Bootstrap, Run, Fails

\* What bootstrap() builds stays, and a failure is remembered.
LEMMA BuiltNext == Built /\ CInv /\ TypeOK /\ [Next]_vars => Built'
<1> SUFFICES ASSUME Built, Joined, Opened, TypeOK, [Next]_vars PROVE Built'
  BY DEF CInv
<1> USE DEF Built
<1>1. CASE Configure \/ Parse \/ Populate \/ Prepared
  BY <1>1 DEF Configure, Parse, Populate, Prepared, Runs, Quiet, Fire
<1>2. ASSUME NEW e \in Execs, Load(e) \/ Connected(e) \/ Done(e) PROVE Built'
  <2>1. UNCHANGED <<processor, graph, bootFailed>> /\ at \in ExecPoints
    BY <1>2, ExecSteps
  <2>2. QED
    BY <2>1 DEF ExecPoints
<1>3. CASE Process
  BY <1>3 DEF Process, Runs, Fire, Quiet, Dies
<1>4. CASE AllDone \/ Finished \/ Cancelled \/ ProcessFails
  BY <1>4 DEF AllDone, Finished, Cancelled, ProcessFails, Runs, Fire, Quiet
<1>5. CASE BootstrapFails \/ Escapes
  BY <1>5 DEF BootstrapFails, Escapes, Dies
<1>6. CASE Start \/ AddHandler \/ Delete \/ Exit
  BY <1>6 DEF Start, AddHandler, Delete, Exit, Runs, Quiet
<1>7. CASE Signal
  BY <1>7 DEF Signal, Stop
<1>8. CASE \/ OpenScreen \/ StampTime \/ PrintState \/ PrintData \/ Ignore \/ StopClock
           \/ JoinClock \/ KeyPressed
  <2>1. UNCHANGED <<at, processor, graph, bootFailed>>
    BY <1>8 DEF OpenScreen, StampTime, PrintState, PrintData, Ignore, StopClock, JoinClock, KeyPressed, Handled
  <2>2. QED
    BY <2>1
<1>9. CASE JoinThrows
  <2>1. UNCHANGED <<processor, graph, bootFailed>> /\ at' \in {at, "ended"} /\ joined
    BY <1>9 DEF JoinThrows, Fire, Dies
  <2>2. at \notin {"new", "configure", "parse", "populate"}
    BY <2>1 DEF Joined, Opened, TypeOK
  <2>3. QED
    BY <2>1, <2>2
<1>10. CASE Clock \/ Resize \/ UNCHANGED vars
  BY <1>10 DEF Clock, Resize, Tick, vars
<1>11. QED
  BY <1>1, <1>2, <1>3, <1>4, <1>5, <1>6, <1>7, <1>8, <1>9, <1>10
  DEF Next, Main, Bootstrap, Run, Fails, Failure, Listen

\* A verdict that finds the clock joined is the second or the third.
LEMMA ThrowCounts ==
  ASSUME Counted, Placed, Single, Joined, Settled, TypeOK, JoinThrows
  PROVE  Counted' /\ Placed'
<1>1. /\ joined = TRUE /\ handling = "join" /\ Fatal(pending) /\ UNCHANGED <<initialized, joined>>
      /\ pending # None
  BY EventsFired DEF JoinThrows, Handles, Fatal, TypeOK
<1>2. CASE pending.type = "APPLICATION_FINISHED"
  <2>1. Fire(Event("APPLICATION_FAILED"), "ended") /\ handling' = "none"
    BY <1>2 DEF JoinThrows
  <2>2. Listening
    BY <1>1 DEF Settled, Joined
  <2>3. /\ pending' = Event("APPLICATION_FAILED") /\ at' = "ended"
        /\ events' = Append(events, Event("APPLICATION_FAILED"))
    BY <2>1, <2>2 DEF Fire
  <2>4. pending'.type = "APPLICATION_FAILED" /\ Fatal(pending') /\ pending' # None
    BY <2>3, EventsFired, VerdictsAreFired
  <2>5. Cardinality(Fired) = 2
    BY <1>1, <1>2 DEF Counted
  <2>6. IsFiniteSet(Fired') /\ Cardinality(Fired') = 3 /\ Fired' # {}
    BY <2>3, <2>5, FireCounts, EventsFired DEF Counted, Single
  <2>7. QED
    BY <1>1, <2>1, <2>3, <2>4, <2>6 DEF Counted, Placed, Unprocessed, Early
<1>3. CASE pending.type # "APPLICATION_FINISHED"
  <2>1. UNCHANGED <<at, events, pending, handling, timeSpent>>
    BY <1>3 DEF JoinThrows, Dies
  <2>2. QED
    BY <1>1, <2>1 DEF Counted, Placed, Fired
<1>4. QED
  BY <1>2, <1>3

\* The display handles a verdict with the count it came with.
LEMMA DisplayCounts ==
  ASSUME Counted, Placed, Single, Joined, Opened, Settled, TypeOK, Listen \/ KeyPressed
  PROVE  Counted' /\ Placed'
<1>0. /\ ~Fatal(None) /\ None.type # "EXECUTION_STATE_CHANGE" /\ None.type # "APPLICATION_INITIALIZED"
      /\ \A t \in {"APPLICATION_INITIALIZED", "EXECUTION_STATE_CHANGE", "QUERY_PREPARED"} :
            t \notin Verdicts
      /\ "RECEIVE_DATA" \notin Verdicts /\ "CACHE_LOADED" \notin Verdicts
  BY EventsFired, TypesOfEvents DEF Verdicts
<1>1. CASE OpenScreen
  <2>1. pending.type = "APPLICATION_INITIALIZED" /\ clock = "none" /\ joined = FALSE
    BY <1>1 DEF OpenScreen, Handles, Opened, Joined, TypeOK
  <2>2. Cardinality(Fired) = 0
    BY <2>1 DEF Counted
  <2>3. UNCHANGED <<at, events, joined, timeSpent>> /\ pending' = None /\ handling' = "none"
    BY <1>1 DEF OpenScreen, Handled
  <2>4. QED
    BY <1>0, <2>1, <2>2, <2>3 DEF Counted, Placed, Fired
<1>2. CASE StampTime
  <2>1. pending.type = "EXECUTION_STATE_CHANGE" /\ UNCHANGED <<at, events, pending, joined, initialized>>
    BY <1>2 DEF StampTime, Handles
  <2>2. ~Fatal(pending) /\ pending # None
    BY <1>0, <2>1 DEF Fatal
  <2>3. at \in Unprocessed => timeSpent' = {}
    BY <1>2, <2>1 DEF StampTime, Placed, Unprocessed, Early
  <2>4. QED
    BY <2>1, <2>2, <2>3 DEF Counted, Placed, Fired
<1>3. CASE PrintState \/ PrintData \/ Ignore
  <2>1. pending.type \in {"EXECUTION_STATE_CHANGE", "RECEIVE_DATA", "CACHE_LOADED",
                          "QUERY_PREPARED"}
    BY <1>3 DEF PrintState, PrintData, Ignore, Handles
  <2>2. ~Fatal(pending)
    BY <1>0, <2>1 DEF Fatal
  <2>3. /\ UNCHANGED <<at, events, joined, initialized, timeSpent>>
        /\ pending' = None /\ handling' = "none"
    BY <1>3 DEF PrintState, PrintData, Ignore, Handled
  <2>4. QED
    BY <1>0, <2>2, <2>3 DEF Counted, Placed, Fired
<1>4. CASE StopClock
  <2>1. /\ Fatal(pending) /\ handling = "none" /\ handling' = "join"
        /\ UNCHANGED <<at, events, pending, joined, initialized, timeSpent>>
    BY <1>4 DEF StopClock, Handles, Fatal
  <2>2. pending # None
    BY <1>0, <2>1
  <2>3. QED
    BY <2>1, <2>2 DEF Counted, Placed, Fired
<1>5. CASE JoinClock
  <2>1. Fatal(pending) /\ joined = FALSE /\ UNCHANGED <<initialized, events, timeSpent>>
    BY <1>5 DEF JoinClock, Handles, Handled, Fatal, TypeOK
  <2>2. CASE initialized
    <3>1. /\ initialized = TRUE /\ joined' = TRUE /\ handling' = "key" /\ UNCHANGED <<at, pending>>
      BY <1>5, <2>2 DEF JoinClock, TypeOK
    <3>2. pending # None
      BY <1>0, <2>1
    <3>3. Cardinality(Fired) = 1
      BY <2>1, <3>1 DEF Counted
    <3>4. Fatal(pending')
      BY <2>1, <3>1
    <3>5. Counted'
      BY <2>1, <3>1, <3>3, <3>4 DEF Counted, Fired
    <3>6. QED
      BY <2>1, <3>1, <3>2, <3>5 DEF Placed, Fired
  <2>3. CASE ~initialized
    <3>1. pending' = None /\ handling' = "none" /\ UNCHANGED <<at, joined>>
      BY <1>5, <2>3 DEF JoinClock, Handled
    <3>2. QED
      BY <1>0, <2>1, <2>3, <3>1 DEF Counted, Placed, Fired
  <2>4. QED
    BY <2>2, <2>3
<1>6. CASE JoinThrows
  BY <1>6, ThrowCounts
<1>7. CASE KeyPressed
  <2>1. /\ Fatal(pending) /\ handling = "key" /\ joined = TRUE
        /\ pending' = None /\ handling' = "none"
        /\ UNCHANGED <<at, events, joined, initialized, timeSpent>>
    BY <1>7 DEF KeyPressed, Handles, Handled, Joined, Fatal
  <2>2. QED
    BY <1>0, <2>1 DEF Counted, Placed, Fired
<1>8. QED
  BY <1>1, <1>2, <1>3, <1>4, <1>5, <1>6, <1>7 DEF Listen

\* Every step counts right.
LEMMA CountsNext ==
  ASSUME Counted, Placed, Single, CInv, TypeOK, [Next]_vars
  PROVE  Counted' /\ Placed'
<1> USE DEF CInv
<1>1. CASE (Bootstrap \/ Run \/ Fails) /\ UNCHANGED <<registered, display>>
  BY <1>1, AppCounts, AppPlaces
<1>2. CASE Start \/ AddHandler \/ Delete \/ Exit
  <2>1. /\ UNCHANGED <<events, pending, initialized, joined, handling, timeSpent>>
        /\ pending = None
        /\ at' \in Early => at \in Early
        /\ at' \in Late => at \in Late
        /\ at' \in Unprocessed => at \in Unprocessed
    BY <1>2 DEF Start, AddHandler, Delete, Exit, Runs, Quiet, Early, Late, Unprocessed
  <2>2. Placed'
    BY <2>1, TypesOfEvents DEF Placed, Fired
  <2>3. QED
    BY <2>1, <2>2, QuietCounts
<1>3. CASE Signal \/ Clock \/ Resize \/ UNCHANGED vars
  <2>1. UNCHANGED <<at, events, pending, initialized, joined, handling, timeSpent>>
    BY <1>3 DEF Signal, Stop, Clock, Resize, Tick, vars
  <2>2. QED
    BY <2>1, QuietCounts DEF Placed, Fired
<1>4. CASE Listen \/ KeyPressed
  BY <1>4, DisplayCounts
<1>5. QED
  BY <1>1, <1>2, <1>3, <1>4 DEF Next, Main, Failure

\* At the start nothing was fired and nothing is built.
LEMMA KInit == Init => Built /\ Counted /\ Placed /\ CrashesOnly
<1> SUFFICES ASSUME Init PROVE Built /\ Counted /\ Placed /\ CrashesOnly
  OBVIOUS
<1>1. at = "new" /\ Fired = {} /\ pending = None /\ handling = "none" /\ initialized = FALSE
      /\ joined = FALSE /\ crash = "no" /\ timeSpent = {}
  BY DEF Init, AppInit, Fired
<1>2. IsFiniteSet(Fired) /\ Cardinality(Fired) = 0
  BY <1>1, FS_EmptySet
<1>3. QED
  BY <1>1, <1>2, TypesOfEvents DEF Built, Counted, Placed, CrashesOnly, Late

\* A process that has died does nothing any more.
LEMMA DeadRests == TypeOK /\ [Next]_vars /\ crash # "no" => UNCHANGED vars
<1> SUFFICES ASSUME TypeOK, [Next]_vars, crash # "no" PROVE UNCHANGED vars
  OBVIOUS
<1>1. ~(Main \/ Failure)
  BY DEF Main, Failure, Start, AddHandler, Delete, Exit, Bootstrap, Run, Fails, Configure, Parse,
         Populate, Prepared, Load, LoadCached, TellCached, TellReceived, TellLoaded, Tell, TellUnused,
         Connected, Done, Process, AllDone, Finished, Cancelled,
         ProcessFails, BootstrapFails, Escapes, Runs
<1>2. ~(Signal \/ Listen \/ KeyPressed)
  BY DEF Signal, Listen, KeyPressed, OpenScreen, StampTime, PrintState, PrintData, Ignore, StopClock, JoinClock,
         JoinThrows, Handles
<1>3. ~(Clock \/ Resize)
  BY DEF Clock, Resize, Tick
<1>4. QED
  BY <1>1, <1>2, <1>3 DEF Next

\* A process dies in five places only, and of each it is known what led there.
LEMMA CrashesNext ==
  ASSUME TypeOK, CInv, Single, Built, Counted, Placed, CrashesOnly, [Next]_vars
  PROVE  CrashesOnly'
<1>1. CASE crash # "no"
  BY <1>1, DeadRests DEF vars, CrashesOnly, Fired
<1>2. CASE crash = "no" /\ crash' = "no"
  BY <1>2 DEF CrashesOnly
<1>3. CASE crash = "no" /\ Process /\ UNCHANGED <<registered, display>>
  <2>1. at = "run" /\ UNCHANGED bootFailed
    BY <1>3 DEF Process, Runs
  <2>2. crash' \in {"no", "null_processor", "no_executions"}
    BY <1>3 DEF Process, Dies
  <2>3. crash' # "no" => processor # TRUE \/ graph = {}
    BY <1>3 DEF Process, Dies, TypeOK, AppTypeOK
  <2>4. crash' # "no" => bootFailed = TRUE
    BY <2>1, <2>3, ApplicationAssumption DEF Built
  <2>5. QED
    BY <2>1, <2>2, <2>4 DEF CrashesOnly
<1>4. CASE crash = "no" /\ Escapes
  <2>1. crash' = "logic_error"
    BY <1>4 DEF Escapes, Dies
  <2>2. QED
    BY <2>1 DEF CrashesOnly
<1>5. CASE crash = "no" /\ Signal
  <2>1. crash' \in {"no", "deleted_application"} /\ UNCHANGED events
    BY <1>5 DEF Signal
  <2>2. crash' # "no" => at = "deleted"
    BY <1>5 DEF Signal
  <2>3. Fired' = Fired /\ (at = "deleted" => Fired # {})
    BY <2>1 DEF Fired, Placed, Late
  <2>4. QED
    BY <2>1, <2>2, <2>3 DEF CrashesOnly
<1>6. CASE crash = "no" /\ StampTime
  <2>1. crash' \in {"no", "map_race"} /\ UNCHANGED at
        /\ (crash' # "no" => timeSpent' # timeSpent)
    BY <1>6 DEF StampTime
  <2>2. at # "process" => timeSpent' = timeSpent
    BY <1>6 DEF StampTime, Handles, Placed, Unprocessed
  <2>3. QED
    BY <2>1, <2>2 DEF CrashesOnly
<1>7. CASE crash = "no" /\ JoinThrows
  <2>1. /\ crash' \in {"no", "unjoinable_clock"} /\ UNCHANGED <<bootFailed, dryRun, joined>>
        /\ joined = TRUE /\ Fatal(pending) /\ handling = "join"
        /\ crash' # "no" => UNCHANGED events
    BY <1>7 DEF JoinThrows, Handles, Fatal, Dies, Fire, TypeOK
  <2>2. Cardinality(Fired) \in {2, 3}
    BY <2>1 DEF Counted
  <2>3. ~Plain
    BY <2>1, EventsFired DEF Single
  <2>4. QED
    BY <2>1, <2>2, <2>3 DEF CrashesOnly, Fired, Plain, TypeOK, AppTypeOK
<1>8. CASE crash = "no" /\ crash' # "no"
  <2>1. ~(Start \/ AddHandler \/ Delete \/ Exit \/ UNCHANGED vars)
    BY <1>8 DEF Start, AddHandler, Delete, Exit, vars
  <2>2. ~(Bootstrap \/ AllDone \/ Finished \/ Cancelled \/ BootstrapFails \/ ProcessFails)
    BY <1>8 DEF Bootstrap, Configure, Parse, Populate, Prepared, Load, LoadCached, TellCached,
                TellReceived, TellLoaded, Tell, TellUnused, AllDone, Finished,
                Cancelled, BootstrapFails, ProcessFails
  <2>3. ~(\E e \in Execs : Connected(e) \/ Done(e))
    BY <1>8 DEF Connected, Done
  <2>4. ~(OpenScreen \/ PrintState \/ PrintData \/ Ignore \/ StopClock \/ JoinClock \/ KeyPressed)
    BY <1>8 DEF OpenScreen, PrintState, PrintData, Ignore, StopClock, JoinClock, KeyPressed
  <2>5. ~(Clock \/ Resize)
    BY <1>8 DEF Clock, Resize, Tick
  <2>6. QED
    BY <1>3, <1>4, <1>5, <1>6, <1>7, <1>8, <2>1, <2>2, <2>3, <2>4, <2>5
    DEF Next, Main, Run, Fails, Failure, Listen
<1>9. QED
  BY <1>1, <1>2, <1>8

\* The display crashes nothing but a dry run or a run whose preparation has failed, and sees at
\* most three verdicts; main runs without a processor or executions only after a failure.
THEOREM CrashesOnlyAlways == Spec => []CrashesOnly
<1>1. Init => KInv
  BY TypesInit, ClockInit, SingleInit, KInit DEF KInv
<1>2. KInv /\ [Next]_vars => KInv'
  BY TypesNext, ClockNext, SingleNext, BuiltNext, CountsNext, CrashesNext DEF KInv
<1>3. KInv => CrashesOnly
  BY DEF KInv
<1>4. QED
  BY <1>1, <1>2, <1>3, PTL DEF Spec
=============================================================================
