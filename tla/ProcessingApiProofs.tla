------------------------- MODULE ProcessingApiProofs -------------------------
(***************************************************************************)
(* Proofs about ProcessingApi, for every query and every number of events: *)
(* the queue between the two threads keeps what is fired in order, and a   *)
(* client that stays in one thread is safe once its run is prepared.       *)
(***************************************************************************)
EXTENDS ProcessingApi, TLAPS, SequenceTheorems

\* Sequences of events, and a front that stays while getEvent() holds it.
Queued ==
  /\ events \in Seq(Events) /\ queue \in Seq(Events) /\ received \in Seq(Events)
  /\ pending \in Events \cup {None}
  /\ peeked => queue # <<>>

\* The inductive invariant of the first proof.
Kept == Queued /\ EventsInOrder

USE DEF appVars, client, application, option

\* No event is the mark of none.
LEMMA EventsAreEvents == None \notin Events
<1>1. \A e \in Events : e.type # "NONE"
  BY DEF Events, Event, StateChange, ReceiveData, CacheLoaded, Verdicts
<1>2. None.type = "NONE"
  BY DEF None
<1>3. QED
  BY <1>1, <1>2

\* A step of the application fires an event that the listener then handles, or none.
Fires ==
  \E e \in Events : pending = None /\ events' = Append(events, e) /\ pending' = e

\* What is told of an execution are events.
LEMMA StatesAreEvents ==
  ASSUME NEW e \in Execs
  PROVE  {StateChange(e, "CONNECTED"), StateChange(e, "DONE"), StateChange(e, "CACHED"),
          ReceiveData(e), CacheLoaded(e)} \subseteq Events
BY DEF Events

\* The events of the application are events.
LEMMA TypesAreEvents ==
  \A t \in Verdicts \cup {"APPLICATION_INITIALIZED", "QUERY_PREPARED"} : Event(t) \in Events
BY DEF Events

\* A step of the application fires one event, or none.
LEMMA AppFires == Bootstrap \/ Run \/ Fails => Fires \/ UNCHANGED <<events, pending>>
<1> SUFFICES ASSUME Bootstrap \/ Run \/ Fails PROVE Fires \/ UNCHANGED <<events, pending>>
  OBVIOUS
<1> USE ApiAssumption DEF Fires, Runs, Fire, Quiet
<1>1. CASE Configure \/ Parse \/ AllDone \/ Escapes
  BY <1>1 DEF Configure, Parse, AllDone, Escapes, Dies
<1>2. CASE Populate \/ Prepared
  <2>1. Event("APPLICATION_INITIALIZED") \in Events /\ Event("QUERY_PREPARED") \in Events
    BY TypesAreEvents
  <2>2. CASE Populate
    BY <2>1, <2>2 DEF Populate
  <2>3. CASE Prepared
    BY <2>1, <2>3 DEF Prepared
  <2>4. QED
    BY <1>2, <2>2, <2>3
<1>6. CASE BootstrapFails
  <2>1. Event("APPLICATION_FAILED") \in Events
    BY TypesAreEvents DEF Verdicts
  <2>2. pending = None /\ events' = Append(events, Event("APPLICATION_FAILED"))
        /\ pending' = Event("APPLICATION_FAILED")
    BY <1>6 DEF BootstrapFails
  <2>3. QED
    BY <2>1, <2>2
<1>3. CASE Finished \/ Cancelled \/ ProcessFails
  BY <1>3, TypesAreEvents DEF Finished, Cancelled, ProcessFails, Verdicts
<1>4. CASE Process
  BY <1>4, TypesAreEvents DEF Process, Dies, Verdicts
<1>5. ASSUME NEW e \in Execs, Load(e) \/ Connected(e) \/ Done(e)
      PROVE  Fires \/ UNCHANGED <<events, pending>>
  BY <1>5, StatesAreEvents DEF Load, LoadCached, TellCached, TellReceived, TellLoaded, Tell,
                               TellUnused, Connected, Done
<1>7. QED
  BY <1>1, <1>2, <1>3, <1>4, <1>5, <1>6 DEF Bootstrap, Run, Fails

\* At the start nothing was fired.
LEMMA KeptInit == Init => Kept
BY DEF Init, AppInit, Kept, Queued, EventsInOrder

\* Every step of either thread keeps the events in order.
LEMMA KeptNext == Kept /\ [Next]_vars => Kept'
<1> SUFFICES ASSUME Kept, [Next]_vars PROVE Kept'
  OBVIOUS
<1> USE DEF Kept, Queued, EventsInOrder
<1>0. received \o queue \in Seq(Events)
  BY ConcatProperties
<1>1. CASE App
  <2>1. CASE UNCHANGED <<events, pending>>
    BY <1>1, <2>1 DEF App
  <2>2. CASE Fires
    <3>1. PICK e \in Events : pending = None /\ events' = Append(events, e) /\ pending' = e
      BY <2>2 DEF Fires
    <3>2. events = received \o queue
      BY <1>0, <3>1, ConcatEmptySeq
    <3>3. events' = (received \o queue) \o <<e>>
      BY <1>0, <3>1, <3>2, AppendIsConcat
    <3>4. e # None
      BY EventsAreEvents
    <3>5. events' \in Seq(Events)
      BY <3>1, AppendProperties
    <3>6. QED
      BY <1>1, <3>1, <3>3, <3>4, <3>5 DEF App
  <2>3. QED
    BY <1>1, <2>1, <2>2, AppFires DEF App
<1>2. CASE Push
  <2>1. pending \in Events /\ queue' = Append(queue, pending) /\ pending' = None
    BY <1>2 DEF Push
  <2>2. queue' = queue \o <<pending>> /\ queue' \in Seq(Events) /\ queue' # <<>>
    BY <2>1, AppendIsConcat, AppendProperties
  <2>3. <<pending>> \in Seq(Events)
    BY <2>1
  <2>4. received \o queue' = (received \o queue) \o <<pending>>
    BY <2>2, <2>3, ConcatAssociative
  <2>5. received \o queue' \in Seq(Events)
    BY <2>2, ConcatProperties
  <2>6. (received \o queue') \o <<>> = received \o queue'
    BY <2>5, ConcatEmptySeq
  <2>7. events = (received \o queue) \o <<pending>>
    BY <1>2 DEF Push
  <2>8. UNCHANGED <<events, received, peeked>>
    BY <1>2 DEF Push
  <2>9. QED
    BY <2>1, <2>2, <2>4, <2>6, <2>7, <2>8
<1>3. CASE Pop
  <2>1. queue # <<>> /\ queue' = Tail(queue) /\ received' = Append(received, Head(queue))
    BY <1>3 DEF Pop
  <2>2. Head(queue) \in Events /\ Tail(queue) \in Seq(Events)
    BY <2>1, HeadTailProperties
  <2>3. queue = <<Head(queue)>> \o Tail(queue)
    BY <2>1, HeadTailProperties
  <2>4. received' = received \o <<Head(queue)>> /\ received' \in Seq(Events)
    BY <2>1, <2>2, AppendIsConcat, AppendProperties
  <2>5. <<Head(queue)>> \in Seq(Events)
    BY <2>2
  <2>6. received' \o queue' = received \o queue
    BY <2>1, <2>2, <2>3, <2>4, <2>5, ConcatAssociative
  <2>7. UNCHANGED <<events, pending>> /\ ~peeked'
    BY <1>3 DEF Pop
  <2>8. QED
    BY <2>1, <2>2, <2>4, <2>6, <2>7
<1>4. CASE Configures \/ (\E detached \in BOOLEAN : Start(detached)) \/ Peek \/ StopRun \/ Destroy
  <2>1. UNCHANGED <<events, pending>>
    BY <1>4 DEF Configures, Start, Peek, StopRun, Destroy, Quiet
  <2>2. UNCHANGED <<queue, received>> /\ (peeked' = peeked \/ Peek)
    BY <1>4 DEF Configures, Start, Peek, StopRun, Destroy
  <2>3. peeked' => queue # <<>>
    BY <2>2, Zenon DEF Peek
  <2>4. EventsInOrder'
    BY <2>1, <2>2
  <2>5. QED
    BY <2>1, <2>2, <2>3, <2>4
<1>5. CASE UNCHANGED vars
  BY <1>5 DEF vars
<1>6. QED
  BY <1>1, <1>2, <1>3, <1>4, <1>5 DEF Next, Receive

\* No event is lost, repeated or overtaken between the two threads, however many are fired.
THEOREM EventsArriveInOrder == Spec => []EventsInOrder
<1>1. Kept => EventsInOrder
  BY DEF Kept
<1>2. QED
  BY <1>1, KeptInit, KeptNext, PTL DEF Spec

-----------------------------------------------------------------------------
\* After the first steps of bootstrap() there is a processor, and later a graph, unless an
\* exception was caught.
Built ==
  /\ at \in Points /\ bootFailed \in BOOLEAN /\ async \in BOOLEAN
  /\ at \notin {"new", "configure"} => processor = TRUE \/ bootFailed
  /\ at \notin {"new", "configure", "parse", "populate"} => graph = Execs \/ bootFailed

Safe == Built /\ SynchronousIsSafe

\* At the start nothing has crashed.
LEMMA SafeInit == Init => Safe
BY DEF Init, AppInit, Safe, Built, SynchronousIsSafe, Points, Booting

\* Once a bootstrap has not failed there are a processor and executions.
LEMMA BuiltNext == Built /\ [Next]_vars => Built'
<1> SUFFICES ASSUME Built, [Next]_vars PROVE Built'
  OBVIOUS
<1> USE DEF Built, Points, Booting, Runs, Quiet, Fire, Dies
<1>1. CASE Configure /\ UNCHANGED client
  BY <1>1 DEF Configure
<1>2. CASE (Parse \/ Populate \/ Prepared \/ \E e \in Execs : Load(e)) /\ UNCHANGED client
  BY <1>2 DEF Parse, Populate, Prepared, Load, LoadCached, TellCached, TellReceived, TellLoaded,
              Tell, TellUnused
<1>3. CASE Run /\ UNCHANGED client
  BY <1>3 DEF Run, Process, AllDone, Finished, Cancelled, Connected, Done
<1>4. CASE Fails /\ UNCHANGED client
  BY <1>4 DEF Fails, BootstrapFails, ProcessFails, Escapes
<1>5. CASE Push \/ Receive \/ StopRun \/ Destroy
  BY <1>5 DEF Push, Receive, Peek, Pop, StopRun, Destroy
<1>6. CASE Configures \/ \E detached \in BOOLEAN : Start(detached)
  BY <1>6 DEF Configures, Start
<1>7. CASE UNCHANGED vars
  BY <1>7 DEF vars
<1>8. QED
  BY <1>1, <1>2, <1>3, <1>4, <1>5, <1>6, <1>7 DEF Next, App, Bootstrap

\* No step of a client in one thread crashes a run that was prepared.
LEMMA SafeNext == Safe /\ [Next]_vars => Safe'
<1> SUFFICES ASSUME Built, SynchronousIsSafe, [Next]_vars PROVE SynchronousIsSafe'
  BY BuiltNext DEF Safe
<1> USE DEF Built, Points, Booting, Runs, Quiet, Fire, Dies, SynchronousIsSafe
<1>1. CASE App /\ ~Process
  <2>1. crash' \in {crash, "logic_error"} /\ async' = async /\ (bootFailed' = bootFailed \/ bootFailed' = TRUE)
    BY <1>1 DEF App, Bootstrap, Run, Fails, Configure, Parse, Populate, Prepared, Load, LoadCached,
                TellCached, TellReceived, TellLoaded, Tell, TellUnused, AllDone, Finished, Cancelled, Connected, Done, BootstrapFails, ProcessFails, Escapes
  <2>2. crash' \notin {"no", "logic_error"} => crash \notin {"no", "logic_error"}
    BY <2>1
  <2>3. CASE bootFailed' = bootFailed
    <3>1. crash \notin {"no", "logic_error"} => async' \/ bootFailed'
      BY <2>1, <2>3, Zenon
    <3>2. QED
      BY <2>2, <3>1
  <2>4. CASE bootFailed' = TRUE
    BY <2>4
  <2>5. QED
    BY <2>1, <2>3, <2>4
<1>2. CASE App /\ Process
  BY <1>2, ApplicationAssumption DEF App, Process
<1>3. CASE Push
  BY <1>3 DEF Push
<1>4. CASE Destroy \/ StopRun
  BY <1>4 DEF Destroy, StopRun, Free, Running
<1>5. CASE Receive \/ Configures
  BY <1>5 DEF Receive, Peek, Pop, Configures
<1>6. CASE \E detached \in BOOLEAN : Start(detached)
  BY <1>6 DEF Start
<1>7. CASE UNCHANGED vars
  BY <1>7 DEF vars
<1>8. QED
  BY <1>1, <1>2, <1>3, <1>4, <1>5, <1>6, <1>7 DEF Next

\* A client that calls run() in its own thread, after a bootstrap() that has not failed, meets
\* no crash but the one of an exception nobody catches.
THEOREM OneThreadIsSafe == Spec => []SynchronousIsSafe
<1>1. Safe => SynchronousIsSafe
  BY DEF Safe
<1>2. QED
  BY <1>1, SafeInit, SafeNext, PTL DEF Spec
=============================================================================
