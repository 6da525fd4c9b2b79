-------------------------- MODULE AsyncQueryExecutor --------------------------
(***************************************************************************)
(* One database execution: PGQueryExecution schedules its query, and each  *)
(* call of process() lets its AsyncQueryExecutor take one step with the    *)
(* server, over a connection that blocks when it writes and does not wait  *)
(* when it reads.  The executor has the one task that QueryProcessor       *)
(* queues.  stop() may come from another thread, and the processor may     *)
(* clean up because another execution was cancelled.                       *)
(*                                                                         *)
(* The flag cancelRequest is tested at the start of a call and again       *)
(* before rows are sent; a stop between the two ends the call as a stop    *)
(* before the first does, so a call is one action.                         *)
(***************************************************************************)
EXTENDS PostgresServer

CONSTANTS
  Inputs,         \* the possible in ports: sequences of row counts
  Injectors,      \* "default", "noresult"
  Chunk,          \* rowsPerChunk
  CopyThreshold   \* the option copy-threshold

ASSUME ExecutorAssumption ==
  /\ Chunk \in Nat \ {0} /\ CopyThreshold \in Nat /\ MaxRows \in Nat
  /\ Injectors \subseteq {"default", "noresult"}
  /\ Inputs \subseteq Seq(Nat)

VARIABLES
  tables, injector, \* what the execution got: fixed
  steps,            \* DependencyInjector::steps
  state,            \* QueryTask::state, "NONE" before addQuery
  result,           \* the kind of the result that is kept from call to call
  queryNo,          \* how many steps are through
  nextRow,          \* lastRowSent + 1
  data,             \* the rows read and not handed over
  columns, table,   \* the result table: whether it was created, and its rows
  cancelRequest,
  ending            \* how the calls of process() ended

input == <<tables, injector>>
task == <<steps, state, result, queryNo, nextRow, data, columns, table>>
vars == <<server, input, task, cancelRequest, ending>>

States == {"NONE", "INITIAL", "CONNECTED", "QUERY_SENDING", "QUERY_SENT", "DONE", "FAILED"}

TypeOK ==
  /\ tables \in Inputs /\ injector \in Injectors
  /\ state \in States /\ result \in {"none", "COPY_IN", "COPY_OUT"}
  /\ queryNo \in 0..Len(steps) /\ nextRow \in Nat
  /\ data \in Seq(Nat) /\ table \in Seq(Nat)
  /\ columns \in BOOLEAN /\ cancelRequest \in BOOLEAN
  /\ ending \in {"none", "done", "failed", "cancelled"}
  /\ link \in {"none", "up", "down", "finished"}
  /\ \A i \in DOMAIN wire : wire[i].kind \in Kinds

Init ==
  /\ Idle
  /\ tables \in Inputs /\ injector \in Injectors
  /\ steps = <<>> /\ state = "NONE" /\ result = "none" /\ queryNo = 0 /\ nextRow = 0
  /\ data = <<>> /\ columns = FALSE /\ table = <<>>
  /\ cancelRequest = FALSE /\ ending = "none"

-----------------------------------------------------------------------------
\* schedule(): whatever the option says, the threshold is 0.
Schedule ==
  /\ state = "NONE" /\ ending = "none"
  /\ steps' = Inject(injector, tables, 0)
  /\ state' = "INITIAL"
  /\ UNCHANGED <<server, input, result, queryNo, nextRow, data, columns, table,
                 cancelRequest, ending>>

\* process() is called and finds no request to cancel.
Called(s) == ending = "none" /\ ~cancelRequest /\ state = s

\* Mutant: the query is cancelled, its connection stays.
CleanUpHalf(how) ==
  ending' = how /\ UNCHANGED server

\* The connection, if there is one, is cancelled and finished.
CleanUp(how) ==
  /\ ending' = how
  /\ link' = (IF link = "none" THEN "none" ELSE "finished")
  /\ UNCHANGED <<script, at, mode, copyEnded, stored, produced, wire>>

\* libpq gives a connection object, even one that the server has refused.
Connect ==
  /\ Called("INITIAL")
  /\ state' = "CONNECTED" /\ link' = "up"
  /\ UNCHANGED <<script, at, mode, copyEnded, stored, produced, wire, input, steps, result,
                 queryNo, nextRow, data, columns, table, cancelRequest, ending>>

ConnectFails ==
  /\ Called("INITIAL")
  /\ CleanUp("failed")
  /\ UNCHANGED <<input, task, cancelRequest>>

SendQuery ==
  /\ Called("CONNECTED") /\ link = "up"
  /\ script' = steps /\ mode' = "running" /\ stored' = [t \in DOMAIN tables |-> <<>>]
  /\ state' = "QUERY_SENDING"
  /\ UNCHANGED <<link, at, copyEnded, produced, wire, input, steps, result, queryNo,
                 nextRow, data, columns, table, cancelRequest, ending>>

Flush ==
  /\ Called("QUERY_SENDING")
  /\ state' = "QUERY_SENT"
  /\ UNCHANGED <<server, input, steps, result, queryNo, nextRow, data, columns, table,
                 cancelRequest, ending>>

\* Sending the query, or reading what the server says, fails.
Broken ==
  /\ Called("CONNECTED") \/ Called("QUERY_SENT")
  /\ link = "down"
  /\ CleanUp("failed")
  /\ UNCHANGED <<input, task, cancelRequest>>

-----------------------------------------------------------------------------
(***************************************************************************)
(* QUERY_SENT: the next result is read, unless one is kept.                *)
(***************************************************************************)
Reads == Called("QUERY_SENT") /\ link = "up"
Comes(kind) == state = "QUERY_SENT" /\ result = "none" /\ wire # <<>> /\ Head(wire).kind = kind
Gets(kind) == Reads /\ Comes(kind)
Handles(kind) == Reads /\ (result = kind \/ Gets(kind))
Unread == IF result = "none" THEN Tail(wire) ELSE wire

Done ==
  /\ Gets("READY")
  /\ state' = "DONE" /\ ending' = "done" /\ link' = "finished" /\ wire' = Tail(wire)
  /\ UNCHANGED <<script, at, mode, copyEnded, stored, produced, input, steps, result,
                 queryNo, nextRow, data, columns, table, cancelRequest>>

Failed ==
  /\ Gets("FATAL_ERROR")
  /\ state' = "FAILED" /\ CleanUp("failed")
  /\ UNCHANGED <<input, steps, result, queryNo, nextRow, data, columns, table,
                 cancelRequest>>

\* Mutants: only tables are counted; the rows are counted too, beside their command.
StepsThroughTables(kind) == IF kind = "TUPLES_OK" THEN 1 ELSE 0
StepsThroughRows(kind) == IF kind \in {"COMMAND_OK", "TUPLES_OK", "COPY_OUT"} THEN 1 ELSE 0

\* How many steps a result brings to an end.
StepsThrough(kind) == IF kind \in {"COMMAND_OK", "TUPLES_OK"} THEN 1 ELSE 0

Command ==
  /\ Gets("COMMAND_OK")
  /\ queryNo' = queryNo + StepsThrough("COMMAND_OK") /\ wire' = Tail(wire)
  /\ UNCHANGED <<link, script, at, mode, copyEnded, stored, produced, input, steps, state,
                 result, nextRow, data, columns, table, cancelRequest, ending>>

Tuples ==
  /\ Gets("TUPLES_OK")
  /\ columns' = TRUE /\ table' = <<>>
  /\ queryNo' = queryNo + StepsThrough("TUPLES_OK") /\ wire' = Tail(wire)
  /\ UNCHANGED <<link, script, at, mode, copyEnded, stored, produced, input, steps, state,
                 result, nextRow, data, cancelRequest, ending>>

-----------------------------------------------------------------------------
(***************************************************************************)
(* COPY IN: one chunk per call, then the end.  A server that has given up  *)
(* in the meantime drops what it gets, and the client learns it later.     *)
(***************************************************************************)
pushed == steps[queryNo + 1].table

RowsRead == IF nextRow + Chunk > tables[pushed] THEN tables[pushed] - nextRow ELSE Chunk

Put ==
  LET chunk == Rows(pushed, nextRow + 1, RowsRead)
  IN  stored' = IF mode = "copying_in"
                THEN [stored EXCEPT ![script[at].table] = @ \o chunk] ELSE stored

CopyChunk ==
  /\ Handles("COPY_IN") /\ nextRow + RowsRead < tables[pushed]
  /\ Put /\ nextRow' = nextRow + RowsRead
  /\ result' = "COPY_IN" /\ wire' = Unread
  /\ UNCHANGED <<link, script, at, mode, copyEnded, produced, input, steps, state, queryNo,
                 data, columns, table, cancelRequest, ending>>

\* Mutants: the next table starts where this one ended; the end is not sent.
RowAfterCopyKept == nextRow + RowsRead
CopyEndMissing == FALSE

RowAfterCopy == 0
CopyEnd == mode = "copying_in"

CopyLastChunk ==
  /\ Handles("COPY_IN") /\ nextRow + RowsRead >= tables[pushed]
  /\ Put /\ nextRow' = RowAfterCopy
  /\ copyEnded' = CopyEnd
  /\ result' = "none" /\ wire' = Unread
  /\ UNCHANGED <<link, script, at, mode, produced, input, steps, state, queryNo, data,
                 columns, table, cancelRequest, ending>>

-----------------------------------------------------------------------------
(***************************************************************************)
(* COPY OUT: all rows that have come are read, and handed over at the end. *)
(***************************************************************************)
Prefix == Max({n \in 0..Len(Unread) : \A i \in 1..n : Unread[i].kind = "ROW"})
Came == [i \in 1..Prefix |-> Unread[i].row]
Rest == SubSeq(Unread, Prefix + 1, Len(Unread))

\* Mutant: the rows of earlier calls are lost.
CollectedLast == Came

Collected == data \o Came

\* The rows that have come are not the last.
ReadRows ==
  /\ Handles("COPY_OUT") /\ Rest = <<>>
  /\ data' = Collected
  /\ result' = "COPY_OUT" /\ wire' = Rest
  /\ UNCHANGED <<link, script, at, mode, copyEnded, stored, produced, input, steps, state,
                 queryNo, nextRow, columns, table, cancelRequest, ending>>

HandOver ==
  /\ Handles("COPY_OUT") /\ Rest # <<>>
  /\ table' = table \o Collected /\ data' = <<>>
  /\ queryNo' = queryNo + StepsThrough("COPY_OUT")
  /\ result' = "none"
  /\ wire' = IF Head(Rest).kind = "COPY_DONE" THEN Tail(Rest) ELSE Rest
  /\ UNCHANGED <<link, script, at, mode, copyEnded, stored, produced, input, steps, state,
                 nextRow, columns, cancelRequest, ending>>

-----------------------------------------------------------------------------
(***************************************************************************)
(* stop(), and the clean-up: by the call that finds the request, or by the *)
(* processor when the run is cancelled.                                    *)
(***************************************************************************)
Stop ==
  /\ ending = "none" /\ ~cancelRequest /\ cancelRequest' = TRUE
  /\ UNCHANGED <<server, input, task, ending>>

Cancelled ==
  /\ ending = "none" /\ cancelRequest /\ state # "NONE"
  /\ CleanUp("cancelled")
  /\ UNCHANGED <<input, task, cancelRequest>>

CleanedUp ==
  /\ ending = "none"
  /\ CleanUp("cancelled")
  /\ UNCHANGED <<input, task, cancelRequest>>

Client ==
  \/ Schedule \/ Connect \/ ConnectFails \/ SendQuery \/ Flush \/ Broken
  \/ Done \/ Failed \/ Command \/ Tuples
  \/ CopyChunk \/ CopyLastChunk \/ ReadRows \/ HandOver
  \/ Cancelled

Server == Serve /\ UNCHANGED <<input, task, cancelRequest, ending>>
Trouble == (Fail \/ GoDown) /\ UNCHANGED <<input, task, cancelRequest, ending>>

Next == Client \/ Server \/ Trouble \/ Stop \/ CleanedUp

Spec == Init /\ [][Next]_vars

\* process() is called again and again, and the server goes on with its script.
FairSpec == Spec /\ WF_vars(Client) /\ WF_vars(Server)

-----------------------------------------------------------------------------
\* The step that the executor believes to be at is the one that the server is at, when
\* rows are sent: the steps are counted by the results that come back, and rows of the
\* wrong table, or of none, would be sent otherwise.
StepsMatch ==
  Handles("COPY_IN") => /\ steps[queryNo + 1].action = "COPY_IN"
                        /\ mode = "copying_in" => at = queryNo + 1

\* A table that the server has taken in is the table that was at the in port: every row,
\* once, in order, though it is sent in chunks over many calls.
TablesArriveWhole ==
  \A i \in 1..Len(script) :
    script[i].action = "COPY_IN" /\ (i < at \/ (i = at /\ copyEnded)) =>
      stored[script[i].table] = Rows(script[i].table, 1, tables[script[i].table])

\* An execution is done only with all rows of the result, in order, though they come over
\* many calls, and with a table to hold them.
ResultIsWhole ==
  ending = "done" => columns /\ table = [i \in 1..produced |-> i]

\* The executor and the server never wait for each other: the calls of process() come to
\* an end.
Ends == <>(ending # "none")

\* "use copy instead of value injection when size of rows > threshold": a table with no
\* more rows than the threshold is injected by value.
ThresholdObeyed ==
  \A i \in 1..Len(steps) :
    steps[i].action = "COPY_IN" => tables[steps[i].table] > CopyThreshold

\* To QueryProcessor, the execution is a connection that is opened, answered and closed.
Connection ==
  CASE link = "none" -> "none"
    [] link = "finished" -> "closed"
    [] link = "down" -> "error"
    [] link = "up" -> IF Comes("READY") THEN "answered"
                      ELSE IF Comes("FATAL_ERROR") THEN "error" ELSE "open"
Task == INSTANCE QueryTask WITH conn <- Connection
ActsAsTask == Task!Spec
=============================================================================
