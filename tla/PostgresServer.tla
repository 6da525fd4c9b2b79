---------------------------- MODULE PostgresServer ----------------------------
(***************************************************************************)
(* The database at the other end of a connection, and libpq, as far as     *)
(* AsyncQueryExecutor uses them.  The server runs the statements of a      *)
(* query one by one and answers each; a statement may fail, which ends the *)
(* query, and the connection may go down.                                  *)
(***************************************************************************)
EXTENDS DependencyInjector

CONSTANT MaxRows   \* bound on the rows of a query's result

VARIABLES
  link,       \* the connection: "none", "up", "down" or "finished"
  script, at, \* the statements sent, and the one the server is at
  mode,       \* what the server does
  copyEnded,  \* the client has sent the end of its rows
  stored,     \* the rows that COPY has put into each table
  produced,   \* how many rows of the result were sent
  wire        \* the answers on their way to the client

server == <<link, script, at, mode, copyEnded, stored, produced, wire>>

Rows(t, first, count) == [k \in 1..count |-> <<t, first + k - 1>>]
Message(kind) == [kind |-> kind, row |-> 0]
Send(messages) == wire' = wire \o messages

Kinds == {"COMMAND_OK", "TUPLES_OK", "COPY_IN", "COPY_OUT", "ROW", "COPY_DONE",
          "FATAL_ERROR", "READY"}

Idle ==
  /\ link = "none" /\ script = <<>> /\ at = 1 /\ mode = "idle" /\ copyEnded = FALSE
  /\ stored = <<>> /\ produced = 0 /\ wire = <<>>

Runs(actions) ==
  /\ link = "up" /\ mode = "running" /\ at <= Len(script) /\ script[at].action \in actions

RunCommand ==
  /\ Runs({"COMMAND", "INSERT"})
  /\ Send(<<Message("COMMAND_OK")>>) /\ at' = at + 1
  /\ UNCHANGED <<link, script, mode, copyEnded, stored, produced>>

RunQuery ==
  /\ Runs({"GET_COLUMN_TYPES"})
  /\ Send(<<Message("TUPLES_OK")>>) /\ at' = at + 1
  /\ UNCHANGED <<link, script, mode, copyEnded, stored, produced>>

BeginCopyIn ==
  /\ Runs({"COPY_IN"})
  /\ Send(<<Message("COPY_IN")>>) /\ mode' = "copying_in"
  /\ UNCHANGED <<link, script, at, copyEnded, stored, produced>>

EndCopyIn ==
  /\ link = "up" /\ mode = "copying_in" /\ copyEnded
  /\ Send(<<Message("COMMAND_OK")>>)
  /\ at' = at + 1 /\ mode' = "running" /\ copyEnded' = FALSE
  /\ UNCHANGED <<link, script, stored, produced>>

BeginCopyOut ==
  /\ Runs({"GET_RESULT"})
  /\ Send(<<Message("COPY_OUT")>>) /\ mode' = "copying_out"
  /\ UNCHANGED <<link, script, at, copyEnded, stored, produced>>

SendRow ==
  /\ link = "up" /\ mode = "copying_out" /\ produced < MaxRows
  /\ Send(<<[kind |-> "ROW", row |-> produced + 1]>>) /\ produced' = produced + 1
  /\ UNCHANGED <<link, script, at, mode, copyEnded, stored>>

EndCopyOut ==
  /\ link = "up" /\ mode = "copying_out"
  /\ Send(<<Message("COPY_DONE"), Message("COMMAND_OK")>>)
  /\ at' = at + 1 /\ mode' = "running"
  /\ UNCHANGED <<link, script, copyEnded, stored, produced>>

Ready ==
  /\ link = "up" /\ mode = "running" /\ at > Len(script)
  /\ Send(<<Message("READY")>>) /\ mode' = "ready"
  /\ UNCHANGED <<link, script, at, copyEnded, stored, produced>>

Fail ==
  /\ link = "up" /\ mode \in {"running", "copying_in", "copying_out"}
  /\ Send(<<Message("FATAL_ERROR"), Message("READY")>>) /\ mode' = "ready"
  /\ UNCHANGED <<link, script, at, copyEnded, stored, produced>>

GoDown ==
  /\ link = "up" /\ link' = "down"
  /\ UNCHANGED <<script, at, mode, copyEnded, stored, produced, wire>>

Serve == RunCommand \/ RunQuery \/ BeginCopyIn \/ EndCopyIn \/ BeginCopyOut \/ SendRow
           \/ EndCopyOut \/ Ready
=============================================================================
