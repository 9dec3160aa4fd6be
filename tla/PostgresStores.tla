---------------------------- MODULE PostgresStores ----------------------------
(***************************************************************************)
(* The opt-in PostgreSQL stores of one session: PostgresSessionStore and   *)
(* PostgresSessionAlertStore, and the runtime selection that caches one of *)
(* each kind in every process.  The API process requests cancellation and  *)
(* reads while the detached worker writes, each over connections of its    *)
(* own, in transactions at READ COMMITTED.                                 *)
(*                                                                         *)
(* A call is a sequence of SQL statements; a write commits after its only  *)
(* statement, a read leaves its transaction open for the next write.  No   *)
(* code rolls back or reconnects: a statement that fails leaves the        *)
(* connection in an aborted transaction, a connection that breaks stays in *)
(* its store, and both fail every later call.                              *)
(*                                                                         *)
(* Rows are counted, not stored: results and alerts are append-only, the   *)
(* progress row holds the number of results it reports.  MaxRows bounds    *)
(* the appends, MaxReads the reads, MaxFaults the statements and           *)
(* connections that fail.                                                  *)
(*                                                                         *)
(* Name_Fault is the definition Name with one plausible mistake in it.     *)
(***************************************************************************)
EXTENDS Naturals, Sequences

CONSTANTS MaxRows, MaxReads, MaxFaults

ASSUME StoresAssumption ==
  MaxRows \in Nat /\ MaxReads \in Nat /\ MaxFaults \in Nat

VARIABLES
  selected,        \* [kind -> its backend in the environment: postgres or other]
  databaseUrl,     \* the kinds whose environment names a PostgreSQL database
  autoCreate,      \* the kinds whose stores create their tables
  schema,          \* the kinds of stores whose tables exist
  store,           \* [process -> [kind -> the cached store]]
  conn,            \* [process -> [kind -> its connection]]
  pending,         \* [process -> the statement executed but not committed]
  call,            \* [process -> the call it makes and the next statement]
  rows,            \* the committed rows
  acked,           \* the writes whose call returned
  doubtful,        \* the appends whose commit the connection broke
  snapshot,        \* the last snapshot the API assembled, while it does
  reads, faults

envVars     == <<selected, databaseUrl, autoCreate>>
historyVars == <<acked, doubtful, reads, faults>>
storeVars   == <<envVars, schema, store, conn, pending, call, rows, snapshot,
                 historyVars>>

Processes == {"api", "worker"}
Kinds == {"session", "alert"}

Writes == [api |-> {"cancel"}, worker |-> {"metadata", "progress", "result", "alert"}]
Reads  == [api |-> {"snapshot", "exists", "alerts"}, worker |-> {"poll"}]

\* Results first: the order of the statements in read_snapshot turned round.
StatementsOf_Fault(op) ==
  CASE op = "snapshot" -> <<"select metadata", "select results", "select progress">>
    [] op = "alerts"   -> <<"select exists", "select alerts">>
    [] op = "exists"   -> <<"select exists">>
    [] op = "poll"     -> <<"select cancel">>
    [] OTHER           -> <<op>>

\* The statements of a read; a write is one statement named after it.  An
\* alert read asks the session store first (require_known_session).
StatementsOf(op) ==
  CASE op = "snapshot" -> <<"select metadata", "select progress", "select results">>
    [] op = "alerts"   -> <<"select exists", "select alerts">>
    [] op = "exists"   -> <<"select exists">>
    [] op = "poll"     -> <<"select cancel">>
    [] OTHER           -> <<op>>

KindOf(statement) ==
  IF statement \in {"alert", "select alerts"} THEN "alert" ELSE "session"

NoCall == [op |-> "none", at |-> 0]
NoRows == [metadata |-> FALSE, progress |-> 0, results |-> 0, alerts |-> 0,
           cancel |-> FALSE]

StoresInit ==
  /\ selected \in [Kinds -> {"postgres", "other"}]
  /\ databaseUrl \in SUBSET Kinds
  /\ autoCreate \in SUBSET Kinds
  /\ schema \in SUBSET Kinds
  /\ store = [p \in Processes |-> [k \in Kinds |-> "none"]]
  /\ conn = [p \in Processes |-> [k \in Kinds |-> "none"]]
  /\ pending = [p \in Processes |-> "none"]
  /\ call = [p \in Processes |-> NoCall]
  /\ rows = NoRows
  /\ acked = NoRows
  /\ doubtful = NoRows
  /\ snapshot = NoRows
  /\ reads = 0
  /\ faults = 0

\* What is neither backend, or unset, stays on the file store
\* (_parse_backend_env).
Backend(k) == IF selected[k] = "postgres" THEN "postgres" ELSE "file"

Statement(p) == StatementsOf(call[p].op)[call[p].at]

Calling(p) == call[p].op # "none"

\* The connection the next statement uses.
ConnOf(p) == conn[p][KindOf(Statement(p))]

\* The kind of store the call needs next: an alert read is a method of the
\* alert store, so this one is selected before the session store is asked.
NeededKind(p) ==
  IF call[p].op = "alerts" /\ store[p]["alert"] = "none"
  THEN "alert" ELSE KindOf(Statement(p))

EndCall(p) == call' = [call EXCEPT ![p] = NoCall]

\* The call raises: a snapshot it was assembling is not returned.
RaiseCall(p) ==
  /\ EndCall(p)
  /\ snapshot' = IF call[p].op = "snapshot" THEN NoRows ELSE snapshot

-----------------------------------------------------------------------------
\* The worker writes metadata before anything else, a progress row that
\* reports the results it has appended, and no more than MaxRows rows.
Begin(p, op) ==
  /\ ~Calling(p)
  /\ op \in Reads[p] => reads < MaxReads
  /\ op \in {"progress", "result", "alert"} => acked.metadata
  /\ op = "result" => acked.results + doubtful.results < MaxRows
  /\ op = "alert" => acked.alerts + doubtful.alerts < MaxRows
  /\ call' = [call EXCEPT ![p] = [op |-> op, at |-> 1]]
  /\ reads' = reads + (IF op \in Reads[p] THEN 1 ELSE 0)
  /\ snapshot' = IF op = "snapshot" THEN NoRows ELSE snapshot
  /\ UNCHANGED <<envVars, schema, store, conn, pending, rows, acked, doubtful,
                 faults>>

Unresolved(p) == Calling(p) /\ store[p][NeededKind(p)] = "none"

ResolveFile(p) ==
  /\ Unresolved(p)
  /\ Backend(NeededKind(p)) = "file"
  /\ store' = [store EXCEPT ![p][NeededKind(p)] = "file"]
  /\ UNCHANGED <<envVars, schema, conn, pending, call, rows, snapshot, historyVars>>

\* What a file store answers is not modelled here.  A call is over with it,
\* but for an alert read whose session a file store knows: the alert store
\* is a store of its own.
CallFile(p) ==
  /\ Calling(p)
  /\ store[p][NeededKind(p)] = "file"
  /\ \/ EndCall(p)
     \/ /\ call[p].op = "alerts" /\ call[p].at = 1
        /\ call' = [call EXCEPT ![p].at = 2]
  /\ UNCHANGED <<envVars, schema, store, conn, pending, rows, snapshot, historyVars>>

\* The tables once a process has prepared the schema, which is idempotent.
Created(k) == IF k \in autoCreate THEN schema \cup {k} ELSE schema

\* bootstrap_postgres_*_store: the connection, and the tables if the process
\* may create them.  The store is cached only once it is built.
ResolvePostgres(p) ==
  LET k == NeededKind(p)
  IN  /\ Unresolved(p)
      /\ Backend(k) = "postgres"
      /\ k \in databaseUrl
      /\ store' = [store EXCEPT ![p][k] = "postgres"]
      /\ conn' = [conn EXCEPT ![p][k] = "idle"]
      /\ schema' = Created(k)
      /\ UNCHANGED <<envVars, pending, call, rows, snapshot, historyVars>>

\* A bootstrap that cannot complete: no usable URL, no connection, no schema.
BootstrapFails(p) ==
  /\ Unresolved(p)
  /\ Backend(NeededKind(p)) = "postgres"
  /\ \/ NeededKind(p) \notin databaseUrl /\ UNCHANGED faults
     \/ faults < MaxFaults /\ faults' = faults + 1

\* The call falls back to the file store.
ResolveFails_Fault(p) ==
  /\ BootstrapFails(p)
  /\ store' = [store EXCEPT ![p][NeededKind(p)] = "file"]
  /\ EndCall(p)
  /\ UNCHANGED <<envVars, schema, conn, pending, rows, snapshot, acked,
                 doubtful, reads>>

\* The error is the caller's, and the next call tries again.
ResolveFails(p) ==
  /\ BootstrapFails(p)
  /\ RaiseCall(p)
  /\ UNCHANGED <<envVars, schema, store, conn, pending, rows, acked,
                 doubtful, reads>>

-----------------------------------------------------------------------------
Usable(p) ==
  /\ Calling(p)
  /\ store[p][NeededKind(p)] = "postgres"
  /\ pending[p] = "none"

\* The server accepts the statement: the table is there, and progress and
\* result rows refer to a metadata row.
Accepted(statement) ==
  /\ KindOf(statement) \in schema
  /\ statement \in {"progress", "result"} => rows.metadata

\* _execute_and_commit up to its commit.
ExecuteWrite(p) ==
  /\ Usable(p)
  /\ call[p].op \in Writes[p]
  /\ ConnOf(p) \in {"idle", "open"}
  /\ Accepted(Statement(p))
  /\ pending' = [pending EXCEPT ![p] = Statement(p)]
  /\ conn' = [conn EXCEPT ![p][KindOf(Statement(p))] = "open"]
  /\ UNCHANGED <<envVars, schema, store, call, rows, snapshot, historyVars>>

\* The rows once a write is applied.
Applied(r, statement) ==
  CASE statement = "metadata" -> [r EXCEPT !.metadata = TRUE]
    [] statement = "progress" -> [r EXCEPT !.progress = acked.results]
    [] statement = "result"   -> [r EXCEPT !.results = @ + 1]
    [] statement = "alert"    -> [r EXCEPT !.alerts = @ + 1]
    [] statement = "cancel"   -> [r EXCEPT !.cancel = TRUE]

\* A write that returns without its commit, which the next one brings.
Commit_Fault(p) ==
  /\ pending[p] # "none"
  /\ ConnOf(p) = "open"
  /\ acked' = Applied(acked, pending[p])
  /\ rows' = IF pending[p] = "progress" THEN Applied(rows, "progress") ELSE rows
  /\ pending' = [pending EXCEPT ![p] = "none"]
  /\ conn' = [conn EXCEPT ![p][KindOf(Statement(p))] = "idle"]
  /\ EndCall(p)
  /\ UNCHANGED <<envVars, schema, store, snapshot, doubtful, reads, faults>>

\* The commit, after which the call returns.
Commit(p) ==
  /\ pending[p] # "none"
  /\ ConnOf(p) = "open"
  /\ acked' = Applied(acked, pending[p])
  /\ rows' = Applied(rows, pending[p])
  /\ pending' = [pending EXCEPT ![p] = "none"]
  /\ conn' = [conn EXCEPT ![p][KindOf(Statement(p))] = "idle"]
  /\ EndCall(p)
  /\ UNCHANGED <<envVars, schema, store, snapshot, doubtful, reads, faults>>

\* The connection breaks under the commit: the server may have applied it.
CommitLost(p) ==
  /\ pending[p] # "none"
  /\ faults < MaxFaults
  /\ faults' = faults + 1
  /\ \/ rows' = Applied(rows, pending[p]) /\ doubtful' = Applied(doubtful, pending[p])
     \/ UNCHANGED <<rows, doubtful>>
  /\ pending' = [pending EXCEPT ![p] = "none"]
  /\ conn' = [conn EXCEPT ![p][KindOf(Statement(p))] = "lost"]
  /\ EndCall(p)
  /\ UNCHANGED <<envVars, schema, store, snapshot, acked, reads>>

\* Each statement of a read sees what is committed by then; the rows of a
\* snapshot are put together one statement at a time, and no statement of it
\* reads alerts: read_snapshot returns none.
Seen(statement) ==
  CASE statement = "select metadata" -> [snapshot EXCEPT !.metadata = rows.metadata]
    [] statement = "select progress" -> [snapshot EXCEPT !.progress = rows.progress]
    [] statement = "select results"  -> [snapshot EXCEPT !.results = rows.results]
    [] OTHER -> snapshot

\* A missing session ends a snapshot with the empty one, an alert read with
\* SessionAlertsNotFoundError.
Missing(statement) ==
  statement \in {"select metadata", "select exists"} /\ ~rows.metadata

ExecuteRead(p) ==
  /\ Usable(p)
  /\ call[p].op \in Reads[p]
  /\ ConnOf(p) \in {"idle", "open"}
  /\ Accepted(Statement(p))
  /\ conn' = [conn EXCEPT ![p][KindOf(Statement(p))] = "open"]
  /\ snapshot' = Seen(Statement(p))
  /\ IF call[p].at = Len(StatementsOf(call[p].op)) \/ Missing(Statement(p))
     THEN EndCall(p)
     ELSE call' = [call EXCEPT ![p].at = @ + 1]
  /\ UNCHANGED <<envVars, schema, store, pending, rows, historyVars>>

\* A statement the server rejects, for its own reasons or for want of a
\* table or a metadata row, aborts the transaction; nothing rolls it back.
StatementFails(p) ==
  /\ Usable(p)
  /\ ConnOf(p) \in {"idle", "open"}
  /\ \/ ~Accepted(Statement(p)) /\ UNCHANGED faults
     \/ faults < MaxFaults /\ faults' = faults + 1
  /\ conn' = [conn EXCEPT ![p][KindOf(Statement(p))] = "aborted"]
  /\ RaiseCall(p)
  /\ UNCHANGED <<envVars, schema, store, pending, rows, acked,
                 doubtful, reads>>

\* Every later statement of an aborted or broken connection fails too.
ConnectionRefuses(p) ==
  /\ Usable(p)
  /\ ConnOf(p) \in {"aborted", "lost"}
  /\ RaiseCall(p)
  /\ UNCHANGED <<envVars, schema, store, conn, pending, rows,
                 historyVars>>

\* The server goes away, or ends a transaction a read has left idle.
ConnectionLost(p, k) ==
  /\ conn[p][k] \in {"idle", "open"}
  /\ pending[p] = "none"
  /\ faults < MaxFaults
  /\ faults' = faults + 1
  /\ conn' = [conn EXCEPT ![p][k] = "lost"]
  /\ UNCHANGED <<envVars, schema, store, pending, call, rows, snapshot, acked,
                 doubtful, reads>>

\* The worker is gone, with its stores and what it had not committed.
WorkerDies ==
  /\ faults < MaxFaults
  /\ faults' = faults + 1
  /\ store' = [store EXCEPT !["worker"] = [k \in Kinds |-> "none"]]
  /\ conn' = [conn EXCEPT !["worker"] = [k \in Kinds |-> "gone"]]
  /\ pending' = [pending EXCEPT !["worker"] = "none"]
  /\ call' = [call EXCEPT !["worker"] = NoCall]
  /\ UNCHANGED <<envVars, schema, rows, snapshot, acked, doubtful, reads>>

WorkerAlive == \A k \in Kinds : conn["worker"][k] # "gone"

StoresNext ==
  \/ \E p \in Processes :
       \/ \E op \in Writes[p] \cup Reads[p] :
            (p = "worker" => WorkerAlive) /\ Begin(p, op)
       \/ ResolveFile(p) \/ CallFile(p) \/ ResolvePostgres(p) \/ ResolveFails(p)
       \/ ExecuteWrite(p) \/ Commit(p) \/ CommitLost(p)
       \/ ExecuteRead(p) \/ StatementFails(p) \/ ConnectionRefuses(p)
       \/ \E k \in Kinds : ConnectionLost(p, k)
  \/ WorkerAlive /\ WorkerDies

StoresSpec == StoresInit /\ [][StoresNext]_storeVars

-----------------------------------------------------------------------------
\* A write whose call returned is in the tables whatever fails afterwards,
\* and one that raised is not there unless its commit was under way
\* (_execute_and_commit, append_alert).
AcknowledgedIsDurable ==
  /\ acked.metadata => rows.metadata
  /\ acked.cancel => rows.cancel
  /\ rows.results = acked.results + doubtful.results
  /\ rows.alerts = acked.alerts + doubtful.alerts

\* A snapshot never reports more results than it carries: its statements see
\* different moments of a worker that appends results before it counts them
\* (read_snapshot, persist_progress_if_changed).
SnapshotCarriesItsProgress ==
  ~(Calling("api") /\ call["api"].op = "snapshot")
    => snapshot.progress <= snapshot.results

\* Parent reads, cancel writes and the detached worker use the same backend
\* for one runtime, and a failed bootstrap stays visible instead of degrading
\* silently to file mode (session_store_runtime).
OneBackendPerRuntime ==
  \A p \in Processes, k \in Kinds :
    store[p][k] # "none" => store[p][k] = Backend(k)

=============================================================================
