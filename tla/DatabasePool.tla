---------------------------- MODULE DatabasePool ----------------------------
(***************************************************************************)
(* Writing to a database: DatabaseWorkerPool<T> with its asynchronous       *)
(* connections, each served by a worker thread that takes tasks from one    *)
(* io_context, and its synchronous ones, locked by whoever writes directly; *)
(* MySQLConnection::ExecuteTransaction and TransactionTask::Execute with    *)
(* their handling of deadlocks and lost connections; Close().               *)
(*                                                                         *)
(* A task is a transaction, or a single statement (Execute, DirectExecute). *)
(* One step is one statement sent to the server.  What the server does with *)
(* it is external: it succeeds, fails, is chosen as a deadlock victim (which*)
(* rolls its transaction back), or the connection is lost (likewise).       *)
(***************************************************************************)
EXTENDS Naturals, Sequences, FiniteSets

CONSTANTS Tasks,
          Size,         \* the number of statements of each task
          Singles,      \* the tasks that are one statement and no transaction
          Async,        \* connections of _connections[IDX_ASYNC]
          Sync,         \* connections of _connections[IDX_SYNCH]
          NoTask,
          NoConnection,
          Retries,      \* loopBreaker of DirectCommitTransaction
          MaxFailures,  \* bound: statements that fail or deadlock
          MaxLosses     \* bound: connections that are lost

Connections == Async \cup Sync

ASSUME DatabasePoolAssumption ==
    /\ IsFiniteSet(Connections) /\ Async \cap Sync = {}
    /\ NoTask \notin Tasks /\ NoConnection \notin Connections
    /\ Size \in [Tasks -> Nat]
    /\ Singles \subseteq Tasks /\ \A t \in Singles : Size[t] = 1
    /\ Retries \in Nat /\ MaxFailures \in Nat /\ MaxLosses \in Nat

VARIABLES
    pool,          \* "open", "stopped" and "closed" by Close(), or "aborted"
    queue,         \* the tasks posted to _ioContext
    state,         \* what became of each task
    result,        \* what Execute() returned for a settled task
    conn,          \* the connections and the thread on each, see ConnectionType
    deadlockLock,  \* who holds TransactionTask::_deadlockLock
    written,       \* the statements of each task that are durable, in order
    lost,          \* history: a connection was lost while it executed the task
    failures, losses

taskVars == <<state, result>>
serverVars == <<written, lost, failures, losses>>
vars == <<pool, queue, taskVars, conn, deadlockLock, serverVars>>

ConnectionType == [
    pc:       {"idle", "begin", "run", "failed", "rolledback"},
    task:     Tasks \cup {NoTask},
    pos:      Nat,                  \* the statement to execute next
    error:    {"none", "deadlock", "other"},
    retrying: BOOLEAN,
    left:     0..Retries,           \* passes DirectCommitTransaction has left
    open:     BOOLEAN,              \* the server has a transaction open here ...
    mine:     Seq(Nat)]             \* ... with these statements

Unused == [pc |-> "idle", task |-> NoTask, pos |-> 1, error |-> "none",
           retrying |-> FALSE, left |-> Retries, open |-> FALSE, mine |-> <<>>]

Init ==
    /\ pool = "open"
    /\ queue = <<>>
    /\ state = [t \in Tasks |-> "new"]
    /\ result = [t \in Tasks |-> FALSE]
    /\ conn = [c \in Connections |-> Unused]
    /\ deadlockLock = NoConnection
    /\ written = [t \in Tasks |-> <<>>]
    /\ lost = [t \in Tasks |-> FALSE]
    /\ failures = 0
    /\ losses = 0

-----------------------------------------------------------------------------
(* Handing tasks over.                                                      *)

\* CommitTransaction, AsyncCommitTransaction, Execute: post to the io_context.
Post(t) ==
    /\ pool = "open"
    /\ state[t] = "new"
    /\ state' = [state EXCEPT ![t] = "queued"]
    /\ queue' = Append(queue, t)
    /\ UNCHANGED <<pool, result, conn, deadlockLock, serverVars>>

Start(c, t) ==
    /\ conn[c].pc = "idle"
    /\ conn' = [conn EXCEPT ![c] = [@ EXCEPT !.pc = "begin", !.task = t]]
    /\ state' = [state EXCEPT ![t] = "running"]
    /\ UNCHANGED <<pool, result, deadlockLock, serverVars>>

\* A worker thread takes the next task and finds its connection.
TakeTask(c) ==
    /\ pool = "open"
    /\ c \in Async
    /\ queue # <<>>
    /\ queue' = Tail(queue)
    /\ Start(c, Head(queue))

\* DirectCommitTransaction, DirectExecute: GetFreeConnection locks one.
Direct(c, t) ==
    /\ pool = "open"
    /\ c \in Sync
    /\ state[t] = "new"
    /\ Start(c, t)
    /\ UNCHANGED queue

\* The task is over: the future gets its value, the connection is free (or
\* unlocked), and with it _deadlockLock if the thread held it.
ReleaseDeadlockLock_Missing(c) == deadlockLock' = deadlockLock
ReleaseDeadlockLock(c) ==
    deadlockLock' = IF deadlockLock = c THEN NoConnection ELSE deadlockLock

Settle(c, ok, open, mine) ==
    /\ conn' = [conn EXCEPT ![c] = [Unused EXCEPT !.open = open, !.mine = mine]]
    /\ state' = [state EXCEPT ![conn[c].task] = "settled"]
    /\ result' = [result EXCEPT ![conn[c].task] = ok]
    /\ ReleaseDeadlockLock(c)

-----------------------------------------------------------------------------
(* MySQLConnection::ExecuteTransaction, or Execute for a single statement.  *)

FirstStatement_Resumed(c) == conn[c].pos
FirstStatement(c) == 1

\* START TRANSACTION; a single statement needs none, and a transaction without
\* statements is given up with error -1.
BeginTransaction(c) ==
    LET t == conn[c].task IN
    /\ conn[c].pc = "begin"
    /\ conn' = [conn EXCEPT ![c] =
          IF Size[t] = 0 THEN [@ EXCEPT !.pc = "rolledback", !.error = "other"]
          ELSE [@ EXCEPT !.pc = "run", !.error = "none", !.pos = FirstStatement(c),
                         !.open = t \notin Singles, !.mine = <<>>]]
    /\ UNCHANGED <<pool, queue, taskVars, deadlockLock, serverVars>>

\* Connection c is about to execute a statement.
Executing(c) == conn[c].pc = "run" /\ conn[c].pos <= Size[conn[c].task]

\* A statement belongs to the open transaction; without one (autocommit is on)
\* it is durable at once.
Durable(c) == [written EXCEPT ![conn[c].task] = Append(@, conn[c].pos)]

Statement(c) ==
    /\ Executing(c)
    /\ conn' = [conn EXCEPT ![c] = [@ EXCEPT
          !.pos = conn[c].pos + 1,
          !.mine = IF conn[c].open THEN Append(conn[c].mine, conn[c].pos) ELSE conn[c].mine]]
    /\ written' = IF conn[c].open THEN written ELSE Durable(c)
    /\ UNCHANGED <<pool, queue, taskVars, deadlockLock, lost, failures, losses>>

\* The statement fails for good (a duplicate key), or it is the victim of a
\* deadlock: then the server has rolled its transaction back.
StatementFails(c, error) ==
    /\ Executing(c)
    /\ failures < MaxFailures
    /\ failures' = failures + 1
    /\ conn' = [conn EXCEPT ![c] =
          IF error = "deadlock"
          THEN [@ EXCEPT !.pc = "failed", !.error = error, !.open = FALSE, !.mine = <<>>]
          ELSE [@ EXCEPT !.pc = "failed", !.error = error]]
    /\ UNCHANGED <<pool, queue, taskVars, deadlockLock, written, lost, losses>>

\* The server gave up the connection and the transaction on it.
Disconnect(c) ==
    /\ losses < MaxLosses
    /\ losses' = losses + 1
    /\ lost' = [lost EXCEPT ![conn[c].task] = TRUE]
    /\ conn' = [conn EXCEPT ![c] = [@ EXCEPT !.open = FALSE, !.mine = <<>>]]

\* _HandleMySQLErrno reconnects and Execute() sends the statement again; in
\* autocommit mode the first one may have been executed already.
LoseConnection(c) ==
    /\ Executing(c)
    /\ Disconnect(c)
    /\ \/ written' = written
       \/ ~conn[c].open /\ written' = Durable(c)
    /\ UNCHANGED <<pool, queue, taskVars, deadlockLock, failures>>

\* _HandleMySQLErrno cannot reconnect and terminates the process: the server
\* rolls every open transaction back, what was queued is gone.
Abort(c) ==
    /\ Executing(c)
    /\ losses < MaxLosses
    /\ losses' = losses + 1
    /\ pool' = "aborted"
    /\ queue' = <<>>
    /\ conn' = [d \in Connections |-> Unused]
    /\ deadlockLock' = NoConnection
    /\ state' = [t \in Tasks |-> IF state[t] \in {"queued", "running"} THEN "dropped"
                                 ELSE state[t]]
    /\ UNCHANGED <<result, written, lost, failures>>

Rollback_Missing(c) == [conn[c] EXCEPT !.pc = "rolledback"]
Rollback(c) == [conn[c] EXCEPT !.pc = "rolledback", !.open = FALSE, !.mine = <<>>]

\* ROLLBACK, for a transaction.
RollbackTransaction(c) ==
    /\ conn[c].pc = "failed"
    /\ conn[c].task \notin Singles
    /\ conn' = [conn EXCEPT ![c] = Rollback(c)]
    /\ UNCHANGED <<pool, queue, taskVars, deadlockLock, serverVars>>

\* COMMIT, whose result nobody looks at; a single statement is done without.
CommitTransaction(c) ==
    /\ conn[c].pc = "run"
    /\ conn[c].pos > Size[conn[c].task]
    /\ written' = [written EXCEPT ![conn[c].task] = @ \o conn[c].mine]
    /\ Settle(c, TRUE, FALSE, <<>>)
    /\ UNCHANGED <<pool, queue, lost, failures, losses>>

\* The connection is lost during COMMIT, before or after it took effect; the
\* COMMIT sent again on the new connection has nothing to commit.
LoseCommit(c) ==
    /\ conn[c].pc = "run"
    /\ conn[c].pos > Size[conn[c].task]
    /\ conn[c].task \notin Singles
    /\ Disconnect(c)
    /\ \/ written' = written
       \/ written' = [written EXCEPT ![conn[c].task] = @ \o conn[c].mine]
    /\ UNCHANGED <<pool, queue, taskVars, deadlockLock, failures>>

-----------------------------------------------------------------------------
(* TransactionTask::Execute and DirectCommitTransaction: after a deadlock.  *)

Again(c, left) ==
    conn' = [conn EXCEPT ![c] = [@ EXCEPT !.pc = "begin", !.retrying = TRUE, !.left = left]]

\* The first deadlock of a worker thread: take _deadlockLock, and try again.
RetryAlone(c) ==
    /\ conn[c].pc = "rolledback"
    /\ c \in Async
    /\ conn[c].error = "deadlock" /\ ~conn[c].retrying
    /\ deadlockLock = NoConnection
    /\ deadlockLock' = c
    /\ Again(c, conn[c].left)
    /\ UNCHANGED <<pool, queue, taskVars, serverVars>>

\* Further errors, of any kind, until DEADLOCK_MAX_RETRY_TIME_MS are over.
RetryAsync(c) ==
    /\ conn[c].pc = "rolledback"
    /\ c \in Async
    /\ conn[c].retrying
    /\ Again(c, conn[c].left)
    /\ UNCHANGED <<pool, queue, taskVars, deadlockLock, serverVars>>

\* DirectCommitTransaction counts, and takes no lock.
HasRetries(c) == conn[c].left > 0

RetryDirect(c) ==
    /\ conn[c].pc = "rolledback"
    /\ c \in Sync
    /\ conn[c].retrying \/ conn[c].error = "deadlock"
    /\ HasRetries(c)
    /\ Again(c, conn[c].left - 1)
    /\ UNCHANGED <<pool, queue, taskVars, deadlockLock, serverVars>>

\* Another error the first time, the time over or the passes used up: Cleanup().
FailureResult_Retried(c) == conn[c].retrying
FailureResult(c) == FALSE

GiveUp(c) ==
    /\ \/ conn[c].pc = "failed" /\ conn[c].task \in Singles
       \/ /\ conn[c].pc = "rolledback"
          /\ \/ ~conn[c].retrying /\ conn[c].error # "deadlock"
             \/ conn[c].retrying /\ (c \in Async \/ ~HasRetries(c))
             \/ c \in Sync /\ ~HasRetries(c)
    /\ Settle(c, FailureResult(c), conn[c].open, conn[c].mine)
    /\ UNCHANGED <<pool, queue, serverVars>>

-----------------------------------------------------------------------------
(* DatabaseWorkerPool::Close, when nobody else uses the pool any more.      *)

\* io_context::stop(): a worker finishes its task and takes no other.
Stop ==
    /\ pool = "open"
    /\ \A c \in Sync : conn[c].pc = "idle"
    /\ pool' = "stopped"
    /\ UNCHANGED <<queue, taskVars, conn, deadlockLock, serverVars>>

\* The threads are joined and the connections closed (the server rolls back
\* what is open on them); the io_context is destroyed with what is queued.
Close ==
    /\ pool = "stopped"
    /\ \A c \in Async : conn[c].pc = "idle"
    /\ pool' = "closed"
    /\ queue' = <<>>
    /\ state' = [t \in Tasks |-> IF state[t] = "queued" THEN "dropped" ELSE state[t]]
    /\ conn' = [c \in Connections |-> Unused]
    /\ UNCHANGED <<result, deadlockLock, serverVars>>

Work(c) ==
    \/ TakeTask(c) \/ BeginTransaction(c) \/ Statement(c) \/ RollbackTransaction(c)
    \/ CommitTransaction(c) \/ RetryAlone(c) \/ RetryAsync(c) \/ RetryDirect(c)
    \/ GiveUp(c)

Trouble(c) ==
    \/ \E error \in {"deadlock", "other"} : StatementFails(c, error)
    \/ LoseConnection(c) \/ LoseCommit(c) \/ Abort(c)

Done == pool \in {"closed", "aborted"} /\ UNCHANGED vars

Next ==
    \/ \E t \in Tasks : Post(t) \/ \E c \in Connections : Direct(c, t)
    \/ \E c \in Connections : Work(c) \/ Trouble(c)
    \/ Stop \/ Close
    \/ Done

\* Every thread goes on with its task; Close() goes on once it was called.
\* Nothing says that the server fails, or that it does not.
Fairness == WF_vars(Close) /\ \A c \in Connections : WF_vars(Work(c))

Spec == Init /\ [][Next]_vars /\ Fairness

-----------------------------------------------------------------------------
Whole(t) == [i \in 1..Size[t] |-> i]

TypeOK ==
    /\ pool \in {"open", "stopped", "closed", "aborted"}
    /\ queue \in Seq(Tasks)
    /\ state \in [Tasks -> {"new", "queued", "running", "settled", "dropped"}]
    /\ result \in [Tasks -> BOOLEAN]
    /\ conn \in [Connections -> ConnectionType]
    /\ deadlockLock \in Async \cup {NoConnection}
    /\ written \in [Tasks -> Seq(Nat)]
    /\ lost \in [Tasks -> BOOLEAN]
    /\ failures \in 0..MaxFailures
    /\ losses \in 0..MaxLosses

\* As long as no connection is lost under it, a transaction is written whole,
\* in the order of its statements, once, or not at all: through failures,
\* deadlocks and retries, Close() and the termination of the process.
AllOrNothing == \A t \in Tasks : ~lost[t] => written[t] \in {<<>>, Whole(t)}

\* What TransactionCallback hears is what happened.
ResultTruthful == \A t \in Tasks :
    state[t] = "settled" /\ ~lost[t] =>
        (result[t] <=> Size[t] # 0 /\ written[t] = Whole(t))

\* A connection never leaves a task with a transaction open: the next
\* statement executed on it would silently become part of it.
NoTransactionLeftOpen ==
    \A c \in Connections : conn[c].pc \in {"idle", "begin"} =>
        ~conn[c].open /\ conn[c].mine = <<>>

\* A task that was queued is executed to its end or given up, also when several
\* workers deadlock each other, or dropped when the pool closes.
EveryTaskSettles ==
    \A t \in Tasks : state[t] = "queued" ~> state[t] \in {"settled", "dropped"}

\* DatabaseWorkerPool.h on BeginTransaction(): "will automatically rollback if
\* not commited. (Autocommit=0)".  No part of a transaction outlives the rest.
TransactionsAtomic ==
    \A t \in Tasks \ Singles :
        state[t] = "settled" => written[t] \in {<<>>, Whole(t)}
=============================================================================
