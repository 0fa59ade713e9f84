------------------------- MODULE DatabasePoolProofs -------------------------
(***************************************************************************)
(* What DatabasePool guarantees for any tasks, any finite set of            *)
(* connections and any number of failures, retries and lost connections,    *)
(* proved by induction over the steps of the specification.                 *)
(***************************************************************************)
EXTENDS DatabasePool, SequenceTheorems, TLAPS

Count(n) == [i \in 1..n |-> i]

\* A connection that is not idle has a task, and the task knows it.
TaskRunning == \A c \in Connections :
    /\ conn[c].pc = "idle" <=> conn[c].task = NoTask
    /\ conn[c].task # NoTask => state[conn[c].task] = "running"

\* No two threads execute the same task, and one in the queue is there once.
TaskExclusive ==
    /\ \A c, d \in Connections :
          conn[c].task = conn[d].task /\ conn[c].task # NoTask => c = d
    /\ \A i \in DOMAIN queue : state[queue[i]] = "queued"
    /\ \A i, j \in DOMAIN queue : queue[i] = queue[j] => i = j

\* Where the server has a transaction open.
OpenOnlyInside == \A c \in Connections :
    /\ conn[c].open => conn[c].pc \in {"run", "failed"} /\ conn[c].task \notin Singles
    /\ ~conn[c].open => conn[c].mine = <<>>

\* What a thread has done so far for its task, on a connection that holds.
Progress(c) ==
    LET t == conn[c].task IN
    /\ conn[c].pc \in {"begin", "failed", "rolledback"} => written[t] = <<>>
    /\ conn[c].pc = "run" => Size[t] > 0 /\ conn[c].pos \in 1..(Size[t] + 1)
    /\ conn[c].pc = "run" /\ t \notin Singles =>
          conn[c].open /\ written[t] = <<>> /\ conn[c].mine = Count(conn[c].pos - 1)
    /\ conn[c].pc = "run" /\ t \in Singles => written[t] = Count(conn[c].pos - 1)

TasksProgress == \A c \in Connections :
    conn[c].task # NoTask /\ ~lost[conn[c].task] => Progress(c)

\* What is left behind by a task that no thread executes.
Outcome(t) ==
    /\ state[t] \in {"new", "queued"} => written[t] = <<>>
    /\ state[t] \in {"settled", "dropped"} => written[t] \in {<<>>, Whole(t)}
    /\ state[t] = "settled" => (result[t] <=> Size[t] # 0 /\ written[t] = Whole(t))
    /\ state[t] = "running" => \E c \in Connections : conn[c].task = t

Outcomes == \A t \in Tasks : ~lost[t] => Outcome(t)

\* Nothing happened yet to a task that was not taken.
Untouched == \A t \in Tasks : state[t] \in {"new", "queued"} => ~lost[t]

\* Close() is called when nobody writes directly any more.
NobodyWrites == pool # "open" => \A c \in Sync : conn[c].pc = "idle"

Consistent ==
    /\ TaskRunning /\ TaskExclusive /\ OpenOnlyInside
    /\ TasksProgress /\ Outcomes /\ Untouched /\ NobodyWrites

IndInv == TypeOK /\ Consistent

-----------------------------------------------------------------------------
(* Types.                                                                   *)

\* An unused connection is well typed.
LEMMA UnusedType == Unused \in ConnectionType
BY DatabasePoolAssumption, EmptySeq DEF Unused, ConnectionType

\* Changing what connection c is doing.
LEMMA ConnType ==
    ASSUME TypeOK, NEW c \in Connections, NEW r \in ConnectionType,
           conn' = [conn EXCEPT ![c] = r]
    PROVE  conn' \in [Connections -> ConnectionType]
BY DEF TypeOK

\* The steps that change a connection change it to a well typed one.
LEMMA ConnTypeNext ==
    ASSUME TypeOK, NEW c \in Connections
    PROVE  /\ \A t \in Tasks : Start(c, t) => conn' \in [Connections -> ConnectionType]
           /\ BeginTransaction(c) => conn' \in [Connections -> ConnectionType]
           /\ Statement(c) => conn' \in [Connections -> ConnectionType]
           /\ \A e \in {"deadlock", "other"} :
                 StatementFails(c, e) => conn' \in [Connections -> ConnectionType]
           /\ Disconnect(c) => conn' \in [Connections -> ConnectionType]
           /\ RollbackTransaction(c) => conn' \in [Connections -> ConnectionType]
           /\ \A left \in 0..Retries :
                 Again(c, left) => conn' \in [Connections -> ConnectionType]
           /\ \A ok, open \in BOOLEAN, mine \in Seq(Nat) :
                 Settle(c, ok, open, mine) => conn' \in [Connections -> ConnectionType]
<1>0. /\ <<>> \in Seq(Nat) /\ 1 \in Nat
      /\ conn[c] \in ConnectionType
      /\ conn[c].pos \in Nat /\ conn[c].mine \in Seq(Nat)
  BY EmptySeq DEF TypeOK, ConnectionType
<1>1. ASSUME NEW t \in Tasks, Start(c, t) PROVE conn' \in [Connections -> ConnectionType]
  <2>1. [conn[c] EXCEPT !.pc = "begin", !.task = t] \in ConnectionType
    BY <1>0, Zenon DEF ConnectionType
  <2> QED BY <1>1, <2>1, ConnType DEF Start
<1>2. ASSUME BeginTransaction(c) PROVE conn' \in [Connections -> ConnectionType]
  <2>0. (conn[c].task \notin Singles) \in BOOLEAN
    OBVIOUS
  <2>1. /\ [conn[c] EXCEPT !.pc = "rolledback", !.error = "other"] \in ConnectionType
        /\ [conn[c] EXCEPT !.pc = "run", !.error = "none", !.pos = 1,
              !.open = conn[c].task \notin Singles, !.mine = <<>>] \in ConnectionType
    BY <1>0, <2>0, Zenon DEF ConnectionType
  <2> QED BY <1>2, <2>1, ConnType DEF BeginTransaction, FirstStatement
<1>3. ASSUME Statement(c) PROVE conn' \in [Connections -> ConnectionType]
  <2>1. conn[c].pos + 1 \in Nat /\ Append(conn[c].mine, conn[c].pos) \in Seq(Nat)
    BY <1>0
  <2>2. \A m \in Seq(Nat) :
           [conn[c] EXCEPT !.pos = conn[c].pos + 1, !.mine = m] \in ConnectionType
    BY <1>0, <2>1, Zenon DEF ConnectionType
  <2>3. [conn[c] EXCEPT !.pos = conn[c].pos + 1, !.mine =
           IF conn[c].open THEN Append(conn[c].mine, conn[c].pos) ELSE conn[c].mine]
           \in ConnectionType
    BY <1>0, <2>1, <2>2
  <2>4. conn' = [conn EXCEPT ![c] = [conn[c] EXCEPT !.pos = conn[c].pos + 1, !.mine =
           IF conn[c].open THEN Append(conn[c].mine, conn[c].pos) ELSE conn[c].mine]]
    BY <1>3, Zenon DEF Statement
  <2> QED BY <2>3, <2>4, ConnType, Zenon
<1>4. ASSUME NEW e \in {"deadlock", "other"}, StatementFails(c, e)
      PROVE  conn' \in [Connections -> ConnectionType]
  <2>1. /\ [conn[c] EXCEPT !.pc = "failed", !.error = e] \in ConnectionType
        /\ [conn[c] EXCEPT !.pc = "failed", !.error = e, !.open = FALSE, !.mine = <<>>]
               \in ConnectionType
    BY <1>0, Zenon DEF ConnectionType
  <2> QED BY <1>4, <2>1, ConnType DEF StatementFails
<1>5. ASSUME Disconnect(c) PROVE conn' \in [Connections -> ConnectionType]
  <2>1. [conn[c] EXCEPT !.open = FALSE, !.mine = <<>>] \in ConnectionType
    BY <1>0, Zenon DEF ConnectionType
  <2> QED BY <1>5, <2>1, ConnType DEF Disconnect
<1>6. ASSUME RollbackTransaction(c) PROVE conn' \in [Connections -> ConnectionType]
  <2>1. [conn[c] EXCEPT !.pc = "rolledback", !.open = FALSE, !.mine = <<>>] \in ConnectionType
    BY <1>0, Zenon DEF ConnectionType
  <2> QED BY <1>6, <2>1, ConnType DEF RollbackTransaction, Rollback
<1>7. ASSUME NEW left \in 0..Retries, Again(c, left)
      PROVE  conn' \in [Connections -> ConnectionType]
  <2>1. [conn[c] EXCEPT !.pc = "begin", !.retrying = TRUE, !.left = left] \in ConnectionType
    BY <1>0, Zenon DEF ConnectionType
  <2> QED BY <1>7, <2>1, ConnType DEF Again
<1>8. ASSUME NEW ok \in BOOLEAN, NEW open \in BOOLEAN, NEW mine \in Seq(Nat),
             Settle(c, ok, open, mine)
      PROVE  conn' \in [Connections -> ConnectionType]
  <2>1. [Unused EXCEPT !.open = open, !.mine = mine] \in ConnectionType
    BY UnusedType, Zenon DEF ConnectionType
  <2> QED BY <1>8, <2>1, ConnType DEF Settle
<1> QED BY <1>1, <1>2, <1>3, <1>4, <1>5, <1>6, <1>7, <1>8

\* Every step keeps the types: no retry is counted below zero, and only worker
\* threads take _deadlockLock.
LEMMA TypeOKNext == TypeOK /\ [Next]_vars => TypeOK'
<1> SUFFICES ASSUME TypeOK, [Next]_vars PROVE TypeOK'
  OBVIOUS
<1>0. /\ <<>> \in Seq(Nat) /\ <<>> \in Seq(Tasks)
      /\ \A c \in Connections :
            /\ conn[c].mine \in Seq(Nat) /\ conn[c].pos \in Nat
            /\ conn[c].left \in 0..Retries /\ conn[c].open \in BOOLEAN
  <2>1. \A c \in Connections : conn[c] \in ConnectionType
    BY DEF TypeOK
  <2>2. \A c \in Connections : conn[c].open \in BOOLEAN
    BY <2>1, Zenon DEF ConnectionType
  <2> QED BY <2>1, <2>2, EmptySeq DEF ConnectionType
<1> USE DEF taskVars, serverVars
<1>1. ASSUME NEW t \in Tasks, Post(t) PROVE TypeOK'
  BY <1>1 DEF Post, TypeOK
<1>2. ASSUME NEW c \in Connections, NEW t \in Tasks, Start(c, t), queue' \in Seq(Tasks)
      PROVE  TypeOK'
  BY <1>2, ConnTypeNext DEF Start, TypeOK
<1>3. ASSUME NEW c \in Connections, NEW t \in Tasks, Direct(c, t) PROVE TypeOK'
  BY <1>2, <1>3 DEF Direct, TypeOK
<1>4. ASSUME NEW c \in Connections, TakeTask(c) PROVE TypeOK'
  <2>1. Head(queue) \in Tasks /\ Tail(queue) \in Seq(Tasks)
    BY <1>4 DEF TakeTask, TypeOK
  <2> QED BY <1>2, <1>4, <2>1 DEF TakeTask
<1>5. ASSUME NEW c \in Connections, BeginTransaction(c) \/ RollbackTransaction(c) PROVE TypeOK'
  <2>1. conn' \in [Connections -> ConnectionType]
    BY <1>5, ConnTypeNext
  <2> QED BY <1>5, <2>1 DEF BeginTransaction, RollbackTransaction, TypeOK
<1>6. ASSUME NEW c \in Connections PROVE Durable(c) \in [Tasks -> Seq(Nat)]
  <2>1. \A t \in Tasks : Append(written[t], conn[c].pos) \in Seq(Nat)
    BY <1>0 DEF TypeOK
  <2> QED BY <2>1 DEF Durable, TypeOK
<1>7. ASSUME NEW c \in Connections, Statement(c) PROVE TypeOK'
  <2>1. conn' \in [Connections -> ConnectionType] /\ written' \in [Tasks -> Seq(Nat)]
    BY <1>6, <1>7, ConnTypeNext DEF Statement, TypeOK
  <2> QED BY <1>7, <2>1 DEF Statement, TypeOK
<1>8. ASSUME NEW c \in Connections, NEW error \in {"deadlock", "other"},
             StatementFails(c, error)
      PROVE  TypeOK'
  <2>1. conn' \in [Connections -> ConnectionType]
    BY <1>8, ConnTypeNext
  <2>2. failures' \in 0..MaxFailures
    BY <1>8, DatabasePoolAssumption DEF StatementFails, TypeOK
  <2> QED BY <1>8, <2>1, <2>2 DEF StatementFails, TypeOK
<1>9. ASSUME NEW c \in Connections, Disconnect(c), written' \in [Tasks -> Seq(Nat)],
             UNCHANGED <<pool, queue, taskVars, deadlockLock, failures>>
      PROVE  TypeOK'
  <2>1. conn' \in [Connections -> ConnectionType]
    BY <1>9, ConnTypeNext
  <2>3. losses' \in 0..MaxLosses
    BY <1>9, DatabasePoolAssumption DEF Disconnect, TypeOK
  <2>2. lost' \in [Tasks -> BOOLEAN]
    BY <1>9, Zenon DEF Disconnect, TypeOK
  <2> QED BY <1>9, <2>1, <2>2, <2>3 DEF TypeOK
<1>10. ASSUME NEW c \in Connections, LoseConnection(c) PROVE TypeOK'
  BY <1>6, <1>9, <1>10 DEF LoseConnection, TypeOK
<1>11. ASSUME NEW c \in Connections
       PROVE  [written EXCEPT ![conn[c].task] = @ \o conn[c].mine] \in [Tasks -> Seq(Nat)]
  <2>1. \A t \in Tasks : written[t] \o conn[c].mine \in Seq(Nat)
    BY <1>0 DEF TypeOK
  <2> QED BY <2>1 DEF TypeOK
<1>12. ASSUME NEW c \in Connections, LoseCommit(c) PROVE TypeOK'
  BY <1>9, <1>11, <1>12 DEF LoseCommit, TypeOK
<1>13. ASSUME NEW c \in Connections, Abort(c) PROVE TypeOK'
  <2>1. losses' \in 0..MaxLosses
    BY <1>13, DatabasePoolAssumption DEF Abort, TypeOK
  <2>2. /\ conn' \in [Connections -> ConnectionType]
        /\ state' \in [Tasks -> {"new", "queued", "running", "settled", "dropped"}]
    BY <1>13, UnusedType DEF Abort, TypeOK
  <2> QED BY <1>0, <1>13, <2>1, <2>2 DEF Abort, TypeOK
<1>15. ASSUME NEW c \in Connections, NEW ok \in BOOLEAN, NEW open \in BOOLEAN,
              NEW mine \in Seq(Nat), Settle(c, ok, open, mine),
              written' \in [Tasks -> Seq(Nat)],
              UNCHANGED <<pool, queue, lost, failures, losses>>
       PROVE  TypeOK'
  <2>1. conn' \in [Connections -> ConnectionType]
    BY <1>15, ConnTypeNext
  <2>2. /\ state' \in [Tasks -> {"new", "queued", "running", "settled", "dropped"}]
        /\ result' \in [Tasks -> BOOLEAN]
    BY <1>15 DEF Settle, TypeOK
  <2>3. deadlockLock' \in Async \cup {NoConnection}
    BY <1>15 DEF Settle, ReleaseDeadlockLock, TypeOK
  <2> QED BY <1>15, <2>1, <2>2, <2>3 DEF TypeOK
<1>16. ASSUME NEW c \in Connections, CommitTransaction(c) PROVE TypeOK'
  BY <1>0, <1>11, <1>15, <1>16 DEF CommitTransaction
<1>17. ASSUME NEW c \in Connections, GiveUp(c) PROVE TypeOK'
  BY <1>0, <1>15, <1>17 DEF GiveUp, FailureResult, TypeOK
<1>18. ASSUME NEW c \in Connections, RetryAlone(c) \/ RetryAsync(c) \/ RetryDirect(c)
       PROVE  TypeOK'
  <2>1. PICK left \in 0..Retries : Again(c, left)
    BY <1>0, <1>18, DatabasePoolAssumption DEF RetryAlone, RetryAsync, RetryDirect, HasRetries
  <2>2. conn' \in [Connections -> ConnectionType]
    BY <2>1, ConnTypeNext
  <2> QED BY <1>18, <2>2 DEF RetryAlone, RetryAsync, RetryDirect, TypeOK
<1>19. CASE Stop \/ Close
  BY <1>0, <1>19, UnusedType DEF Stop, Close, TypeOK
<1>20. CASE UNCHANGED vars
  BY <1>20 DEF vars, TypeOK
<1> QED
  BY <1>1, <1>3, <1>4, <1>5, <1>7, <1>8, <1>10, <1>12, <1>13, <1>16, <1>17, <1>18,
     <1>19, <1>20 DEF Next, Work, Trouble, Done

-----------------------------------------------------------------------------
(* Consistency.                                                             *)

\* The first n statements and one more.
LEMMA CountAppend ==
    ASSUME NEW n \in Nat
    PROVE  /\ Count(n) \in Seq(Nat)
           /\ Append(Count(n), n + 1) = Count(n + 1)
           /\ Count(0) = <<>>
           /\ <<>> \o Count(n) = Count(n)
           /\ Count(n) = <<>> => n = 0
<1>1. Count(n) \in Seq(Nat) /\ Len(Count(n)) = n /\ Count(n + 1) \in Seq(Nat)
  BY DEF Count
<1>2. Append(Count(n), n + 1) = Count(n + 1)
  BY <1>1 DEF Count
<1>3. Count(0) = <<>>
  BY DEF Count
<1>4. <<>> \o Count(n) = Count(n)
  BY <1>1, ConcatEmptySeq
<1>5. Count(n) = <<>> => n = 0
  BY <1>1
<1> QED BY <1>1, <1>2, <1>3, <1>4, <1>5

\* What the program counter and the task of a connection are.
LEMMA Fields ==
    ASSUME TypeOK, NEW c \in Connections
    PROVE  /\ conn[c].task \in Tasks \cup {NoTask}
           /\ conn[c].pos \in Nat
           /\ conn[c].mine \in Seq(Nat)
           /\ conn[c].open \in BOOLEAN
           /\ conn[c].pc \in {"idle", "begin", "run", "failed", "rolledback"}
<1>1. conn[c] \in ConnectionType
  BY DEF TypeOK
<1>2. conn[c].open \in BOOLEAN
  BY <1>1, Zenon DEF ConnectionType
<1> QED BY <1>1, <1>2 DEF ConnectionType

\* A step of connection c within its task t disturbs nothing but t, and keeps
\* the invariant when it leaves c as Progress and OpenOnlyInside say.
LEMMA StepWithin ==
    ASSUME IndInv, TypeOK', NEW c \in Connections, NEW t \in Tasks,
           conn[c].task = t, conn'[c].task = t, conn'[c].pc # "idle",
           \A d \in Connections \ {c} : conn'[d] = conn[d],
           UNCHANGED <<pool, queue, state, result>>,
           \A u \in Tasks \ {t} : written'[u] = written[u] /\ lost'[u] = lost[u],
           lost[t] => lost'[t],
           conn'[c].open => conn'[c].pc \in {"run", "failed"} /\ t \notin Singles,
           ~conn'[c].open => conn'[c].mine = <<>>,
           ~lost'[t] => Progress(c)'
    PROVE  Consistent'
<1> USE DEF IndInv, Consistent
<1>0. NoTask \notin Tasks /\ conn[c].pc # "idle" /\ state[t] = "running"
  BY DatabasePoolAssumption DEF TaskRunning
<1>1. TaskRunning'
  BY <1>0 DEF TaskRunning
<1>2. TaskExclusive'
  BY DEF TaskExclusive
<1>3. OpenOnlyInside'
  BY DEF OpenOnlyInside
<1>4. TasksProgress'
  <2> SUFFICES ASSUME NEW d \in Connections, conn'[d].task # NoTask, ~lost'[conn'[d].task]
               PROVE  Progress(d)'
    BY DEF TasksProgress
  <2>1. CASE d = c
    BY <2>1
  <2>2. CASE d # c
    <3>1. conn'[d] = conn[d] /\ conn[d].task \in Tasks \ {t}
      BY <2>2, Fields DEF TaskExclusive
    <3>2. Progress(d)
      BY <3>1 DEF TasksProgress
    <3> QED BY <3>1, <3>2 DEF Progress
  <2> QED BY <2>1, <2>2
<1>5. Outcomes'
  <2> SUFFICES ASSUME NEW u \in Tasks, ~lost'[u] PROVE Outcome(u)'
    BY DEF Outcomes
  <2>1. CASE u = t
    BY <1>0, <2>1 DEF Outcome
  <2>2. CASE u # t
    <3>1. Outcome(u) /\ written'[u] = written[u]
      BY <2>2 DEF Outcomes
    <3>2. state[u] = "running" => \E d \in Connections \ {c} : conn[d].task = u
      BY <2>2, <3>1 DEF Outcome
    <3> QED BY <3>1, <3>2 DEF Outcome, Whole
  <2> QED BY <2>1, <2>2
<1>6. Untouched' /\ NobodyWrites'
  <2>1. \A d \in Sync : d \in Connections
    BY DEF Connections
  <2> QED BY <1>0, <2>1 DEF Untouched, NobodyWrites
<1> QED BY <1>1, <1>2, <1>3, <1>4, <1>5, <1>6

\* The steps that leave the connection's task unsettled.
LEMMA WithinNext ==
    ASSUME IndInv, TypeOK', NEW c \in Connections,
           \/ BeginTransaction(c) \/ Statement(c) \/ RollbackTransaction(c)
           \/ RetryAlone(c) \/ RetryAsync(c) \/ RetryDirect(c)
           \/ \E error \in {"deadlock", "other"} : StatementFails(c, error)
           \/ LoseConnection(c) \/ LoseCommit(c)
    PROVE  Consistent'
<1> USE DEF taskVars, serverVars
<1>0. TypeOK /\ conn \in [Connections -> ConnectionType]
  BY DEF IndInv, TypeOK
<1>1. conn[c].pc # "idle"
  BY DEF BeginTransaction, Statement, RollbackTransaction, RetryAlone, RetryAsync, RetryDirect,
     StatementFails, LoseConnection, LoseCommit, Executing
<1>2. PICK t \in Tasks : t = conn[c].task
  BY <1>0, <1>1, Fields DEF IndInv, Consistent, TaskRunning
<1>3. /\ conn[c].pos \in Nat /\ conn[c].mine \in Seq(Nat) /\ t # NoTask
      /\ conn[c].open => conn[c].pc \in {"run", "failed"} /\ t \notin Singles
      /\ ~conn[c].open => conn[c].mine = <<>>
      /\ ~lost[t] => Progress(c)
      /\ Size[t] \in Nat /\ (t \in Singles => Size[t] = 1)
      /\ written \in [Tasks -> Seq(Nat)] /\ lost \in [Tasks -> BOOLEAN]
  BY <1>0, <1>2, Fields, DatabasePoolAssumption DEF IndInv, Consistent, OpenOnlyInside, TasksProgress, TypeOK
<1>4. ASSUME BeginTransaction(c) PROVE Consistent'
  <2>1. /\ conn'[c].task = t
        /\ \A d \in Connections \ {c} : conn'[d] = conn[d]
        /\ Size[t] = 0 => conn'[c].pc = "rolledback" /\ conn'[c].open = conn[c].open
                          /\ conn'[c].mine = conn[c].mine
        /\ Size[t] # 0 => /\ conn'[c].pc = "run" /\ conn'[c].pos = 1
                          /\ conn'[c].open = (t \notin Singles) /\ conn'[c].mine = <<>>
    BY <1>0, <1>2, <1>4 DEF BeginTransaction, FirstStatement, ConnectionType
  <2>2. UNCHANGED <<pool, queue, state, result, written, lost>> /\ conn[c].pc = "begin"
    BY <1>4 DEF BeginTransaction
  <2>3. ~lost[t] => Progress(c)'
    <3>1. Count(0) = <<>> /\ 1 - 1 = 0
      BY CountAppend
    <3>2. ~lost[t] => written[t] = <<>>
      BY <1>2, <1>3, <2>2 DEF Progress
    <3>3. CASE Size[t] = 0
      BY <1>2, <1>3, <2>1, <2>2, <3>2, <3>3 DEF Progress
    <3>4. CASE Size[t] # 0
      <4>1. Size[t] > 0 /\ 1 \in 1..(Size[t] + 1)
        BY <1>3, <3>4
      <4> QED BY <1>2, <2>1, <2>2, <3>1, <3>2, <3>4, <4>1 DEF Progress
    <3> QED BY <3>3, <3>4
  <2> QED BY <1>2, <1>3, <2>1, <2>2, <2>3, StepWithin
<1>5. ASSUME Statement(c) PROVE Consistent'
  <2>1. /\ conn'[c].task = t /\ conn'[c].pc = conn[c].pc
        /\ \A d \in Connections \ {c} : conn'[d] = conn[d]
        /\ conn'[c].pos = conn[c].pos + 1 /\ conn'[c].open = conn[c].open
        /\ conn[c].open => conn'[c].mine = Append(conn[c].mine, conn[c].pos)
        /\ ~conn[c].open => conn'[c].mine = conn[c].mine
    BY <1>0, <1>2, <1>5 DEF Statement, ConnectionType
  <2>2. /\ UNCHANGED <<pool, queue, state, result, lost>>
        /\ conn[c].pc = "run" /\ conn[c].pos <= Size[t]
        /\ \A u \in Tasks \ {t} : written'[u] = written[u]
        /\ conn[c].open => written'[t] = written[t]
        /\ ~conn[c].open => written'[t] = Append(written[t], conn[c].pos)
    BY <1>2, <1>3, <1>5 DEF Statement, Executing, Durable
  <2>3. ~lost[t] => Progress(c)'
    <3> SUFFICES ASSUME ~lost[t] PROVE Progress(c)'
      OBVIOUS
    <3>1. Progress(c)
      BY <1>3
    <3>2. conn[c].pos - 1 \in Nat /\ (conn[c].pos - 1) + 1 = conn[c].pos
      BY <1>3, <2>2, <3>1 DEF Progress
    <3>3. Append(Count(conn[c].pos - 1), conn[c].pos) = Count(conn[c].pos)
      BY <3>2, CountAppend
    <3>4. t \notin Singles => /\ conn'[c].open /\ written'[t] = <<>>
                              /\ conn'[c].mine = Count(conn[c].pos)
      BY <1>2, <2>1, <2>2, <3>1, <3>3 DEF Progress
    <3>5. t \in Singles => written'[t] = Count(conn[c].pos)
      BY <1>2, <1>3, <2>1, <2>2, <3>1, <3>3 DEF Progress
    <3>6. /\ conn'[c].pos \in 1..(Size[t] + 1) /\ Size[t] > 0
          /\ conn'[c].pos - 1 = conn[c].pos
      <4>1. \A n, m \in Nat : n - 1 \in Nat /\ n <= m =>
               n + 1 \in 1..(m + 1) /\ m > 0 /\ (n + 1) - 1 = n
        OBVIOUS
      <4>2. conn[c].pos \in Nat /\ Size[t] \in Nat /\ conn[c].pos - 1 \in Nat
        BY <1>3, <3>2
      <4> QED BY <2>1, <2>2, <4>1, <4>2, Zenon
    <3> QED BY <1>2, <2>1, <2>2, <3>4, <3>5, <3>6 DEF Progress
  <2> QED BY <1>2, <1>3, <2>1, <2>2, <2>3, StepWithin
<1>6. ASSUME RollbackTransaction(c) PROVE Consistent'
  <2>1. /\ conn'[c].task = t /\ conn'[c].pc = "rolledback"
        /\ \A d \in Connections \ {c} : conn'[d] = conn[d]
        /\ ~conn'[c].open /\ conn'[c].mine = <<>>
    BY <1>0, <1>2, <1>6 DEF RollbackTransaction, Rollback, ConnectionType
  <2>2. UNCHANGED <<pool, queue, state, result, written, lost>> /\ conn[c].pc = "failed"
    BY <1>6 DEF RollbackTransaction
  <2>3. ~lost[t] => Progress(c)'
    BY <1>2, <1>3, <2>1, <2>2 DEF Progress
  <2> QED BY <1>2, <1>3, <2>1, <2>2, <2>3, StepWithin
<1>7. ASSUME RetryAlone(c) \/ RetryAsync(c) \/ RetryDirect(c) PROVE Consistent'
  <2>0. PICK left : Again(c, left)
    BY <1>7 DEF RetryAlone, RetryAsync, RetryDirect
  <2>1. /\ conn'[c].task = t /\ conn'[c].pc = "begin"
        /\ \A d \in Connections \ {c} : conn'[d] = conn[d]
        /\ conn'[c].open = conn[c].open /\ conn'[c].mine = conn[c].mine
    BY <1>0, <1>2, <2>0 DEF Again, ConnectionType
  <2>2. /\ UNCHANGED <<pool, queue, state, result, written, lost>>
        /\ conn[c].pc = "rolledback"
    BY <1>7 DEF RetryAlone, RetryAsync, RetryDirect
  <2>3. ~lost[t] => Progress(c)'
    BY <1>2, <1>3, <2>1, <2>2 DEF Progress
  <2> QED BY <1>2, <1>3, <2>1, <2>2, <2>3, StepWithin
<1>8. ASSUME NEW error \in {"deadlock", "other"}, StatementFails(c, error) PROVE Consistent'
  <2>1. /\ conn'[c].task = t /\ conn'[c].pc = "failed"
        /\ \A d \in Connections \ {c} : conn'[d] = conn[d]
        /\ \/ ~conn'[c].open /\ conn'[c].mine = <<>>
           \/ conn'[c].open = conn[c].open /\ conn'[c].mine = conn[c].mine
    BY <1>0, <1>2, <1>8 DEF StatementFails, ConnectionType
  <2>2. /\ UNCHANGED <<pool, queue, state, result, written, lost>>
        /\ conn[c].pc = "run" /\ conn[c].pos <= Size[t]
    BY <1>2, <1>8 DEF StatementFails, Executing
  <2>3. ~lost[t] => Progress(c)'
    <3> SUFFICES ASSUME ~lost[t] PROVE written[t] = <<>>
      BY <1>2, <2>1, <2>2 DEF Progress
    <3>1. t \notin Singles => written[t] = <<>>
      BY <1>2, <1>3, <2>2 DEF Progress
    <3>2. t \in Singles => conn[c].pos = 1 /\ written[t] = Count(conn[c].pos - 1)
      BY <1>2, <1>3, <2>2 DEF Progress
    <3>3. t \in Singles => written[t] = Count(0)
      BY <3>2
    <3> QED BY <3>1, <3>3, CountAppend
  <2> QED BY <1>2, <1>3, <2>1, <2>2, <2>3, StepWithin
<1>9. ASSUME LoseConnection(c) \/ LoseCommit(c) PROVE Consistent'
  <2>0. Disconnect(c) /\ conn[c].pc = "run"
    BY <1>9 DEF LoseConnection, LoseCommit, Executing
  <2>1. /\ conn'[c].task = t /\ conn'[c].pc = "run"
        /\ \A d \in Connections \ {c} : conn'[d] = conn[d]
        /\ ~conn'[c].open /\ conn'[c].mine = <<>>
    BY <1>0, <1>2, <2>0 DEF Disconnect, ConnectionType
  <2>2. lost'[t] /\ \A u \in Tasks \ {t} : lost'[u] = lost[u]
    BY <1>2, <1>3, <2>0 DEF Disconnect
  <2>3. /\ UNCHANGED <<pool, queue, state, result>>
        /\ \A u \in Tasks \ {t} : written'[u] = written[u]
    BY <1>2, <1>3, <1>9 DEF LoseConnection, LoseCommit, Durable
  <2> QED BY <1>2, <1>3, <2>1, <2>2, <2>3, StepWithin
<1> QED BY <1>4, <1>5, <1>6, <1>7, <1>8, <1>9

\* A thread takes a task that nobody has touched.
LEMMA StartNext ==
    ASSUME IndInv, TypeOK', NEW c \in Connections, NEW t \in Tasks, Start(c, t),
           state[t] \in {"new", "queued"}, pool = "open",
           \A i \in DOMAIN queue' : state[queue'[i]] = "queued" /\ queue'[i] # t,
           \A i, j \in DOMAIN queue' : queue'[i] = queue'[j] => i = j
    PROVE  Consistent'
<1> USE DEF IndInv, Consistent, serverVars
<1>0. NoTask \notin Tasks /\ ~lost[t] /\ written[t] = <<>>
  BY DatabasePoolAssumption DEF Untouched, Outcomes, Outcome
<1>1. /\ conn[c].pc = "idle" /\ conn'[c].task = t /\ conn'[c].pc = "begin"
      /\ conn'[c].open = conn[c].open /\ conn'[c].mine = conn[c].mine
      /\ \A d \in Connections \ {c} : conn'[d] = conn[d]
  BY DEF Start, TypeOK, ConnectionType
<1>2. /\ state'[t] = "running" /\ \A u \in Tasks \ {t} : state'[u] = state[u]
      /\ UNCHANGED <<pool, result, written, lost>>
  BY DEF Start, TypeOK
<1>3. \A d \in Connections : conn[d].task # t
  BY <1>0 DEF TaskRunning
<1>4. TaskRunning'
  BY <1>0, <1>1, <1>2, <1>3, Fields DEF TaskRunning
<1>5. TaskExclusive'
  <2>1. \A i \in DOMAIN queue' : queue'[i] \in Tasks \ {t}
    BY DEF TypeOK
  <2>2. \A i \in DOMAIN queue' : state'[queue'[i]] = "queued"
    BY <1>2, <2>1
  <2>3. \A d, e \in Connections :
           conn'[d].task = conn'[e].task /\ conn'[d].task # NoTask => d = e
    BY <1>1, <1>3 DEF TaskExclusive
  <2> QED BY <2>2, <2>3 DEF TaskExclusive
<1>6. OpenOnlyInside'
  <2>1. ~conn[c].open /\ conn[c].mine = <<>>
    BY <1>1 DEF OpenOnlyInside
  <2> QED BY <1>1, <2>1 DEF OpenOnlyInside
<1>7. TasksProgress'
  <2> SUFFICES ASSUME NEW d \in Connections, conn'[d].task # NoTask, ~lost'[conn'[d].task]
               PROVE  Progress(d)'
    BY DEF TasksProgress
  <2>1. CASE d = c
    BY <1>0, <1>1, <1>2, <2>1 DEF Progress
  <2>2. CASE d # c
    <3>1. conn'[d] = conn[d] /\ Progress(d)
      BY <1>1, <1>2, <2>2 DEF TasksProgress
    <3> QED BY <1>2, <3>1 DEF Progress
  <2> QED BY <2>1, <2>2
<1>8. Outcomes'
  <2> SUFFICES ASSUME NEW u \in Tasks, ~lost'[u] PROVE Outcome(u)'
    BY DEF Outcomes
  <2>1. CASE u = t
    BY <1>1, <1>2, <2>1 DEF Outcome
  <2>2. CASE u # t
    <3>1. Outcome(u) /\ state'[u] = state[u] /\ conn[c].task # u
      BY <1>0, <1>1, <1>2, <2>2 DEF Outcomes, TaskRunning
    <3>2. state[u] = "running" => \E d \in Connections \ {c} : conn[d].task = u
      BY <3>1 DEF Outcome
    <3> QED BY <1>1, <1>2, <3>1, <3>2 DEF Outcome, Whole
  <2> QED BY <2>1, <2>2
<1>9. Untouched' /\ NobodyWrites'
  BY <1>2 DEF Untouched, NobodyWrites
<1> QED BY <1>4, <1>5, <1>6, <1>7, <1>8, <1>9

\* A task is over: its connection is free, and what is written of the task
\* is what the caller is told.
LEMMA SettleNext ==
    ASSUME IndInv, TypeOK', NEW c \in Connections, NEW t \in Tasks, conn[c].task = t,
           NEW ok \in BOOLEAN, Settle(c, ok, FALSE, <<>>),
           UNCHANGED <<pool, queue, lost>>,
           \A u \in Tasks \ {t} : written'[u] = written[u],
           ~lost[t] => /\ written'[t] \in {<<>>, Whole(t)}
                       /\ ok <=> Size[t] # 0 /\ written'[t] = Whole(t)
    PROVE  Consistent'
<1> USE DEF IndInv, Consistent
<1>0. NoTask \notin Tasks /\ state[t] = "running"
  BY DatabasePoolAssumption DEF TaskRunning
<1>1. /\ conn'[c].pc = "idle" /\ conn'[c].task = NoTask
      /\ ~conn'[c].open /\ conn'[c].mine = <<>>
      /\ \A d \in Connections \ {c} : conn'[d] = conn[d]
  BY DEF Settle, Unused, TypeOK
<1>2. /\ state'[t] = "settled" /\ \A u \in Tasks \ {t} : state'[u] = state[u]
      /\ result'[t] = ok /\ \A u \in Tasks \ {t} : result'[u] = result[u]
  BY DEF Settle, TypeOK
<1>3. \A d \in Connections \ {c} : conn[d].task # t
  BY <1>0 DEF TaskExclusive
<1>4. TaskRunning'
  BY <1>0, <1>1, <1>2, <1>3, Fields DEF TaskRunning
<1>5. TaskExclusive'
  <2>1. \A i \in DOMAIN queue : queue[i] \in Tasks /\ queue[i] # t
    BY <1>0 DEF TaskExclusive, TypeOK
  <2> QED BY <1>1, <1>2, <2>1 DEF TaskExclusive
<1>6. OpenOnlyInside'
  BY <1>1 DEF OpenOnlyInside
<1>7. TasksProgress'
  <2> SUFFICES ASSUME NEW d \in Connections, conn'[d].task # NoTask, ~lost'[conn'[d].task]
               PROVE  Progress(d)'
    BY DEF TasksProgress
  <2>1. conn'[d] = conn[d] /\ Progress(d) /\ conn[d].task \in Tasks \ {t}
    BY <1>1, <1>3, Fields DEF TasksProgress
  <2> QED BY <2>1 DEF Progress
<1>8. Outcomes'
  <2> SUFFICES ASSUME NEW u \in Tasks, ~lost'[u] PROVE Outcome(u)'
    BY DEF Outcomes
  <2>1. CASE u = t
    BY <1>1, <1>2, <2>1 DEF Outcome, Whole
  <2>2. CASE u # t
    <3>1. Outcome(u) /\ state'[u] = state[u] /\ result'[u] = result[u]
      BY <1>2, <2>2 DEF Outcomes
    <3>2. state[u] = "running" => \E d \in Connections \ {c} : conn[d].task = u
      BY <2>2, <3>1 DEF Outcome
    <3> QED BY <1>1, <2>2, <3>1, <3>2 DEF Outcome, Whole
  <2> QED BY <2>1, <2>2
<1>9. Untouched' /\ NobodyWrites'
  BY <1>1, <1>2 DEF Untouched, NobodyWrites, Connections
<1> QED BY <1>4, <1>5, <1>6, <1>7, <1>8, <1>9

\* The two ways a task ends: COMMIT, and Cleanup() after the last attempt.
LEMMA EndNext ==
    ASSUME IndInv, TypeOK', NEW c \in Connections, CommitTransaction(c) \/ GiveUp(c)
    PROVE  Consistent'
<1> USE DEF IndInv, Consistent, serverVars
<1>1. conn[c].pc # "idle"
  BY DEF CommitTransaction, GiveUp
<1>2. PICK t \in Tasks : t = conn[c].task
  BY <1>1, Fields DEF TaskRunning
<1>3. /\ conn[c].open \in BOOLEAN /\ written \in [Tasks -> Seq(Nat)] /\ Size[t] \in Nat
      /\ t \in Singles => Size[t] = 1
      /\ t # NoTask /\ conn[c].pos \in Nat
  BY <1>2, Fields, DatabasePoolAssumption DEF TypeOK
<1>4. ~lost[t] => Progress(c)
  BY <1>2, <1>3 DEF TasksProgress
<1>5. CASE CommitTransaction(c)
  <2>1. /\ Settle(c, TRUE, FALSE, <<>>) /\ UNCHANGED <<pool, queue, lost>>
        /\ conn[c].pc = "run" /\ conn[c].pos > Size[t]
        /\ \A u \in Tasks \ {t} : written'[u] = written[u]
        /\ written'[t] = written[t] \o conn[c].mine
    BY <1>2, <1>3, <1>5 DEF CommitTransaction
  <2>2. ASSUME ~lost[t] PROVE Size[t] # 0 /\ written'[t] = Whole(t)
    <3>1. Size[t] > 0 /\ conn[c].pos = Size[t] + 1 /\ conn[c].pos - 1 = Size[t]
      BY <1>2, <1>3, <1>4, <2>1, <2>2 DEF Progress
    <3>2. t \notin Singles => written'[t] = <<>> \o Count(Size[t])
      BY <1>2, <1>4, <2>1, <2>2, <3>1 DEF Progress
    <3>3. t \in Singles => written[t] = Count(Size[t]) /\ conn[c].mine = <<>>
      BY <1>2, <1>4, <2>1, <2>2, <3>1 DEF Progress, OpenOnlyInside
    <3>4. t \in Singles => written'[t] = Count(Size[t])
      BY <1>3, <2>1, <3>3, ConcatEmptySeq
    <3> QED BY <1>3, <3>1, <3>2, <3>4, CountAppend DEF Whole, Count
  <2> QED BY <1>2, <2>1, <2>2, SettleNext
<1>6. CASE GiveUp(c)
  <2>1. /\ conn[c].pc \in {"failed", "rolledback"} /\ (conn[c].pc = "failed" => t \in Singles)
        /\ Settle(c, FALSE, conn[c].open, conn[c].mine)
        /\ UNCHANGED <<pool, queue, lost, written>>
    BY <1>2, <1>6 DEF GiveUp, FailureResult
  <2>2. conn[c].open = FALSE /\ conn[c].mine = <<>>
    BY <1>2, <1>3, <2>1 DEF OpenOnlyInside
  <2>3. ~lost[t] => written[t] = <<>>
    BY <1>2, <1>4, <2>1 DEF Progress
  <2>4. Size[t] # 0 => Whole(t) # <<>>
    BY <1>3, CountAppend DEF Whole, Count
  <2> QED BY <1>2, <2>1, <2>2, <2>3, <2>4, SettleNext
<1> QED BY <1>5, <1>6

\* A task that is being executed, on a connection that holds, has written
\* nothing yet, or it is a single statement that is done.
LEMMA RunningWhole ==
    ASSUME IndInv, NEW t \in Tasks, ~lost[t], state[t] = "running"
    PROVE  written[t] \in {<<>>, Whole(t)}
<1> USE DEF IndInv, Consistent
  <1>1. PICK d \in Connections : conn[d].task = t
    BY DEF Outcomes, Outcome
  <1>2. t # NoTask /\ Size[t] \in Nat /\ (t \in Singles => Size[t] = 1)
    BY DatabasePoolAssumption
  <1>3. Progress(d) /\ conn[d].pc \in {"begin", "run", "failed", "rolledback"}
    BY <1>1, <1>2, Fields DEF TasksProgress, TaskRunning
  <1>4. conn[d].pc = "run" /\ t \in Singles =>
           conn[d].pos \in 1..2 /\ written[t] = Count(conn[d].pos - 1)
    BY <1>1, <1>2, <1>3 DEF Progress
  <1>5. conn[d].pc = "run" /\ t \in Singles => written[t] \in {Count(0), Count(1)}
    BY <1>4
  <1>6. ~(conn[d].pc = "run" /\ t \in Singles) => written[t] = <<>>
    BY <1>1, <1>3 DEF Progress
  <1>7. Count(0) = <<>> /\ (t \in Singles => Whole(t) = Count(1))
    BY <1>2, CountAppend DEF Whole, Count
  <1> QED BY <1>5, <1>6, <1>7

\* Every step keeps the invariant.
LEMMA ConsistentNext == IndInv /\ [Next]_vars /\ TypeOK' => Consistent'
<1> SUFFICES ASSUME IndInv, [Next]_vars, TypeOK' PROVE Consistent'
  OBVIOUS
<1> USE DEF taskVars, serverVars
<1>0. TypeOK /\ TaskExclusive /\ Outcomes /\ Untouched /\ Connections = Async \cup Sync
  BY DEF IndInv, Consistent, Connections
<1>1. ASSUME NEW t \in Tasks, Post(t) PROVE Consistent'
  <2> USE DEF IndInv, Consistent
  <2>1. /\ state[t] = "new" /\ state'[t] = "queued"
        /\ \A u \in Tasks \ {t} : state'[u] = state[u]
        /\ queue' = Append(queue, t) /\ queue \in Seq(Tasks)
        /\ UNCHANGED <<pool, result, conn, written, lost>>
    BY <1>1 DEF Post, TypeOK
  <2>2. TaskRunning' /\ OpenOnlyInside' /\ NobodyWrites'
    BY <2>1, Fields DEF TaskRunning, OpenOnlyInside, NobodyWrites
  <2>3. TaskExclusive'
    <3>1. /\ DOMAIN queue' = DOMAIN queue \cup {Len(queue) + 1}
          /\ queue'[Len(queue) + 1] = t
          /\ \A i \in DOMAIN queue : queue'[i] = queue[i] /\ queue[i] \in Tasks \ {t}
      BY <2>1 DEF TaskExclusive
    <3>2. \A i \in DOMAIN queue' : state'[queue'[i]] = "queued"
      BY <2>1, <3>1 DEF TaskExclusive
    <3>3. \A i, j \in DOMAIN queue' : queue'[i] = queue'[j] => i = j
      BY <3>1 DEF TaskExclusive
    <3> QED BY <2>1, <3>2, <3>3 DEF TaskExclusive
  <2>4. TasksProgress'
    BY <2>1 DEF TasksProgress, Progress
  <2>5. Outcomes' /\ Untouched'
    BY <2>1 DEF Outcomes, Outcome, Untouched, Whole
  <2> QED BY <2>2, <2>3, <2>4, <2>5
<1>2. ASSUME NEW c \in Connections, NEW t \in Tasks, Direct(c, t) PROVE Consistent'
  <2>1. \A i \in DOMAIN queue : state[queue[i]] = "queued" /\ queue[i] # t
    BY <1>0, <1>2 DEF TaskExclusive, Direct
  <2> QED BY <1>0, <1>2, <2>1, StartNext DEF Direct, TaskExclusive
<1>3. ASSUME NEW c \in Connections, TakeTask(c) PROVE Consistent'
  <2>1. queue \in Seq(Tasks) /\ queue # <<>> /\ queue' = Tail(queue)
    BY <1>0, <1>3 DEF TakeTask, TypeOK
  <2>2. /\ 1 \in DOMAIN queue /\ Head(queue) = queue[1] /\ queue[1] \in Tasks
        /\ \A i \in DOMAIN queue' :
              /\ i + 1 \in DOMAIN queue /\ queue'[i] = queue[i + 1] /\ i + 1 # 1
              /\ \A j \in DOMAIN queue' : i + 1 = j + 1 => i = j
    BY <2>1
  <2>3. /\ state[queue[1]] = "queued"
        /\ \A i \in DOMAIN queue' : state[queue'[i]] = "queued" /\ queue'[i] # queue[1]
        /\ \A i, j \in DOMAIN queue' : queue'[i] = queue'[j] => i = j
    BY <1>0, <2>2 DEF TaskExclusive
  <2> QED BY <1>3, <2>2, <2>3, StartNext DEF TakeTask
<1>4. ASSUME NEW c \in Connections, Abort(c) PROVE Consistent'
  <2> USE DEF IndInv, Consistent
  <2>1. /\ \A d \in Connections : conn'[d] = Unused
        /\ queue' = <<>> /\ UNCHANGED <<result, written, lost>>
        /\ \A t \in Tasks : state'[t] = IF state[t] \in {"queued", "running"} THEN "dropped"
                                        ELSE state[t]
    BY <1>4 DEF Abort
  <2>2. TaskRunning' /\ TaskExclusive' /\ OpenOnlyInside' /\ TasksProgress' /\ NobodyWrites'
    BY <1>0, <2>1, DatabasePoolAssumption
       DEF TaskRunning, TaskExclusive, OpenOnlyInside, TasksProgress, NobodyWrites, Unused
  <2>4. Outcomes' /\ Untouched'
    BY <2>1, RunningWhole DEF Outcomes, Outcome, Untouched, Whole
  <2> QED BY <2>2, <2>4
<1>5. CASE Stop
  BY <1>5 DEF Stop, IndInv, Consistent, TaskRunning, TaskExclusive, OpenOnlyInside,
     TasksProgress, Progress, Outcomes, Outcome, Whole, Untouched, NobodyWrites
<1>6. CASE Close
  <2> USE DEF IndInv, Consistent
  <2>1. /\ \A d \in Connections : conn'[d] = Unused
        /\ queue' = <<>> /\ UNCHANGED <<result, written, lost>>
        /\ \A t \in Tasks : state'[t] = IF state[t] = "queued" THEN "dropped" ELSE state[t]
    BY <1>6 DEF Close
  <2>2. \A d \in Connections : conn[d].task = NoTask
    BY <1>0, <1>6 DEF Close, TaskRunning, NobodyWrites
  <2>3. TaskRunning' /\ TaskExclusive' /\ OpenOnlyInside' /\ TasksProgress' /\ NobodyWrites'
    BY <1>0, <2>1, DatabasePoolAssumption
       DEF TaskRunning, TaskExclusive, OpenOnlyInside, TasksProgress, NobodyWrites, Unused
  <2>4. \A t \in Tasks : ~lost[t] => state[t] # "running"
    BY <2>2, DatabasePoolAssumption DEF Outcomes, Outcome
  <2>5. Outcomes' /\ Untouched'
    BY <2>1, <2>4 DEF Outcomes, Outcome, Untouched, Whole
  <2> QED BY <2>3, <2>5
<1>7. CASE UNCHANGED vars
  BY <1>7 DEF vars, IndInv, Consistent, TaskRunning, TaskExclusive, OpenOnlyInside,
     TasksProgress, Progress, Outcomes, Outcome, Whole, Untouched, NobodyWrites
<1> QED
  BY <1>1, <1>2, <1>3, <1>4, <1>5, <1>6, <1>7, WithinNext, EndNext
     DEF Next, Work, Trouble, Done

\* A pool that was just opened satisfies it.
LEMMA IndInvInit == Init => IndInv
<1> SUFFICES ASSUME Init PROVE IndInv
  OBVIOUS
<1>1. TypeOK
  BY UnusedType, EmptySeq, DatabasePoolAssumption DEF Init, TypeOK
<1>2. TaskRunning /\ TaskExclusive /\ OpenOnlyInside /\ TasksProgress /\ NobodyWrites
  BY DatabasePoolAssumption DEF Init, TaskRunning, TaskExclusive, OpenOnlyInside, TasksProgress,
     NobodyWrites, Unused
<1>3. Outcomes /\ Untouched
  BY DEF Init, Outcomes, Outcome, Untouched
<1> QED BY <1>1, <1>2, <1>3 DEF IndInv, Consistent

\* The inductive invariant holds in every state the pool can reach.
THEOREM PoolConsistent == Spec => []IndInv
<1>1. IndInv /\ [Next]_vars => IndInv'
  BY TypeOKNext, ConsistentNext DEF IndInv
<1> QED BY <1>1, IndInvInit, PTL DEF Spec

\* The types of the pool's state: connections, tasks, what is durable.
THEOREM PoolTypeOK == Spec => []TypeOK
<1>1. IndInv => TypeOK
  BY DEF IndInv
<1> QED BY <1>1, PoolConsistent, PTL

\* ExecuteTransaction rolls back before it returns an error, so a connection is
\* never handed on with a transaction open, whatever fails, deadlocks or is lost.
THEOREM NoOpenTransactionHandedOn == Spec => []NoTransactionLeftOpen
<1>1. IndInv => NoTransactionLeftOpen
  <2> SUFFICES ASSUME IndInv, NEW c \in Connections, conn[c].pc \in {"idle", "begin"}
               PROVE  ~conn[c].open /\ conn[c].mine = <<>>
    BY DEF NoTransactionLeftOpen
  <2> QED BY DEF IndInv, Consistent, OpenOnlyInside
<1> QED BY <1>1, PoolConsistent, PTL

\* However often a transaction fails, deadlocks and is retried, and whenever the
\* pool is closed or the process terminated, it is written whole or not at all
\* unless a connection was lost under it.
THEOREM TransactionsAllOrNothing == Spec => []AllOrNothing
<1>1. IndInv => AllOrNothing
  <2> SUFFICES ASSUME IndInv, NEW t \in Tasks, ~lost[t] PROVE written[t] \in {<<>>, Whole(t)}
    BY DEF AllOrNothing
  <2> USE DEF IndInv, Consistent
  <2>1. Outcome(t)
    BY DEF Outcomes
  <2>2. CASE state[t] # "running"
    BY <2>1, <2>2 DEF Outcome, TypeOK
  <2>3. CASE state[t] = "running"
    BY <2>3, RunningWhole
  <2> QED BY <2>2, <2>3
<1> QED BY <1>1, PoolConsistent, PTL

\* The result TransactionTask::Execute and DirectCommitTransaction hand to the
\* caller says whether the transaction was written.
THEOREM ResultsTruthful == Spec => []ResultTruthful
<1>1. IndInv => ResultTruthful
  BY DEF IndInv, Consistent, Outcomes, Outcome, ResultTruthful
<1> QED BY <1>1, PoolConsistent, PTL
=============================================================================
