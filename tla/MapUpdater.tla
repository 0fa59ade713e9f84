----------------------------- MODULE MapUpdater -----------------------------
(***************************************************************************)
(* The parallel map update: the world thread runs MapManager::Update, which *)
(* hands every map to a pool of worker threads through MapUpdater and its   *)
(* ProducerConsumerQueue, waits for all of them and only then touches the   *)
(* maps itself again.  MapManager::UnloadAll shuts the pool down.           *)
(*                                                                         *)
(* A section guarded by one mutex is one step.  schedule_update() holds     *)
(* _lock while Push() takes the queue's own lock, so it is two steps and    *)
(* MapUpdater::_lock is held in between.                                    *)
(***************************************************************************)
EXTENDS Naturals, Sequences, FiniteSets

CONSTANTS Maps,        \* every map that can exist (map id, instance id)
          Workers,     \* the worker threads that can be configured
          NoRequest,   \* the null MapUpdateRequest pointer
          MaxTicks     \* bound: calls of MapManager::Update in one run

ASSUME MapUpdaterAssumption ==
    /\ IsFiniteSet(Workers)
    /\ NoRequest \notin Maps
    /\ MaxTicks \in Nat

VARIABLES
    i_maps,            \* MapManager::i_maps
    toVisit,           \* the maps the loop of MapManager::Update has not reached
    ticks,             \* calls of MapManager::Update so far (bounded)
    pc,                \* where the world thread is
    workerThreads,     \* MapUpdater::_workerThreads
    queue,             \* _queue._queue, a request is the map it is for
    shutdown,          \* _queue._shutdown
    sleeping,          \* workers blocked in _queue._condition.wait
    cancelationToken,  \* MapUpdater::_cancelationToken
    scheduling,        \* the map of the schedule_update() call in progress
    pending_requests,  \* MapUpdater::pending_requests
    wpc,               \* where each worker is
    request,           \* the worker's local MapUpdateRequest*
    scheduled,         \* history: maps handed out in this tick
    updates            \* history: how often a map was updated in this tick

mainVars   == <<i_maps, toVisit, ticks, pc, scheduled>>
queueVars  == <<queue, shutdown, sleeping>>
poolVars   == <<workerThreads, cancelationToken>>
lockVars   == <<scheduling, pending_requests>>
workerVars == <<wpc, request>>
vars == <<i_maps, toVisit, ticks, pc, workerThreads, queue, shutdown, sleeping,
          cancelationToken, scheduling, pending_requests, wpc, request, scheduled,
          updates>>

MainStates == {"idle", "loop", "push", "wait", "blocked", "delayed",
               "cancel", "join", "stopped"}
WorkerStates == {"none", "pop", "popped", "call", "updating", "finish", "exited"}

activated == workerThreads # {}

\* MapUpdater::_lock is held by a schedule_update() that has not returned.
LockHeld == pc = "push"

(***************************************************************************)
(* MapManager::Initialize and MapUpdater::activate: any configured number   *)
(* of threads, none included.                                               *)
(***************************************************************************)
Init ==
    /\ i_maps = {}
    /\ toVisit = {}
    /\ ticks = 0
    /\ pc = "idle"
    /\ workerThreads \in SUBSET Workers
    /\ queue = <<>>
    /\ shutdown = FALSE
    /\ sleeping = {}
    /\ cancelationToken = FALSE
    /\ scheduling = NoRequest
    /\ pending_requests = 0
    /\ wpc = [w \in Workers |-> IF w \in workerThreads THEN "pop" ELSE "none"]
    /\ request = [w \in Workers |-> NoRequest]
    /\ scheduled = {}
    /\ updates = [m \in Maps |-> 0]

-----------------------------------------------------------------------------
(* The world thread.                                                        *)

\* MapManager::CreateMap, called by the world thread while it handles the
\* packets of sessions: between two calls of MapManager::Update.
CreateMap(m) ==
    /\ pc = "idle"
    /\ m \notin i_maps
    /\ i_maps' = i_maps \cup {m}
    /\ UNCHANGED <<toVisit, ticks, pc, scheduled, updates, queueVars, poolVars,
                   lockVars, workerVars>>

\* MapManager::Update up to its loop, when i_timer has passed.
BeginUpdate ==
    /\ pc = "idle"
    /\ ticks < MaxTicks
    /\ ticks' = ticks + 1
    /\ toVisit' = i_maps
    /\ scheduled' = {}
    /\ updates' = [m \in Maps |-> 0]
    /\ pc' = "loop"
    /\ UNCHANGED <<i_maps, queueVars, poolVars, lockVars, workerVars>>

\* A map that CanUnload() is destroyed, unless players could not be removed
\* from it (DestroyMap returns false): then it stays, and is not updated.
UnloadMap(m) ==
    /\ pc = "loop"
    /\ m \in toVisit
    /\ toVisit' = toVisit \ {m}
    /\ \/ i_maps' = i_maps \ {m}
       \/ i_maps' = i_maps
    /\ UNCHANGED <<ticks, pc, scheduled, updates, queueVars, poolVars, lockVars,
                   workerVars>>

\* Without worker threads the world thread updates the map itself.
UpdateInline(m) ==
    /\ pc = "loop"
    /\ m \in toVisit
    /\ ~activated
    /\ toVisit' = toVisit \ {m}
    /\ scheduled' = scheduled \cup {m}
    /\ updates' = [updates EXCEPT ![m] = @ + 1]
    /\ UNCHANGED <<i_maps, ticks, pc, queueVars, poolVars, lockVars, workerVars>>

\* ++pending_requests.
CountRequest_Missing == pending_requests' = pending_requests
CountRequest == pending_requests' = pending_requests + 1

\* schedule_update(): take _lock and count the request ...
ScheduleUpdate(m) ==
    /\ pc = "loop"
    /\ m \in toVisit
    /\ activated
    /\ scheduling' = m
    /\ CountRequest
    /\ toVisit' = toVisit \ {m}
    /\ scheduled' = scheduled \cup {m}
    /\ pc' = "push"
    /\ UNCHANGED <<i_maps, ticks, updates, queueVars, poolVars, workerVars>>

\* notify_one() wakes one of the threads blocked on the condition, if any.
NotifyOne ==
    \/ /\ sleeping # {}
       /\ \E w \in sleeping : sleeping' = sleeping \ {w}
    \/ /\ sleeping = {}
       /\ UNCHANGED sleeping

\* ... and Push() it, which notifies one consumer; then release _lock.
Push ==
    /\ pc = "push"
    /\ queue' = Append(queue, scheduling)
    /\ NotifyOne
    /\ scheduling' = NoRequest
    /\ pc' = "loop"
    /\ UNCHANGED <<i_maps, toVisit, ticks, scheduled, updates, shutdown,
                   poolVars, pending_requests, workerVars>>

\* The loop is over.  Without workers there is nothing to wait for.
EndLoop ==
    /\ pc = "loop"
    /\ toVisit = {}
    /\ pc' = IF activated THEN "wait" ELSE "delayed"
    /\ UNCHANGED <<i_maps, toVisit, ticks, scheduled, updates, queueVars,
                   poolVars, lockVars, workerVars>>

\* What wait() waits for.
WaitPredicate_QueueDrained == queue = <<>>
WaitPredicate == pending_requests = 0

\* MapUpdater::wait(): the predicate is read under _lock; the thread blocks
\* and releases the lock in one step, or returns.  It is called by
\* MapManager::Update and by deactivate().
Wait ==
    /\ pc = "wait"
    /\ ~LockHeld
    /\ pc' = IF ~WaitPredicate THEN "blocked"
             ELSE IF cancelationToken THEN "cancel" ELSE "delayed"
    /\ UNCHANGED <<i_maps, toVisit, ticks, scheduled, updates, queueVars,
                   poolVars, lockVars, workerVars>>

\* The second loop of MapManager::Update: the world thread touches every map.
DelayedUpdate ==
    /\ pc = "delayed"
    /\ pc' = "idle"
    /\ UNCHANGED <<i_maps, toVisit, ticks, scheduled, updates, queueVars,
                   poolVars, lockVars, workerVars>>

\* MapManager::UnloadAll at the end of the world thread: all maps are deleted,
\* and deactivate() raises the token and waits.
UnloadAll ==
    /\ pc = "idle"
    /\ i_maps' = {}
    /\ cancelationToken' = activated
    /\ pc' = IF activated THEN "wait" ELSE "stopped"
    /\ UNCHANGED <<toVisit, ticks, scheduled, updates, queueVars, workerThreads,
                   lockVars, workerVars>>

\* notify_all() on the queue's condition.
NotifyAllWorkers_Missing == sleeping' = sleeping
NotifyAllWorkers == sleeping' = {}

\* ProducerConsumerQueue::Cancel(): delete what is queued, wake everybody.
Cancel ==
    /\ pc = "cancel"
    /\ queue' = <<>>
    /\ shutdown' = TRUE
    /\ NotifyAllWorkers
    /\ pc' = "join"
    /\ UNCHANGED <<i_maps, toVisit, ticks, scheduled, updates, poolVars,
                   lockVars, workerVars>>

\* thread.join() on every worker.
Join ==
    /\ pc = "join"
    /\ \A w \in workerThreads : wpc[w] = "exited"
    /\ pc' = "stopped"
    /\ UNCHANGED <<i_maps, toVisit, ticks, scheduled, updates, queueVars,
                   poolVars, lockVars, workerVars>>

-----------------------------------------------------------------------------
(* A worker thread.                                                         *)

PopFront_Missing == queue' = queue
PopFront == queue' = Tail(queue)

\* ProducerConsumerQueue::WaitAndPop.  condition_variable::wait reads its
\* predicate again whenever the thread is woken.
WaitAndPop(w) ==
    /\ wpc[w] = "pop"
    /\ w \notin sleeping
    /\ \/ /\ queue = <<>> /\ ~shutdown
          /\ sleeping' = sleeping \cup {w}
          /\ UNCHANGED <<queue, workerVars>>
       \/ /\ shutdown
          /\ wpc' = [wpc EXCEPT ![w] = "popped"]
          /\ UNCHANGED <<queue, sleeping, request>>
       \/ /\ queue # <<>> /\ ~shutdown
          /\ request' = [request EXCEPT ![w] = Head(queue)]
          /\ PopFront
          /\ wpc' = [wpc EXCEPT ![w] = "popped"]
          /\ UNCHANGED sleeping
    /\ UNCHANGED <<mainVars, updates, shutdown, poolVars, lockVars>>

CheckToken_Missing(w) ==
    /\ wpc[w] = "popped"
    /\ wpc' = [wpc EXCEPT ![w] = "call"]
    /\ UNCHANGED <<mainVars, updates, queueVars, poolVars, lockVars, request>>

\* WorkerThread reads the token after WaitAndPop and before it uses the request.
CheckToken(w) ==
    /\ wpc[w] = "popped"
    /\ wpc' = [wpc EXCEPT ![w] = IF cancelationToken THEN "exited" ELSE "call"]
    /\ UNCHANGED <<mainVars, updates, queueVars, poolVars, lockVars, request>>

\* MapUpdateRequest::call(): Map::Update runs without any of the locks.
BeginMapUpdate(w) ==
    /\ wpc[w] = "call"
    /\ wpc' = [wpc EXCEPT ![w] = "updating"]
    /\ UNCHANGED <<mainVars, updates, queueVars, poolVars, lockVars, request>>

EndMapUpdate(w) ==
    /\ wpc[w] = "updating"
    /\ updates' = [updates EXCEPT ![request[w]] = @ + 1]
    /\ wpc' = [wpc EXCEPT ![w] = "finish"]
    /\ UNCHANGED <<mainVars, queueVars, poolVars, lockVars, request>>

\* notify_all() on the condition the world thread waits for.
NotifyWorldThread_NoRecheck == pc' = IF pc = "blocked" THEN "delayed" ELSE pc
NotifyWorldThread_Missing == pc' = pc
NotifyWorldThread == pc' = IF pc = "blocked" THEN "wait" ELSE pc

\* update_finished() under _lock: count down, notify_all, and the request dies.
UpdateFinished(w) ==
    /\ wpc[w] = "finish"
    /\ ~LockHeld
    /\ pending_requests' = pending_requests - 1
    /\ NotifyWorldThread
    /\ request' = [request EXCEPT ![w] = NoRequest]
    /\ wpc' = [wpc EXCEPT ![w] = "pop"]
    /\ UNCHANGED <<i_maps, toVisit, ticks, scheduled, updates, queueVars,
                   poolVars, scheduling>>

-----------------------------------------------------------------------------
\* A condition variable may wake a thread that nobody notified.
SpuriousWakeup ==
    \/ /\ \E w \in sleeping : sleeping' = sleeping \ {w}
       /\ UNCHANGED <<mainVars, updates, queue, shutdown, poolVars, lockVars,
                      workerVars>>
    \/ /\ pc = "blocked"
       /\ pc' = "wait"
       /\ UNCHANGED <<i_maps, toVisit, ticks, scheduled, updates, queueVars,
                      poolVars, lockVars, workerVars>>

-----------------------------------------------------------------------------
WorkerStep(w) == WaitAndPop(w) \/ CheckToken(w) \/ BeginMapUpdate(w)
                 \/ EndMapUpdate(w) \/ UpdateFinished(w)

\* What the world thread does inside MapManager::Update and deactivate().
MainStep ==
    \/ \E m \in Maps : UnloadMap(m) \/ UpdateInline(m) \/ ScheduleUpdate(m)
    \/ Push \/ EndLoop \/ Wait \/ DelayedUpdate \/ Cancel \/ Join

\* The server has shut down.
Done == pc = "stopped" /\ UNCHANGED vars

Next ==
    \/ \E m \in Maps : CreateMap(m)
    \/ BeginUpdate
    \/ UnloadAll
    \/ MainStep
    \/ \E w \in workerThreads : WorkerStep(w)
    \/ SpuriousWakeup
    \/ Done

\* The operating system schedules every runnable thread; whether a tick or the
\* shutdown begins is up to the world loop and is not assumed.
Fairness == WF_vars(MainStep) /\ \A w \in Workers : WF_vars(w \in workerThreads /\ WorkerStep(w))

Spec == Init /\ [][Next]_vars /\ Fairness

-----------------------------------------------------------------------------
InFlight(w) == wpc[w] \in {"popped", "call", "updating", "finish"} /\ request[w] # NoRequest

TypeOK ==
    /\ i_maps \subseteq Maps
    /\ toVisit \subseteq i_maps
    /\ ticks \in 0..MaxTicks
    /\ pc \in MainStates
    /\ workerThreads \subseteq Workers
    /\ queue \in Seq(Maps)
    /\ shutdown \in BOOLEAN
    /\ sleeping \subseteq workerThreads
    /\ cancelationToken \in BOOLEAN
    /\ scheduling \in Maps \cup {NoRequest}
    /\ pending_requests \in Nat
    /\ wpc \in [Workers -> WorkerStates]
    /\ request \in [Workers -> Maps \cup {NoRequest}]
    /\ scheduled \subseteq Maps
    /\ updates \in [Maps -> Nat]

\* Whenever the world thread is past wait() - in DelayedUpdate, handling
\* packets, creating or deleting maps, cancelling the queue - no map update is
\* queued or running (MapManager.cpp relies on wait() as a barrier: it takes no
\* lock when it walks and erases i_maps).
Barrier ==
    pc \in {"idle", "delayed", "cancel", "join", "stopped"} =>
        /\ queue = <<>>
        /\ \A w \in Workers : ~InFlight(w)

\* A map is given to at most one thread at a time, never deleted while a
\* request refers to it, and never unloaded by the world thread while a worker
\* updates it (MapUpdateRequest keeps a plain reference to the map).
MapOwnership ==
    /\ \A w \in Workers : InFlight(w) =>
          /\ request[w] \in i_maps \ toVisit
          /\ \A v \in Workers : InFlight(v) /\ request[v] = request[w] => v = w
          /\ \A i \in DOMAIN queue : queue[i] # request[w]
    /\ \A i \in DOMAIN queue :
          /\ queue[i] \in i_maps \ toVisit
          /\ \A j \in DOMAIN queue : queue[i] = queue[j] => i = j

\* When wait() has returned, every map of the tick that was not unloaded or
\* skipped has been updated exactly once, by whichever thread.
UpdatedOncePerTick ==
    pc = "delayed" => \A m \in Maps : updates[m] = IF m \in scheduled THEN 1 ELSE 0

\* WorkerThread calls request->call() without testing the pointer: a worker
\* that WaitAndPop released without a request must see the token.
NoNullRequestCalled == \A w \in Workers : wpc[w] = "call" => request[w] # NoRequest

\* The world thread is not left in wait(): no wake-up is lost between a
\* worker's update_finished() and the predicate of the wait.
WaitReturns == pc \in {"wait", "blocked"} ~> pc \in {"delayed", "cancel"}

\* Once deactivate() has raised the token every worker exits, the blocked ones
\* too, and join() returns.
ShutdownCompletes == cancelationToken ~> pc = "stopped"
=============================================================================
