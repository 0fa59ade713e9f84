-------------------------- MODULE MapUpdaterProofs --------------------------
(***************************************************************************)
(* What MapUpdater guarantees for any set of maps and any finite pool of    *)
(* workers, proved by induction over the steps of the specification.        *)
(***************************************************************************)
EXTENDS MapUpdater, FiniteSetTheorems, SequenceTheorems, TLAPS

Busy == {w \in Workers : InFlight(w)}

\* States of the world thread in which it is past the barrier.
PastWait == {"idle", "delayed", "cancel", "join", "stopped"}

\* pending_requests counts the request being pushed, the queued ones and those
\* the workers hold.
RequestsCounted ==
    pending_requests = Len(queue) + Cardinality(Busy) + (IF LockHeld THEN 1 ELSE 0)

\* Where the counter is known to be zero: past the barrier, once the token is
\* raised (so a worker that exits drops no request), and without workers.
CounterZero ==
    pc \in PastWait \/ cancelationToken \/ ~activated => pending_requests = 0

\* What a worker's program counter says about its request.
WorkerRequest == \A w \in Workers :
    /\ wpc[w] \in {"none", "pop", "exited"} => request[w] = NoRequest
    /\ wpc[w] \in {"call", "updating", "finish"} => request[w] # NoRequest
    /\ wpc[w] = "popped" /\ request[w] = NoRequest => cancelationToken

\* The world thread's own bookkeeping.
MainState ==
    /\ pc = "push" <=> scheduling # NoRequest
    /\ pc \notin {"loop", "push"} => toVisit = {}
    /\ shutdown => cancelationToken
    /\ pc \in {"cancel", "join"} => cancelationToken
    /\ cancelationToken => pc \in {"wait", "blocked", "cancel", "join", "stopped"}

CountInv == TypeOK /\ RequestsCounted /\ CounterZero /\ WorkerRequest /\ MainState

\* A map is handed to at most one thread: it is being pushed, queued or in the
\* hands of a worker, and only one of these.
Exclusive ==
    /\ scheduling # NoRequest =>
          /\ scheduling \in i_maps \ toVisit
          /\ \A i \in DOMAIN queue : queue[i] # scheduling
          /\ \A w \in Workers : InFlight(w) => request[w] # scheduling
    /\ MapOwnership

\* A map that was handed out and whose update has not ended.
Outstanding(m) ==
    \/ scheduling = m
    \/ \E i \in DOMAIN queue : queue[i] = m
    \/ \E w \in Workers : wpc[w] \in {"popped", "call", "updating"} /\ request[w] = m

\* Each map's updates in this tick: one as soon as its update has ended.
UpdatesCounted ==
    /\ pc \in {"loop", "push"} => scheduled \cap toVisit = {}
    /\ \A m \in Maps : Outstanding(m) => m \in scheduled
    /\ \A m \in Maps : updates[m] = IF m \in scheduled /\ ~Outstanding(m) THEN 1 ELSE 0

IndInv == CountInv /\ Exclusive /\ UpdatesCounted

-----------------------------------------------------------------------------
(* The counter.                                                             *)

\* The busy workers are finitely many.
LEMMA BusyFinite ==
    /\ IsFiniteSet(Busy)
    /\ Cardinality(Busy) \in Nat
BY MapUpdaterAssumption, FS_Subset, FS_CardinalityType DEF Busy

\* The busy workers when w takes a request.
LEMMA BusyAdd ==
    ASSUME NEW w \in Workers, w \notin Busy, Busy' = Busy \cup {w}
    PROVE  Cardinality(Busy') = Cardinality(Busy) + 1
BY BusyFinite, FS_AddElement

\* The busy workers when w gives its request back.
LEMMA BusyRemove ==
    ASSUME NEW w \in Workers, w \in Busy, Busy' = Busy \ {w}
    PROVE  Cardinality(Busy') = Cardinality(Busy) - 1 /\ Cardinality(Busy) > 0
<1>1. Cardinality(Busy') = Cardinality(Busy) - 1
  BY BusyFinite, FS_RemoveElement
<1>2. Cardinality(Busy') \in Nat
  BY BusyFinite, FS_Subset, FS_CardinalityType
<1> QED BY <1>1, <1>2, BusyFinite

\* Nothing is in the hands of a worker when the counter is zero.
LEMMA ZeroMeansIdle ==
    ASSUME CountInv, pending_requests = 0
    PROVE  queue = <<>> /\ Busy = {} /\ ~LockHeld
<1>1. Len(queue) \in Nat /\ Cardinality(Busy) \in Nat
  BY BusyFinite, LenProperties DEF CountInv, TypeOK
<1>2. Len(queue) = 0 /\ Cardinality(Busy) = 0 /\ ~LockHeld
  BY <1>1 DEF CountInv, RequestsCounted
<1>3. queue = <<>>
  BY <1>2, EmptySeq DEF CountInv, TypeOK
<1>4. Busy = {}
  BY <1>2, BusyFinite, FS_EmptySet
<1> QED BY <1>2, <1>3, <1>4

\* Before the first tick nothing is scheduled and nothing is counted.
LEMMA CountInvInit == Init => CountInv
<1> SUFFICES ASSUME Init PROVE CountInv
  OBVIOUS
<1> USE DEF Init
<1>1. TypeOK
  <2>1. wpc \in [Workers -> WorkerStates]
    BY DEF WorkerStates
  <2>2. pc \in MainStates
    BY DEF MainStates
  <2>3. request \in [Workers -> Maps \cup {NoRequest}] /\ updates \in [Maps -> Nat]
    OBVIOUS
  <2>4. queue \in Seq(Maps)
    BY EmptySeq
  <2>5. shutdown \in BOOLEAN /\ cancelationToken \in BOOLEAN
    BY Zenon
  <2>6. /\ i_maps \subseteq Maps /\ toVisit \subseteq i_maps /\ scheduled \subseteq Maps
        /\ workerThreads \subseteq Workers /\ sleeping \subseteq workerThreads
        /\ scheduling \in Maps \cup {NoRequest}
    OBVIOUS
  <2>7. ticks \in 0..MaxTicks /\ pending_requests \in Nat
    BY MapUpdaterAssumption
  <2> HIDE DEF Init
  <2> QED BY <2>1, <2>2, <2>3, <2>4, <2>5, <2>6, <2>7, Zenon DEF TypeOK
<1>2. Busy = {}
  BY DEF Busy, InFlight
<1>3. RequestsCounted
  BY <1>2, FS_EmptySet DEF RequestsCounted, LockHeld
<1> QED
  BY <1>1, <1>3 DEF CountInv, CounterZero, WorkerRequest, MainState, PastWait

\* The shape most steps have: the requests stay where they are.
LEMMA SameBusy ==
    ASSUME wpc' = wpc, request' = request
    PROVE  Busy' = Busy
BY DEF Busy, InFlight

\* A step of the world thread that keeps queue, requests and counter keeps the
\* count, when what it says of its own place in the code holds after it.
LEMMA CountInvMain ==
    ASSUME CountInv,
           UNCHANGED <<queue, workerThreads, pending_requests, wpc, request, shutdown>>,
           ~LockHeld, ~LockHeld', scheduling' = scheduling,
           TypeOK',
           pc' # "loop" => toVisit' = {},
           pc' \in PastWait /\ pc \notin PastWait => pending_requests = 0,
           cancelationToken' => cancelationToken \/ pc = "idle",
           cancelationToken => cancelationToken',
           pc' \in {"cancel", "join"} => cancelationToken',
           cancelationToken' => pc' \in {"wait", "blocked", "cancel", "join", "stopped"}
    PROVE  CountInv'
<1>1. RequestsCounted'
  BY SameBusy DEF CountInv, RequestsCounted
<1>2. CounterZero'
  BY DEF CountInv, CounterZero, PastWait, activated
<1>3. WorkerRequest'
  BY DEF CountInv, WorkerRequest
<1>4. MainState'
  BY DEF CountInv, MainState, LockHeld
<1> QED BY <1>1, <1>2, <1>3, <1>4 DEF CountInv

\* Steps of the world thread that leave the requests alone.
LEMMA CountInvQuietSteps ==
    ASSUME CountInv,
           \/ \E m \in Maps : CreateMap(m) \/ UnloadMap(m) \/ UpdateInline(m)
           \/ BeginUpdate \/ EndLoop \/ Wait \/ DelayedUpdate \/ UnloadAll \/ Join
           \/ SpuriousWakeup
    PROVE  CountInv'
<1> USE DEF queueVars, poolVars, lockVars, workerVars, mainVars
<1>0. TypeOK /\ CounterZero /\ MainState
  BY DEF CountInv
<1>1. ASSUME NEW m \in Maps, CreateMap(m) PROVE CountInv'
  <2>1. TypeOK'
    BY <1>0, <1>1 DEF TypeOK, CreateMap
  <2> QED BY <1>0, <1>1, <2>1, CountInvMain DEF CreateMap, LockHeld, PastWait, MainState
<1>2. ASSUME NEW m \in Maps, UnloadMap(m) PROVE CountInv'
  <2>1. TypeOK'
    BY <1>0, <1>2 DEF TypeOK, UnloadMap
  <2> QED BY <1>0, <1>2, <2>1, CountInvMain DEF UnloadMap, LockHeld, PastWait, MainState
<1>3. ASSUME NEW m \in Maps, UpdateInline(m) PROVE CountInv'
  <2>1. TypeOK'
    BY <1>0, <1>3 DEF TypeOK, UpdateInline
  <2> QED BY <1>0, <1>3, <2>1, CountInvMain DEF UpdateInline, LockHeld, PastWait, MainState
<1>4. ASSUME BeginUpdate PROVE CountInv'
  <2>1. TypeOK'
    BY <1>0, <1>4, MapUpdaterAssumption DEF TypeOK, BeginUpdate, MainStates
  <2> QED BY <1>0, <1>4, <2>1, CountInvMain DEF BeginUpdate, LockHeld, PastWait, MainState
<1>5. ASSUME EndLoop PROVE CountInv'
  <2>1. TypeOK'
    BY <1>0, <1>5 DEF TypeOK, EndLoop, MainStates
  <2>2. pc' = "delayed" => pending_requests = 0
    BY <1>0, <1>5 DEF EndLoop, CounterZero
  <2> QED BY <1>0, <1>5, <2>1, <2>2, CountInvMain DEF EndLoop, LockHeld, PastWait, MainState
<1>6. ASSUME Wait PROVE CountInv'
  <2>1. TypeOK'
    BY <1>0, <1>6 DEF TypeOK, Wait, MainStates
  <2> QED BY <1>0, <1>6, <2>1, CountInvMain
          DEF Wait, WaitPredicate, LockHeld, PastWait, MainState
<1>7. ASSUME DelayedUpdate PROVE CountInv'
  <2>1. TypeOK'
    BY <1>0, <1>7 DEF TypeOK, DelayedUpdate, MainStates
  <2> QED BY <1>0, <1>7, <2>1, CountInvMain DEF DelayedUpdate, LockHeld, PastWait, MainState
<1>8. ASSUME UnloadAll PROVE CountInv'
  <2>1. cancelationToken' \in BOOLEAN
    BY <1>8, Zenon DEF UnloadAll, activated
  <2>2. TypeOK'
    BY <1>0, <1>8, <2>1 DEF TypeOK, UnloadAll, MainStates, MainState
  <2> QED BY <1>0, <1>8, <2>2, CountInvMain
          DEF UnloadAll, LockHeld, PastWait, MainState, activated
<1>9. ASSUME Join PROVE CountInv'
  <2>1. TypeOK'
    BY <1>0, <1>9 DEF TypeOK, Join, MainStates
  <2> QED BY <1>0, <1>9, <2>1, CountInvMain DEF Join, LockHeld, PastWait, MainState
<1>10. ASSUME SpuriousWakeup PROVE CountInv'
  <2>1. TypeOK'
    BY <1>0, <1>10 DEF TypeOK, SpuriousWakeup, MainStates
  <2>2. CASE pc # "push"
    BY <1>0, <1>10, <2>1, <2>2, CountInvMain
       DEF SpuriousWakeup, LockHeld, PastWait, MainState
  <2>3. CASE pc = "push"
    <3>1. UNCHANGED <<pc, queue, workerThreads, pending_requests, wpc, request, shutdown,
                      scheduling, cancelationToken, toVisit>>
      BY <1>10, <2>3 DEF SpuriousWakeup
    <3> QED BY <2>1, <3>1, SameBusy DEF CountInv, RequestsCounted, CounterZero,
               WorkerRequest, MainState, LockHeld, activated
  <2> QED BY <2>2, <2>3
<1> QED BY <1>1, <1>2, <1>3, <1>4, <1>5, <1>6, <1>7, <1>8, <1>9, <1>10

\* schedule_update() counts the request before it is in the queue.
LEMMA CountInvSchedule ==
    ASSUME CountInv, NEW m \in Maps, ScheduleUpdate(m)
    PROVE  CountInv'
<1> USE DEF queueVars, poolVars, lockVars, workerVars, mainVars
<1>0. TypeOK /\ RequestsCounted /\ CounterZero /\ WorkerRequest /\ MainState
  BY DEF CountInv
<1>1. TypeOK'
  BY <1>0 DEF TypeOK, ScheduleUpdate, CountRequest, MainStates
<1>2. RequestsCounted'
  <2>1. Busy' = Busy
    BY SameBusy DEF ScheduleUpdate
  <2>2. Len(queue) \in Nat /\ Cardinality(Busy) \in Nat
    BY <1>0, BusyFinite, LenProperties DEF TypeOK
  <2> QED BY <1>0, <2>1, <2>2 DEF RequestsCounted, ScheduleUpdate, CountRequest, LockHeld
<1>3. CounterZero'
  BY <1>0 DEF MainState, CounterZero, ScheduleUpdate, activated, PastWait
<1>4. WorkerRequest'
  BY <1>0 DEF WorkerRequest, ScheduleUpdate
<1>5. MainState'
  BY <1>0, MapUpdaterAssumption DEF MainState, ScheduleUpdate
<1> QED BY <1>1, <1>2, <1>3, <1>4, <1>5 DEF CountInv

\* Push() moves the request from the caller to the queue.
LEMMA CountInvPush ==
    ASSUME CountInv, Push
    PROVE  CountInv'
<1> USE DEF queueVars, poolVars, lockVars, workerVars, mainVars
<1>0. TypeOK /\ RequestsCounted /\ CounterZero /\ WorkerRequest /\ MainState
  BY DEF CountInv
<1>1. scheduling \in Maps
  BY <1>0 DEF TypeOK, MainState, Push
<1>2. queue' \in Seq(Maps) /\ Len(queue') = Len(queue) + 1
  BY <1>0, <1>1, AppendProperties DEF TypeOK, Push
<1>3. TypeOK'
  BY <1>0, <1>2 DEF TypeOK, Push, NotifyOne, MainStates
<1>4. RequestsCounted'
  <2>1. Busy' = Busy
    BY SameBusy DEF Push
  <2>2. Len(queue) \in Nat /\ Cardinality(Busy) \in Nat
    BY <1>0, BusyFinite, LenProperties DEF TypeOK
  <2> QED BY <1>0, <1>2, <2>1, <2>2 DEF RequestsCounted, Push, LockHeld
<1>5. CounterZero'
  BY <1>0 DEF CounterZero, Push, activated, PastWait
<1>6. WorkerRequest'
  BY <1>0 DEF WorkerRequest, Push
<1>7. MainState'
  BY <1>0 DEF MainState, Push
<1> QED BY <1>3, <1>4, <1>5, <1>6, <1>7 DEF CountInv

\* Cancel() finds nothing left to delete.
LEMMA CountInvCancel ==
    ASSUME CountInv, Cancel
    PROVE  CountInv'
<1> USE DEF queueVars, poolVars, lockVars, workerVars, mainVars
<1>0. TypeOK /\ RequestsCounted /\ CounterZero /\ WorkerRequest /\ MainState
  BY DEF CountInv
<1>1. pending_requests = 0 /\ queue = <<>>
  BY <1>0, ZeroMeansIdle DEF CounterZero, PastWait, Cancel
<1>2. shutdown' \in BOOLEAN
  BY Zenon DEF Cancel
<1>3. TypeOK'
  BY <1>0, <1>1, <1>2 DEF TypeOK, Cancel, NotifyAllWorkers, MainStates
<1>4. RequestsCounted'
  BY <1>0, <1>1, SameBusy DEF RequestsCounted, Cancel, LockHeld
<1>5. CounterZero'
  BY <1>1 DEF CounterZero, Cancel
<1>6. WorkerRequest'
  BY <1>0 DEF WorkerRequest, Cancel
<1>7. MainState'
  BY <1>0 DEF MainState, Cancel
<1> QED BY <1>3, <1>4, <1>5, <1>6, <1>7 DEF CountInv

\* WaitAndPop() moves a request from the queue to the worker, or releases the
\* worker without one once the queue was shut down.
LEMMA CountInvPop ==
    ASSUME CountInv, NEW w \in workerThreads, WaitAndPop(w)
    PROVE  CountInv'
<1> USE DEF queueVars, poolVars, lockVars, workerVars, mainVars
<1>0. TypeOK /\ RequestsCounted /\ CounterZero /\ WorkerRequest /\ MainState
  BY DEF CountInv
<1>w. w \in Workers /\ wpc[w] = "pop" /\ request[w] = NoRequest
  BY <1>0 DEF TypeOK, WaitAndPop, WorkerRequest
<1>m. MainState' /\ CounterZero'
  BY <1>0 DEF MainState, CounterZero, WaitAndPop, activated, PastWait
<1>1. CASE queue = <<>> /\ ~shutdown
  <2>1. UNCHANGED <<queue, wpc, request>> /\ sleeping' = sleeping \cup {w}
    BY <1>1 DEF WaitAndPop
  <2>2. TypeOK'
    BY <1>0, <2>1 DEF TypeOK, WaitAndPop
  <2>3. RequestsCounted' /\ WorkerRequest'
    BY <1>0, <2>1, SameBusy DEF RequestsCounted, WorkerRequest, WaitAndPop, LockHeld
  <2> QED BY <1>m, <2>2, <2>3 DEF CountInv
<1>2. CASE shutdown
  <2>1. UNCHANGED <<queue, sleeping, request>> /\ wpc' = [wpc EXCEPT ![w] = "popped"]
    BY <1>2 DEF WaitAndPop
  <2>2. TypeOK'
    BY <1>0, <2>1 DEF TypeOK, WaitAndPop, WorkerStates
  <2>3. Busy' = Busy
    BY <1>0, <1>w, <2>1 DEF Busy, InFlight, TypeOK
  <2>4. RequestsCounted'
    BY <1>0, <2>1, <2>3 DEF RequestsCounted, WaitAndPop, LockHeld
  <2>5. WorkerRequest'
    BY <1>0, <1>2, <1>w, <2>1 DEF WorkerRequest, MainState, WaitAndPop, TypeOK
  <2> QED BY <1>m, <2>2, <2>4, <2>5 DEF CountInv
<1>3. CASE queue # <<>> /\ ~shutdown
  <2>1. /\ request' = [request EXCEPT ![w] = Head(queue)]
        /\ queue' = Tail(queue)
        /\ wpc' = [wpc EXCEPT ![w] = "popped"]
        /\ UNCHANGED sleeping
    BY <1>3 DEF WaitAndPop, PopFront
  <2>2. Head(queue) \in Maps /\ Tail(queue) \in Seq(Maps) /\ Len(Tail(queue)) = Len(queue) - 1
    BY <1>0, <1>3, HeadTailProperties DEF TypeOK
  <2>3. TypeOK'
    BY <1>0, <2>1, <2>2 DEF TypeOK, WaitAndPop, WorkerStates
  <2>4. w \notin Busy /\ Busy' = Busy \cup {w}
    <3>1. InFlight(w)' /\ ~InFlight(w)
      BY <1>0, <1>w, <2>1, <2>2, MapUpdaterAssumption DEF InFlight, TypeOK
    <3>2. \A v \in Workers \ {w} : InFlight(v)' <=> InFlight(v)
      BY <1>0, <2>1 DEF InFlight, TypeOK
    <3> QED BY <1>w, <3>1, <3>2 DEF Busy
  <2>5. Cardinality(Busy') = Cardinality(Busy) + 1
    BY <1>w, <2>4, BusyAdd
  <2>6. Len(queue) \in Nat /\ Cardinality(Busy) \in Nat
    BY <1>0, BusyFinite, LenProperties DEF TypeOK
  <2>7. RequestsCounted'
    <3>1. UNCHANGED <<pc, pending_requests>>
      BY DEF WaitAndPop
    <3>2. Len(queue') = Len(queue) - 1
      BY <2>1, <2>2
    <3> QED BY <1>0, <2>5, <2>6, <3>1, <3>2 DEF RequestsCounted, LockHeld
  <2>8. WorkerRequest'
    BY <1>0, <1>w, <2>1, <2>2, MapUpdaterAssumption DEF WorkerRequest, WaitAndPop, TypeOK
  <2> QED BY <1>m, <2>3, <2>7, <2>8 DEF CountInv
<1> QED BY <1>1, <1>2, <1>3

\* Between WaitAndPop() and update_finished() the worker keeps its request; it
\* exits only when the token is up, and then it has none.
LEMMA CountInvWork ==
    ASSUME CountInv, NEW w \in workerThreads,
           CheckToken(w) \/ BeginMapUpdate(w) \/ EndMapUpdate(w)
    PROVE  CountInv'
<1> USE DEF queueVars, poolVars, lockVars, workerVars, mainVars
<1>0. TypeOK /\ RequestsCounted /\ CounterZero /\ WorkerRequest /\ MainState
  BY DEF CountInv
<1>1. PICK next \in WorkerStates : wpc' = [wpc EXCEPT ![w] = next]
  BY DEF CheckToken, BeginMapUpdate, EndMapUpdate, WorkerStates
<1>2. UNCHANGED <<i_maps, toVisit, ticks, pc, scheduled, queue, shutdown, sleeping,
                  workerThreads, cancelationToken, scheduling, pending_requests, request>>
  BY DEF CheckToken, BeginMapUpdate, EndMapUpdate
<1>w. w \in Workers
  BY <1>0 DEF TypeOK
<1>3. cancelationToken => ~InFlight(w)
  BY <1>0, <1>w, ZeroMeansIdle DEF CounterZero, Busy
<1>4. updates' \in [Maps -> Nat]
  <2>1. CASE EndMapUpdate(w)
    <3>1. request[w] \in Maps /\ updates \in [Maps -> Nat]
      BY <1>0, <1>w, <2>1 DEF TypeOK, EndMapUpdate, WorkerRequest
    <3>2. updates' = [updates EXCEPT ![request[w]] = updates[request[w]] + 1]
      BY <2>1 DEF EndMapUpdate
    <3> QED BY <3>1, <3>2
  <2>2. CASE CheckToken(w) \/ BeginMapUpdate(w)
    BY <1>0, <2>2 DEF TypeOK, CheckToken, BeginMapUpdate
  <2> QED BY <2>1, <2>2
<1>5. TypeOK'
  BY <1>0, <1>1, <1>2, <1>4 DEF TypeOK
<1>6. Busy' = Busy
  <2>1. InFlight(w)' <=> InFlight(w)
    BY <1>0, <1>2, <1>3, <1>w DEF InFlight, TypeOK, CheckToken, BeginMapUpdate, EndMapUpdate
  <2>2. \A v \in Workers \ {w} : InFlight(v)' <=> InFlight(v)
    BY <1>0, <1>1, <1>2 DEF InFlight, TypeOK
  <2> QED BY <2>1, <2>2 DEF Busy
<1>7. RequestsCounted' /\ CounterZero' /\ MainState'
  BY <1>0, <1>2, <1>6 DEF RequestsCounted, CounterZero, MainState, LockHeld, activated
<1>8. WorkerRequest'
  BY <1>0, <1>2, <1>3, <1>w DEF WorkerRequest, InFlight, TypeOK, CheckToken, BeginMapUpdate,
     EndMapUpdate
<1> QED BY <1>5, <1>7, <1>8 DEF CountInv

\* update_finished() gives the request back.
LEMMA CountInvFinish ==
    ASSUME CountInv, NEW w \in workerThreads, UpdateFinished(w)
    PROVE  CountInv'
<1> USE DEF queueVars, poolVars, lockVars, workerVars, mainVars
<1>0. TypeOK /\ RequestsCounted /\ CounterZero /\ WorkerRequest /\ MainState
  BY DEF CountInv
<1>w. w \in Workers /\ w \in Busy
  BY <1>0 DEF TypeOK, Busy, InFlight, UpdateFinished, WorkerRequest
<1>1. pc \notin PastWait /\ ~cancelationToken /\ activated
  BY <1>0, <1>w, ZeroMeansIdle DEF CounterZero
<1>2. Busy' = Busy \ {w}
  BY <1>0, <1>w DEF Busy, InFlight, UpdateFinished, TypeOK
<1>3. Len(queue) \in Nat /\ Cardinality(Busy) \in Nat
  BY <1>0, BusyFinite, LenProperties DEF TypeOK
<1>4. Cardinality(Busy') = Cardinality(Busy) - 1 /\ Cardinality(Busy) > 0
  BY <1>w, <1>2, BusyRemove
<1>5. pending_requests - 1 \in Nat
  BY <1>0, <1>3, <1>4 DEF RequestsCounted, TypeOK, UpdateFinished, LockHeld
<1>6. TypeOK'
  BY <1>0, <1>w, <1>5 DEF TypeOK, UpdateFinished, NotifyWorldThread, MainStates, WorkerStates
<1>7. RequestsCounted'
  BY <1>0, <1>3, <1>4 DEF RequestsCounted, UpdateFinished, NotifyWorldThread, LockHeld, TypeOK
<1>8. CounterZero'
  BY <1>1 DEF CounterZero, UpdateFinished, NotifyWorldThread, activated, PastWait
<1>9. WorkerRequest'
  BY <1>0, <1>w DEF WorkerRequest, UpdateFinished, TypeOK
<1>10. MainState'
  BY <1>0, <1>1 DEF MainState, UpdateFinished, NotifyWorldThread
<1> QED BY <1>6, <1>7, <1>8, <1>9, <1>10 DEF CountInv

\* Every step of the code keeps the count of pending requests right.
LEMMA CountInvNext == CountInv /\ [Next]_vars => CountInv'
<1> SUFFICES ASSUME CountInv, [Next]_vars PROVE CountInv'
  OBVIOUS
<1>1. CASE UNCHANGED vars
  BY <1>1, SameBusy DEF vars, CountInv, TypeOK, RequestsCounted, CounterZero, WorkerRequest,
     MainState, LockHeld, activated
<1>2. ASSUME NEW w \in workerThreads, WorkerStep(w) PROVE CountInv'
  BY <1>2, CountInvPop, CountInvWork, CountInvFinish DEF WorkerStep
<1>3. CASE MainStep
  BY <1>3, CountInvQuietSteps, CountInvSchedule, CountInvPush, CountInvCancel DEF MainStep
<1> QED BY <1>1, <1>2, <1>3, CountInvQuietSteps DEF Next, Done

\* The type invariant of MapUpdater: in particular pending_requests, which is
\* decremented without a test, never goes below zero.
THEOREM TypeCorrect == Spec => []TypeOK
<1>1. CountInv => TypeOK
  BY DEF CountInv
<1> QED BY <1>1, CountInvInit, CountInvNext, PTL DEF Spec

\* MapUpdater::wait() is a barrier for any number of maps and workers.
THEOREM WaitIsBarrier == Spec => []Barrier
<1>1. CountInv => Barrier
  BY ZeroMeansIdle DEF CountInv, CounterZero, Barrier, PastWait, Busy
<1> QED BY <1>1, CountInvInit, CountInvNext, PTL DEF Spec

\* WorkerThread never calls a null request.
THEOREM NoNullCall == Spec => []NoNullRequestCalled
<1>1. CountInv => NoNullRequestCalled
  BY DEF CountInv, WorkerRequest, NoNullRequestCalled
<1> QED BY <1>1, CountInvInit, CountInvNext, PTL DEF Spec

-----------------------------------------------------------------------------
(* Who holds which map.                                                     *)

\* What the queue holds after Push().
LEMMA QueueAppend ==
    ASSUME NEW q \in Seq(Maps), NEW m \in Maps
    PROVE  /\ DOMAIN Append(q, m) = DOMAIN q \cup {Len(q) + 1}
           /\ Len(q) + 1 \notin DOMAIN q
           /\ \A i \in DOMAIN q : Append(q, m)[i] = q[i]
           /\ Append(q, m)[Len(q) + 1] = m
BY AppendProperties, LenProperties

\* What the queue holds after WaitAndPop() took its first request.
LEMMA QueueTail ==
    ASSUME NEW q \in Seq(Maps), q # <<>>
    PROVE  /\ 1 \in DOMAIN q /\ Head(q) = q[1]
           /\ \A i \in DOMAIN Tail(q) : /\ i + 1 \in DOMAIN q /\ i + 1 # 1
                                        /\ Tail(q)[i] = q[i + 1]
                                        /\ i \in Int
           /\ \A i \in DOMAIN q : i # 1 => i - 1 \in DOMAIN Tail(q) /\ Tail(q)[i - 1] = q[i]
BY HeadTailProperties, LenProperties, EmptySeq

\* Past the barrier nobody holds a map.
LEMMA NobodyHolds ==
    ASSUME CountInv, pending_requests = 0
    PROVE  /\ queue = <<>> /\ DOMAIN queue = {} /\ scheduling = NoRequest
           /\ \A w \in Workers : ~InFlight(w)
           /\ \A m \in Maps : ~Outstanding(m)
<1>1. queue = <<>> /\ scheduling = NoRequest /\ \A w \in Workers : ~InFlight(w)
  BY ZeroMeansIdle DEF Busy, LockHeld, CountInv, MainState
<1>2. DOMAIN queue = {}
  BY <1>1
<1> QED BY <1>1, <1>2, MapUpdaterAssumption DEF Outstanding, InFlight

\* The world thread hands a map out once: it takes it off toVisit when it does.
LEMMA ExclusiveMain ==
    ASSUME CountInv, Exclusive, MainStep \/ BeginUpdate \/ UnloadAll \/ SpuriousWakeup
                                \/ \E m \in Maps : CreateMap(m)
    PROVE  Exclusive'
<1> USE DEF queueVars, poolVars, lockVars, workerVars, mainVars, Exclusive, MapOwnership, InFlight
<1>0. TypeOK /\ MainState /\ CounterZero
  BY DEF CountInv
<1>1. ASSUME NEW m \in Maps, CreateMap(m) PROVE Exclusive'
  BY <1>0, <1>1 DEF CreateMap, TypeOK
<1>2. ASSUME NEW m \in Maps, UnloadMap(m) PROVE Exclusive'
  BY <1>0, <1>2 DEF UnloadMap
<1>3. ASSUME NEW m \in Maps, UpdateInline(m) PROVE Exclusive'
  BY <1>0, <1>3 DEF UpdateInline
<1>4. ASSUME NEW m \in Maps, ScheduleUpdate(m) PROVE Exclusive'
  BY <1>0, <1>4 DEF ScheduleUpdate, TypeOK
<1>5. CASE BeginUpdate \/ UnloadAll
  <2>1. queue' = queue /\ wpc' = wpc /\ request' = request /\ scheduling' = scheduling
    BY <1>5 DEF BeginUpdate, UnloadAll
  <2>2. pending_requests = 0
    BY <1>0, <1>5 DEF BeginUpdate, UnloadAll, CounterZero, PastWait
  <2> QED BY <2>1, <2>2, NobodyHolds
<1>6. CASE Push
  <2>1. scheduling \in Maps /\ queue \in Seq(Maps) /\ scheduling # NoRequest
    BY <1>0, <1>6 DEF Push, MainState, TypeOK
  <2>2. /\ queue' = Append(queue, scheduling) /\ scheduling' = NoRequest
        /\ UNCHANGED <<i_maps, toVisit, wpc, request>>
    BY <1>6 DEF Push
  <2>3. /\ DOMAIN queue' = DOMAIN queue \cup {Len(queue) + 1}
        /\ Len(queue) + 1 \notin DOMAIN queue
        /\ \A i \in DOMAIN queue : queue'[i] = queue[i]
        /\ queue'[Len(queue) + 1] = scheduling
    BY <2>1, <2>2, QueueAppend
  <2> QED BY <2>1, <2>2, <2>3
<1>7. CASE EndLoop \/ Wait \/ DelayedUpdate \/ Join \/ SpuriousWakeup
  BY <1>7 DEF EndLoop, Wait, DelayedUpdate, Join, SpuriousWakeup
<1>8. CASE Cancel
  BY <1>0, <1>8, NobodyHolds DEF Cancel, CounterZero, PastWait
<1> QED BY <1>1, <1>2, <1>3, <1>4, <1>5, <1>6, <1>7, <1>8 DEF MainStep

\* A worker takes a map off the queue when it takes it into its hands.
LEMMA ExclusiveWorker ==
    ASSUME CountInv, Exclusive, NEW w \in workerThreads, WorkerStep(w)
    PROVE  Exclusive'
<1> USE DEF queueVars, poolVars, lockVars, workerVars, mainVars
<1>0. TypeOK /\ MainState /\ CounterZero /\ WorkerRequest /\ w \in Workers
  BY DEF CountInv, TypeOK
<1>1. CASE WaitAndPop(w) /\ queue # <<>> /\ ~shutdown
  <2>1. /\ queue \in Seq(Maps)
        /\ wpc[w] = "pop"
        /\ request' = [request EXCEPT ![w] = queue[1]]
        /\ queue' = Tail(queue)
        /\ wpc' = [wpc EXCEPT ![w] = "popped"]
        /\ UNCHANGED <<i_maps, toVisit, scheduling>>
    BY <1>0, <1>1, QueueTail DEF WaitAndPop, PopFront, TypeOK
  <2>2. /\ 1 \in DOMAIN queue
        /\ \A i \in DOMAIN queue' : /\ i + 1 \in DOMAIN queue /\ i + 1 # 1
                                    /\ queue'[i] = queue[i + 1] /\ i \in Int
    BY <1>1, <2>1, QueueTail
  <2>3. ~InFlight(w) /\ request'[w] = queue[1]
    BY <1>0, <2>1 DEF InFlight, TypeOK
  <2>4. \A v \in Workers \ {w} : request'[v] = request[v] /\ (InFlight(v)' <=> InFlight(v))
    BY <1>0, <2>1 DEF InFlight, TypeOK
  <2>5. \A i, j \in DOMAIN queue' : queue'[i] = queue'[j] => i = j
    BY <2>2 DEF Exclusive, MapOwnership
  <2>6. \A i \in DOMAIN queue' :
           /\ queue'[i] \in i_maps \ toVisit
           /\ queue'[i] # queue[1]
           /\ \A v \in Workers : InFlight(v) => queue'[i] # request[v]
           /\ scheduling # NoRequest => queue'[i] # scheduling
    BY <2>2 DEF Exclusive, MapOwnership
  <2>7. /\ queue[1] \in i_maps \ toVisit
        /\ scheduling # NoRequest => queue[1] # scheduling
        /\ \A v \in Workers : InFlight(v) => request[v] # queue[1]
    BY <2>2 DEF Exclusive, MapOwnership
  <2>8. \A v \in Workers : InFlight(v)' =>
           /\ request'[v] \in i_maps \ toVisit
           /\ scheduling # NoRequest => request'[v] # scheduling
           /\ \A u \in Workers : InFlight(u)' /\ request'[u] = request'[v] => u = v
           /\ \A i \in DOMAIN queue' : queue'[i] # request'[v]
    BY <2>3, <2>4, <2>6, <2>7 DEF Exclusive, MapOwnership
  <2> QED BY <2>1, <2>5, <2>6, <2>8 DEF Exclusive, MapOwnership
<1>2. CASE ~(WaitAndPop(w) /\ queue # <<>> /\ ~shutdown)
  <2>1. /\ UNCHANGED <<queue, i_maps, toVisit, scheduling>>
        /\ \A v \in Workers : InFlight(v)' => InFlight(v) /\ request'[v] = request[v]
    <3>1. CASE WaitAndPop(w)
      BY <1>0, <1>2, <3>1 DEF WaitAndPop, InFlight, TypeOK, WorkerRequest
    <3>2. CASE CheckToken(w) \/ BeginMapUpdate(w) \/ EndMapUpdate(w)
      BY <1>0, <3>2 DEF CheckToken, BeginMapUpdate, EndMapUpdate, InFlight, TypeOK
    <3>3. CASE UpdateFinished(w)
      BY <1>0, <3>3 DEF UpdateFinished, InFlight, TypeOK
    <3> QED BY <3>1, <3>2, <3>3 DEF WorkerStep
  <2> QED BY <2>1 DEF Exclusive, MapOwnership
<1> QED BY <1>1, <1>2

\* Every step of the code keeps the maps in one pair of hands.
LEMMA ExclusiveNext == CountInv /\ Exclusive /\ [Next]_vars => Exclusive'
<1>1. ASSUME CountInv, Exclusive, UNCHANGED vars PROVE Exclusive'
  BY <1>1 DEF vars, Exclusive, MapOwnership, InFlight
<1> QED BY <1>1, ExclusiveMain, ExclusiveWorker DEF Next, Done

\* A map is never in two hands, and never deleted or unloaded while a request
\* refers to it.
THEOREM MapsOwnedOnce == Spec => []MapOwnership
<1>1. Init => Exclusive
  BY DEF Init, Exclusive, MapOwnership, InFlight
<1>2. Exclusive => MapOwnership
  BY DEF Exclusive
<1> QED BY <1>1, <1>2, CountInvInit, CountInvNext, ExclusiveNext, PTL DEF Spec

-----------------------------------------------------------------------------
(* How often a map is updated.                                              *)

\* Steps after which the same maps are outstanding and counted.
LEMMA SameCount ==
    ASSUME UpdatesCounted, UNCHANGED <<scheduled, updates>>,
           \A m \in Maps : Outstanding(m)' <=> Outstanding(m),
           pc' \in {"loop", "push"} => pc \in {"loop", "push"} /\ toVisit' \subseteq toVisit
    PROVE  UpdatesCounted'
BY DEF UpdatesCounted

\* The world thread: a map handed out is outstanding, or updated in place.
LEMMA UpdatesMain ==
    ASSUME CountInv, Exclusive, UpdatesCounted,
           MainStep \/ BeginUpdate \/ UnloadAll \/ SpuriousWakeup
           \/ \E m \in Maps : CreateMap(m)
    PROVE  UpdatesCounted'
<1> USE DEF queueVars, poolVars, lockVars, workerVars, mainVars
<1>0. TypeOK /\ MainState /\ CounterZero
  BY DEF CountInv
<1>1. CASE \/ \E m \in Maps : CreateMap(m) \/ UnloadMap(m)
           \/ EndLoop \/ Wait \/ DelayedUpdate \/ UnloadAll \/ Join \/ SpuriousWakeup
  <2>1. UNCHANGED <<scheduling, queue, wpc, request, scheduled, updates>>
    BY <1>1 DEF CreateMap, UnloadMap, EndLoop, Wait, DelayedUpdate, UnloadAll, Join,
       SpuriousWakeup
  <2>2. pc' \in {"loop", "push"} => pc \in {"loop", "push"} /\ toVisit' \subseteq toVisit
    BY <1>1 DEF CreateMap, UnloadMap, EndLoop, Wait, DelayedUpdate, UnloadAll, Join,
       SpuriousWakeup
  <2>3. \A m \in Maps : Outstanding(m)' <=> Outstanding(m)
    BY <2>1 DEF Outstanding
  <2> QED BY <2>1, <2>2, <2>3, SameCount
<1>2. CASE BeginUpdate
  <2>1. pending_requests = 0
    BY <1>0, <1>2 DEF BeginUpdate, CounterZero, PastWait
  <2>2. \A m \in Maps : ~Outstanding(m)'
    <3>1. UNCHANGED <<scheduling, queue, wpc, request>>
      BY <1>2 DEF BeginUpdate
    <3>2. \A m \in Maps : Outstanding(m)' <=> Outstanding(m)
      BY <3>1 DEF Outstanding
    <3> QED BY <2>1, <3>2, NobodyHolds
  <2> QED BY <1>2, <2>2 DEF BeginUpdate, UpdatesCounted
<1>3. ASSUME NEW m \in Maps, UpdateInline(m) PROVE UpdatesCounted'
  <2>1. pending_requests = 0 /\ m \notin scheduled
    BY <1>0, <1>3 DEF UpdateInline, CounterZero, UpdatesCounted
  <2>2. \A n \in Maps : ~Outstanding(n)
    BY <2>1, NobodyHolds
  <2>3. \A n \in Maps : Outstanding(n)' <=> Outstanding(n)
    BY <1>3 DEF UpdateInline, Outstanding
  <2>4. updates[m] = 0 /\ updates \in [Maps -> Nat]
    BY <1>0, <2>1 DEF UpdatesCounted, TypeOK
  <2>5. updates' = [updates EXCEPT ![m] = 1]
    BY <1>3, <2>4 DEF UpdateInline
  <2>6. \A n \in Maps : updates'[n] = IF n \in scheduled' /\ ~Outstanding(n)' THEN 1 ELSE 0
    BY <1>3, <2>2, <2>3, <2>4, <2>5 DEF UpdatesCounted, UpdateInline
  <2>7. pc \in {"loop", "push"} /\ scheduled' \cap toVisit' = {}
    BY <1>3 DEF UpdatesCounted, UpdateInline
  <2> QED BY <2>2, <2>3, <2>6, <2>7 DEF UpdatesCounted
<1>4. ASSUME NEW m \in Maps, ScheduleUpdate(m) PROVE UpdatesCounted'
  <2>1. /\ scheduling = NoRequest /\ scheduling' = m
        /\ scheduled' = scheduled \cup {m} /\ m \in toVisit /\ toVisit' = toVisit \ {m}
        /\ UNCHANGED <<queue, wpc, request, updates>>
        /\ pc = "loop"
    BY <1>0, <1>4 DEF ScheduleUpdate, MainState
  <2>2. m \notin scheduled
    BY <2>1 DEF UpdatesCounted
  <2>3. \A n \in Maps : Outstanding(n)' <=> (Outstanding(n) \/ n = m)
    BY <2>1, MapUpdaterAssumption DEF Outstanding
  <2> QED BY <2>1, <2>2, <2>3 DEF UpdatesCounted
<1>5. CASE Push
  <2>1. scheduling \in Maps /\ queue \in Seq(Maps)
    BY <1>0, <1>5 DEF Push, MainState, TypeOK
  <2>2. /\ queue' = Append(queue, scheduling) /\ scheduling' = NoRequest
        /\ UNCHANGED <<wpc, request, updates, scheduled, toVisit>>
        /\ pc = "push"
    BY <1>5 DEF Push
  <2>3. /\ DOMAIN queue' = DOMAIN queue \cup {Len(queue) + 1}
        /\ \A i \in DOMAIN queue : queue'[i] = queue[i]
        /\ queue'[Len(queue) + 1] = scheduling
    BY <2>1, <2>2, QueueAppend
  <2>4. \A m \in Maps : Outstanding(m)' <=> Outstanding(m)
    BY <2>2, <2>3, MapUpdaterAssumption DEF Outstanding
  <2> QED BY <2>2, <2>4, SameCount
<1>6. CASE Cancel
  <2>1. \A m \in Maps : Outstanding(m)' <=> Outstanding(m)
    BY <1>0, <1>6, NobodyHolds DEF Cancel, CounterZero, PastWait, Outstanding
  <2> QED BY <1>6, <2>1, SameCount DEF Cancel
<1> QED BY <1>1, <1>2, <1>3, <1>4, <1>5, <1>6 DEF MainStep

\* A worker turns an outstanding map into an updated one, once.
LEMMA UpdatesWorker ==
    ASSUME CountInv, Exclusive, UpdatesCounted, NEW w \in workerThreads, WorkerStep(w)
    PROVE  UpdatesCounted'
<1> USE DEF queueVars, poolVars, lockVars, workerVars, mainVars
<1>0. TypeOK /\ MainState /\ CounterZero /\ WorkerRequest /\ w \in Workers
  BY DEF CountInv, TypeOK
<1>1. CASE WaitAndPop(w) /\ queue # <<>> /\ ~shutdown
  <2>1. /\ queue \in Seq(Maps)
        /\ wpc[w] = "pop"
        /\ request' = [request EXCEPT ![w] = queue[1]]
        /\ queue' = Tail(queue)
        /\ wpc' = [wpc EXCEPT ![w] = "popped"]
        /\ UNCHANGED <<pc, toVisit, scheduling, scheduled, updates>>
    BY <1>0, <1>1, QueueTail DEF WaitAndPop, PopFront, TypeOK
  <2>2. /\ 1 \in DOMAIN queue
        /\ \A i \in DOMAIN queue' : i + 1 \in DOMAIN queue /\ queue'[i] = queue[i + 1]
        /\ \A i \in DOMAIN queue : i # 1 => i - 1 \in DOMAIN queue' /\ queue'[i - 1] = queue[i]
    BY <1>1, <2>1, QueueTail
  <2>3. \A m \in Maps : (\E i \in DOMAIN queue : queue[i] = m)
           <=> (queue[1] = m \/ \E i \in DOMAIN queue' : queue'[i] = m)
    BY <2>2
  <2>4. \A m \in Maps : Outstanding(m)' <=> Outstanding(m)
    BY <1>0, <2>1, <2>3 DEF Outstanding, TypeOK
  <2> QED BY <2>1, <2>4, SameCount
<1>2. CASE WaitAndPop(w) /\ ~(queue # <<>> /\ ~shutdown)
  <2>1. \A m \in Maps : Outstanding(m)' <=> Outstanding(m)
    BY <1>0, <1>2, MapUpdaterAssumption DEF WaitAndPop, Outstanding, WorkerRequest, TypeOK
  <2> QED BY <1>2, <2>1, SameCount DEF WaitAndPop
<1>3. CASE CheckToken(w) \/ BeginMapUpdate(w)
  <2>1. cancelationToken => ~InFlight(w)
    BY <1>0, NobodyHolds DEF CounterZero
  <2>2. \A m \in Maps : Outstanding(m)' <=> Outstanding(m)
    BY <1>0, <1>3, <2>1, MapUpdaterAssumption DEF CheckToken, BeginMapUpdate, Outstanding,
       InFlight, TypeOK
  <2> QED BY <1>3, <2>2, SameCount DEF CheckToken, BeginMapUpdate
<1>4. CASE EndMapUpdate(w)
  <2>0. PICK m \in Maps : m = request[w]
    BY <1>0, <1>4 DEF TypeOK, WorkerRequest, EndMapUpdate
  <2>1. /\ wpc[w] = "updating" /\ wpc' = [wpc EXCEPT ![w] = "finish"]
        /\ updates' = [updates EXCEPT ![m] = updates[m] + 1]
        /\ UNCHANGED <<pc, toVisit, scheduled, scheduling, queue, request>>
    BY <1>4, <2>0 DEF EndMapUpdate
  <2>2. InFlight(w)
    BY <1>0, <2>1 DEF WorkerRequest, InFlight
  <2>3. Outstanding(m)
    BY <1>0, <2>0, <2>1 DEF Outstanding
  <2>4. ~Outstanding(m)'
    BY <1>0, <2>0, <2>1, <2>2, MapUpdaterAssumption
       DEF Outstanding, Exclusive, MapOwnership, InFlight, TypeOK
  <2>5. \A n \in Maps \ {m} : Outstanding(n)' <=> Outstanding(n)
    BY <1>0, <2>0, <2>1 DEF Outstanding, TypeOK
  <2>6. m \in scheduled /\ updates[m] = 0 /\ updates \in [Maps -> Nat]
    BY <1>0, <2>3 DEF UpdatesCounted, TypeOK
  <2>7. \A n \in Maps : updates'[n] = IF n = m THEN 1 ELSE updates[n]
    BY <2>1, <2>6
  <2> QED BY <2>1, <2>4, <2>5, <2>6, <2>7 DEF UpdatesCounted
<1>5. CASE UpdateFinished(w)
  <2>1. \A m \in Maps : Outstanding(m)' <=> Outstanding(m)
    BY <1>0, <1>5, MapUpdaterAssumption DEF UpdateFinished, Outstanding, TypeOK
  <2> QED BY <1>5, <2>1, SameCount DEF UpdateFinished, NotifyWorldThread
<1> QED BY <1>1, <1>2, <1>3, <1>4, <1>5 DEF WorkerStep

\* The whole inductive invariant is kept by every step of the code.
LEMMA IndInvNext == IndInv /\ [Next]_vars => IndInv'
<1>1. ASSUME IndInv, UNCHANGED vars PROVE UpdatesCounted'
  BY <1>1, SameCount DEF vars, IndInv, Outstanding
<1> QED BY <1>1, CountInvNext, ExclusiveNext, UpdatesMain, UpdatesWorker DEF Next, Done, IndInv

\* When MapUpdater::wait() returns every map handed out in the tick has been
\* updated, and none twice.
THEOREM EachMapUpdatedOnce == Spec => []UpdatedOncePerTick
<1>1. Init => IndInv
  <2>1. Init => Exclusive
    BY DEF Init, Exclusive, MapOwnership, InFlight
  <2>2. Init => UpdatesCounted
    BY MapUpdaterAssumption DEF Init, UpdatesCounted, Outstanding
  <2> QED BY <2>1, <2>2, CountInvInit DEF IndInv
<1>2. IndInv => UpdatedOncePerTick
  <2> SUFFICES ASSUME IndInv, pc = "delayed", NEW m \in Maps
               PROVE  updates[m] = IF m \in scheduled THEN 1 ELSE 0
    BY DEF UpdatedOncePerTick
  <2>1. ~Outstanding(m)
    BY NobodyHolds DEF IndInv, CountInv, CounterZero, PastWait
  <2> QED BY <2>1 DEF IndInv, UpdatesCounted
<1> QED BY <1>1, <1>2, IndInvNext, PTL DEF Spec
=============================================================================
