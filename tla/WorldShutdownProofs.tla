------------------------ MODULE WorldShutdownProofs -------------------------
(***************************************************************************)
(* The shutdown of the world, for any sessions, delays, threshold and       *)
(* number of commands: it stops on time, an idle stop interrupts nobody,    *)
(* and every character is saved before the maps are unloaded.               *)
(***************************************************************************)
EXTENDS WorldShutdown, WorldSessionsProofs

LoopTypeOK ==
    /\ pc \in {"time", "add", "turns", "cli", "kick", "ended"}
    /\ turn \subseteq Sessions /\ current \in turn \cup {NoSession}
    /\ pc # "turns" => turn = {}
    /\ requested \subseteq Sessions
    /\ last \in BOOLEAN

TimerTypeOK ==
    /\ timer \in Nat /\ mode \in Modes /\ stopped \in {"no", "timer", "now"}
    /\ commands \in Nat /\ due \in Nat \cup {NoTime}

\* Until the world stops, the timer runs exactly while a stop is due, and never
\* runs out before the stop is due.
TimerSound ==
    /\ IsStopped => due = 0
    /\ ~IsStopped /\ timer = 0 => due = NoTime
    /\ ~IsStopped /\ timer > 0 => due \in Nat /\ due <= timer

\* The session's next turn removes it, whatever its character does.
Gone(session) == session.forceExit /\ ~session.socketOpen

\* After the decision of an idle stop the world is empty: characters are at most
\* asked for, in the pass that runs.
IdleSound ==
    stopped = "timer" /\ mode = "idle" /\ ~last =>
        /\ pc # "time"
        /\ \A s \in Sessions :
              \/ ws[s].player = "none"
              \/ ws[s].player = "loading" /\ s \in requested

\* After KickAll every character, in the world or being loaded, belongs to a
\* session that is removed in the last pass; who comes in this pass can ask for
\* a character and does not get it any more.
LastPassSound ==
    /\ pc = "ended" => last
    /\ last => pc \in {"add", "turns", "ended"}
    /\ last /\ pc = "add" =>
          \A s \in Sessions : ws[s].player # "none" => Gone(ws[s])
    /\ last /\ pc = "turns" => \A s \in Sessions :
          \/ ws[s].player = "none"
          \/ s \in turn /\ Gone(ws[s])
          \/ ws[s].player = "loading" /\ s \in requested
    /\ pc = "ended" => \A s \in Sessions : ws[s].player # "world"

ShutdownInv ==
    /\ IndInv
    /\ LoopTypeOK /\ TimerTypeOK
    /\ TimerSound
    /\ IdleSound
    /\ LastPassSound

-----------------------------------------------------------------------------
(* What the steps of the sessions do to the characters.                     *)

\* Nobody enters the world or begins to load, and who is gone stays gone until
\* its character is logged out.
NobodyEnters == \A t \in Sessions :
    /\ ws'[t].player = ws[t].player \/ ws'[t].player = "none"
    /\ Gone(ws[t]) => ws'[t].player = "none" \/ Gone(ws'[t])

\* A step of one session that does not enter.
LEMMA OnlyQuiet ==
    ASSUME IndInv, NEW s \in Sessions, NEW f, ws' = [ws EXCEPT ![s] = f],
           f.player = ws[s].player \/ f.player = "none",
           Gone(ws[s]) => f.player = "none" \/ Gone(f)
    PROVE  NobodyEnters
<1>1. ws'[s] = f /\ \A t \in Sessions \ {s} : ws'[t] = ws[t]
  BY DEF IndInv, TypeOK
<1> QED BY <1>1 DEF NobodyEnters

\* The network threads' steps, and the steps of a session's turn other than
\* the login.
LEMMA SelfQuiet ==
    ASSUME IndInv, NEW s \in Sessions,
           \/ AddSession(s) \/ LoseConnection(s) \/ AbortLogin(s)
           \/ LogoutPlayer(s) \/ InitializeSessionCallback(s) \/ KickPlayer(s)
           \/ LoadFromDBFailed(s) \/ Linger(s)
    PROVE  NobodyEnters
<1>0. ws[s] \in SessionType
  BY SessionFields DEF IndInv
<1>1. CASE AddSession(s)
  <2> DEFINE f == [ws[s] EXCEPT !.life = "live", !.socketOpen = TRUE]
  <2>1. ws' = [ws EXCEPT ![s] = f] /\ ws[s].life = "new"
    BY <1>1 DEF AddSession
  <2>2. ws[s].player = "none"
    BY <2>1 DEF IndInv, RegisterInv, NoDanglingSession, HandedOverOnce
  <2>3. f.player = "none"
    BY <1>0, <2>2 DEF SessionType
  <2> HIDE DEF f
  <2> QED BY <2>1, <2>3, OnlyQuiet
<1>2. CASE LoseConnection(s)
  <2> DEFINE f == [ws[s] EXCEPT !.socketOpen = FALSE]
  <2>1. ws' = [ws EXCEPT ![s] = f] /\ ws[s].socketOpen
    BY <1>2 DEF LoseConnection, Only
  <2>2. f.player = ws[s].player /\ ~Gone(ws[s])
    BY <1>0, <2>1 DEF SessionType, Gone
  <2> HIDE DEF f
  <2> QED BY <2>1, <2>2, OnlyQuiet
<1>3. CASE AbortLogin(s) \/ LogoutPlayer(s)
  <2> DEFINE f == [ws[s] EXCEPT !.player = "none"]
  <2>1. ws' = [ws EXCEPT ![s] = f]
    BY <1>3 DEF AbortLogin, LogoutPlayer, SetCharacter, Only
  <2>2. f.player = "none"
    BY <1>0 DEF SessionType
  <2> HIDE DEF f
  <2> QED BY <2>1, <2>2, OnlyQuiet
<1>4. CASE InitializeSessionCallback(s)
  <2> DEFINE f == [ws[s] EXCEPT !.initializing = FALSE, !.inQueue = FALSE, !.told = 0]
  <2>1. ws' = [ws EXCEPT ![s] = f]
    BY <1>4 DEF InitializeSessionCallback, Only
  <2>2. /\ f.player = ws[s].player /\ f.socketOpen = ws[s].socketOpen
        /\ f.forceExit = ws[s].forceExit
    BY <1>0 DEF SessionType
  <2> HIDE DEF f
  <2> QED BY <2>1, <2>2, OnlyQuiet DEF Gone
<1>5. CASE KickPlayer(s)
  <2> DEFINE f == Kicked(ws[s])
  <2>1. ws' = [ws EXCEPT ![s] = f]
    BY <1>5 DEF KickPlayer, Only
  <2>2. f.player = ws[s].player /\ Gone(f)
    BY <1>0 DEF SessionType, Gone, Kicked
  <2> HIDE DEF f
  <2> QED BY <2>1, <2>2, OnlyQuiet
<1>6. CASE LoadFromDBFailed(s)
  <2> DEFINE f == [Kicked(ws[s]) EXCEPT !.player = "none"]
  <2>1. ws' = [ws EXCEPT ![s] = f]
    BY <1>6 DEF LoadFromDBFailed, Only
  <2>2. f.player = "none"
    BY <1>0 DEF SessionType, Kicked
  <2> HIDE DEF f
  <2> QED BY <2>1, <2>2, OnlyQuiet
<1>7. CASE Linger(s)
  <2> DEFINE f == [ws[s] EXCEPT !.expireTime = Elapse(ws[s].expireTime)]
  <2>1. ws' = [ws EXCEPT ![s] = f]
    BY <1>7 DEF Linger, Only
  <2>2. /\ f.player = ws[s].player /\ f.socketOpen = ws[s].socketOpen
        /\ f.forceExit = ws[s].forceExit
    BY <1>0 DEF SessionType
  <2> HIDE DEF f
  <2> QED BY <2>1, <2>2, OnlyQuiet DEF Gone
<1> QED BY <1>1, <1>2, <1>3, <1>4, <1>5, <1>6, <1>7

\* A session taken out of the queue or told its position keeps its character
\* and its socket.
LEMMA RemovalQuiet ==
    ASSUME NEW r, RemovalResult(r), NEW session \in SessionType, NEW t \in Sessions
    PROVE  LET n == AfterRemoval(r, session, t) IN
           n \in SessionType /\ n.player = session.player /\ (Gone(session) => Gone(n))
BY AfterRemovalFacts DEF RemovalEffect, Gone

\* AddSession_ lets sessions in, not characters.
LEMMA AddQuiet ==
    ASSUME IndInv, AddSession_
    PROVE  NobodyEnters
<1> DEFINE s == Head(addSessQueue)
<1>0. /\ s \in Sessions /\ ws[s].player = "none" /\ ws[s] \in SessionType
      /\ ws \in [Sessions -> SessionType]
  <2>1. addSessQueue \in Seq(Sessions) /\ addSessQueue # <<>> /\ TypeOK
    BY DEF IndInv, TypeOK, AddSession_
  <2>2. s \in Sessions /\ s \in ToSet(addSessQueue)
    BY <2>1, TailFacts
  <2> QED BY <2>1, <2>2, SessionFields
          DEF IndInv, RegisterInv, NoDanglingSession, HandedOverOnce, TypeOK
<1>1. CASE RefuseSession(s)
  <2>1. ws' = [ws EXCEPT ![s] = DeletedSession] /\ DeletedSession.player = "none"
    BY <1>1, DeletedType DEF RefuseSession
  <2> QED BY <1>0, <2>1, OnlyQuiet
<1>2. CASE RegisterSession(s)
  <2> DEFINE r == RemoveOld(s)
             wait == MustWait(s, r)
             told == IF wait THEN Len(m_QueuedPlayer') ELSE 0
             f == [ws[s] EXCEPT !.inQueue = wait, !.initializing = ~wait, !.told = told]
  <2>1. ws' = [t \in Sessions |-> IF t \in Olds(s) THEN DeletedSession
                                 ELSE IF t = s THEN f ELSE AfterRemoval(r, ws[t], t)]
    BY <1>2 DEF RegisterSession, EnterOrWait, MustWait
  <2>2. f.player = "none"
    BY <1>0 DEF SessionType
  <2>3. RemovalResult(r)
    BY <1>0, ReplacedSound DEF RemovalSound
  <2> HIDE DEF f, r
  <2>4. \A t \in Sessions : /\ AfterRemoval(r, ws[t], t).player = ws[t].player
                            /\ Gone(ws[t]) => Gone(AfterRemoval(r, ws[t], t))
    BY <1>0, <2>3, RemovalQuiet
  <2>5. ASSUME NEW t \in Sessions
        PROVE  /\ ws'[t].player = ws[t].player \/ ws'[t].player = "none"
               /\ Gone(ws[t]) => ws'[t].player = "none" \/ Gone(ws'[t])
    <3>1. \/ ws'[t] = DeletedSession \/ (t = s /\ ws'[t] = f)
          \/ ws'[t] = AfterRemoval(r, ws[t], t)
      BY <2>1
    <3> QED BY <2>2, <2>4, <3>1, DeletedType
  <2> QED BY <2>5 DEF NobodyEnters
<1> QED BY <1>1, <1>2 DEF AddSession_

\* RemoveFromWorld logs the session's character out and leaves the others alone.
LEMMA RemoveQuiet ==
    ASSUME IndInv, NEW s \in Sessions, RemoveFromWorld(s)
    PROVE  NobodyEnters /\ ws'[s].player = "none"
<1>0. s \in Registered /\ ws \in [Sessions -> SessionType]
  BY DEF RemoveFromWorld, IndInv, TypeOK
<1>1. PICK r1, r2 :
         /\ r1 = RemoveQueuedPlayer(m_QueuedPlayer, s, Cardinality(Registered))
         /\ r2 = RemoveQueuedPlayer(r1.queue, s, Cardinality(Registered))
         /\ ws' = [t \in Sessions |->
                     IF t = s THEN DeletedSession
                     ELSE AfterRemoval(r2, AfterRemoval(r1, ws[t], t), t)]
  BY DEF RemoveFromWorld
<1>2. RemovalResult(r1) /\ RemovalResult(r2)
  BY <1>0, <1>1, RemoveTwice DEF RemovalSound
<1>3. ASSUME NEW t \in Sessions
      PROVE  LET n == AfterRemoval(r2, AfterRemoval(r1, ws[t], t), t) IN
             n.player = ws[t].player /\ (Gone(ws[t]) => Gone(n))
  <2> DEFINE m == AfterRemoval(r1, ws[t], t)
             n == AfterRemoval(r2, m, t)
  <2>1. m \in SessionType /\ m.player = ws[t].player /\ (Gone(ws[t]) => Gone(m))
    BY <1>0, <1>2, RemovalQuiet
  <2> HIDE DEF m
  <2>2. n.player = m.player /\ (Gone(m) => Gone(n))
    BY <1>2, <2>1, RemovalQuiet
  <2> HIDE DEF n
  <2>3. n.player = ws[t].player /\ (Gone(ws[t]) => Gone(n))
    BY <2>1, <2>2
  <2> QED BY <2>3 DEF m, n
<1>4. ws'[s].player = "none"
  BY <1>1, DeletedType
<1>5. \A t \in Sessions : ws'[t] = DeletedSession
                          \/ ws'[t] = AfterRemoval(r2, AfterRemoval(r1, ws[t], t), t)
  BY <1>1
<1> QED BY <1>3, <1>4, <1>5, DeletedType DEF NobodyEnters

\* After KickAll whoever has a character is gone at his next turn.
LEMMA KickQuiet ==
    ASSUME IndInv, KickAll
    PROVE  NobodyEnters /\ \A t \in Sessions : ws'[t].player # "none" => Gone(ws'[t])
<1>1. ws' = [t \in Sessions |-> IF t \in Registered THEN Kicked(ws[t]) ELSE ws[t]]
  BY DEF KickAll
<1>2. \A t \in Sessions : t \notin Registered => ws[t].player = "none"
  BY DEF IndInv, RegisterInv, HandedOverOnce
<1>3. ASSUME NEW t \in Sessions
      PROVE  Gone(Kicked(ws[t])) /\ Kicked(ws[t]).player = ws[t].player
  <2>1. ws[t] \in SessionType
    BY SessionFields DEF IndInv
  <2> QED BY <2>1 DEF SessionType, Gone, Kicked
<1>4. ASSUME NEW t \in Sessions
      PROVE  /\ ws'[t].player = ws[t].player
             /\ ws'[t].player # "none" => Gone(ws'[t])
             /\ Gone(ws[t]) => Gone(ws'[t])
  BY <1>1, <1>2, <1>3
<1> QED BY <1>4 DEF NobodyEnters

\* What every step of the loop does to the register: nothing, or a step of
\* WorldSessions, or the clock.  Nobody enters but by the two steps of the login,
\* which are steps of the session whose turn it is.
LoginStep ==
    /\ pc = "turns" /\ current \in turn
    /\ UNCHANGED <<pc, turn, current, last, timerVars>>
    /\ \/ BeginLogin(current) /\ requested' = requested \cup {current}
       \/ HandlePlayerLogin(current) /\ current \notin requested /\ UNCHANGED requested

\* Every step of the loop keeps the invariant of the register.
LEMMA SessionsNext ==
    ASSUME ShutdownInv, [ShutdownNext]_allVars
    PROVE  IndInv' /\ (NobodyEnters \/ LoginStep)
<1> USE DEF ShutdownInv
<1>0. /\ m_playerLimit \in Limits /\ now \in 0..MaxTime /\ limitRaised \in BOOLEAN
      /\ current # NoSession => current \in Sessions /\ current \in turn
  BY DEF IndInv, TypeOK, LoopTypeOK
<1>1. ASSUME UNCHANGED vars PROVE IndInv' /\ NobodyEnters
  <2>1. IndInv'
    BY <1>1, IndInvNext
  <2> QED BY <1>1, <2>1 DEF vars, NobodyEnters
<1>2. ASSUME NEW elapsed \in 0..MaxElapsed, UpdateGameTime(elapsed)
      PROVE  IndInv' /\ NobodyEnters
  <2>1. /\ UNCHANGED <<addSessQueue, registerVars, m_playerLimit, ws, limitRaised>>
        /\ now' = IF now + elapsed > MaxTime THEN MaxTime ELSE now + elapsed
    BY <1>2 DEF UpdateGameTime
  <2>2. now' \in 0..MaxTime
    BY <1>0, <2>1, WorldSessionsAssumption, WorldShutdownAssumption
  <2>3. IndInv'
    BY <1>0, <2>1, <2>2, ClockNext
  <2> QED BY <2>1, <2>3 DEF NobodyEnters
<1>3. CASE AddSessions
  <2>1. CASE AddSession_
    BY <2>1, AddQuiet, IndInvNext DEF Next
  <2>2. CASE UNCHANGED vars
    BY <1>1, <2>2
  <2> QED BY <1>3, <2>1, <2>2 DEF AddSessions
<1>4. CASE EndTurn
  <2>1. current \in Sessions
    BY <1>0, <1>4 DEF EndTurn
  <2>2. CASE Linger(current)
    BY <2>1, <2>2, SelfQuiet, IndInvNext DEF Next
  <2>3. CASE RemoveFromWorld(current)
    BY <2>1, <2>3, RemoveQuiet, IndInvNext DEF Next
  <2> QED BY <1>1, <1>4, <2>2, <2>3 DEF EndTurn
<1>5. CASE KickAllAtEnd
  <2>1. CASE KickAll
    BY <2>1, KickQuiet, IndInvNext DEF Next
  <2> QED BY <1>1, <1>5, <2>1 DEF KickAllAtEnd
<1>6. CASE StartTurn \/ EndPass \/ EndUpdate \/ StopNow \/ ShutdownCancel \/ UNCHANGED allVars
  <2>1. UNCHANGED vars
    BY <1>6 DEF StartTurn, EndPass, EndUpdate, StopNow, ShutdownCancel, Commanding, allVars
  <2> QED BY <1>1, <2>1
<1>7. ASSUME NEW delay \in Delays, NEW m \in Modes, ShutdownServ(delay, m)
      PROVE  IndInv' /\ NobodyEnters
  BY <1>1, <1>7 DEF ShutdownServ, Commanding
<1>8. CASE SessionStep
  <2>1. current \in Sessions /\ current \in turn
    BY <1>0, <1>8 DEF SessionStep
  <2>2. CASE LogoutPlayer(current) \/ InitializeSessionCallback(current)
             \/ KickPlayer(current) \/ LoadFromDBFailed(current)
    BY <2>1, <2>2, SelfQuiet, IndInvNext DEF Next
  <2>3. CASE BeginLogin(current) /\ requested' = requested \cup {current}
    BY <1>8, <2>1, <2>3, IndInvNext DEF Next, SessionStep, LoginStep
  <2>4. CASE HandlePlayerLogin(current) /\ current \notin requested /\ UNCHANGED requested
    BY <1>8, <2>1, <2>4, IndInvNext DEF Next, SessionStep, LoginStep
  <2> QED BY <1>8, <2>2, <2>3, <2>4 DEF SessionStep
<1>9. CASE NetworkStep
  BY <1>9, SelfQuiet, IndInvNext DEF NetworkStep, Next
<1> QED BY <1>2, <1>3, <1>4, <1>5, <1>6, <1>7, <1>8, <1>9 DEF ShutdownNext, WorldThread

-----------------------------------------------------------------------------
(* The loop and the timer.                                                  *)

\* Every step keeps the types of the loop.
LEMMA LoopTypeNext ==
    ASSUME ShutdownInv, [ShutdownNext]_allVars
    PROVE  LoopTypeOK'
<1> USE DEF ShutdownInv, LoopTypeOK
<1>0. Registered \subseteq Sessions
  BY RegisterFacts DEF IndInv
<1>1. ASSUME NEW elapsed \in 0..MaxElapsed, UpdateGameTime(elapsed) PROVE LoopTypeOK'
  BY <1>1 DEF UpdateGameTime
<1>2. CASE AddSessions
  <2>1. current = NoSession /\ turn = {}
    BY <1>2 DEF AddSessions
  <2> QED BY <1>0, <1>2, <2>1 DEF AddSessions
<1>3. CASE StartTurn \/ EndTurn \/ EndPass \/ EndUpdate
  BY <1>3 DEF StartTurn, EndTurn, EndPass, EndUpdate
<1>4. CASE KickAllAtEnd
  BY <1>4 DEF KickAllAtEnd
<1>5. CASE SessionStep
  BY <1>5, WorldSessionsAssumption DEF SessionStep
<1>6. CASE \/ NetworkStep \/ ShutdownCancel \/ StopNow \/ UNCHANGED allVars
           \/ \E delay \in Delays, m \in Modes : ShutdownServ(delay, m)
  <2>1. UNCHANGED loopVars
    BY <1>6 DEF NetworkStep, ShutdownCancel, StopNow, allVars, ShutdownServ, Commanding
  <2> QED BY <2>1 DEF loopVars
<1> QED BY <1>1, <1>2, <1>3, <1>4, <1>5, <1>6 DEF ShutdownNext, WorldThread

\* Every step keeps the timer and the moment the stop is due together.
LEMMA TimerNext ==
    ASSUME ShutdownInv, [ShutdownNext]_allVars
    PROVE  TimerTypeOK' /\ TimerSound'
<1> USE DEF ShutdownInv, TimerTypeOK, TimerSound, IsStopped
<1>0. NoTime \notin Nat /\ Delays \subseteq Nat /\ Threshold \in Nat /\ MaxElapsed \in Nat
  BY WorldSessionsAssumption, WorldShutdownAssumption
<1>1. ASSUME NEW elapsed \in 0..MaxElapsed, UpdateGameTime(elapsed)
      PROVE  TimerTypeOK' /\ TimerSound'
  <2>1. /\ due' = Minus(due, elapsed) /\ UNCHANGED <<mode, commands>> /\ elapsed \in Nat
        /\ IF IsStopped \/ timer = 0 \/ elapsed = 0 THEN UNCHANGED <<timer, stopped>>
           ELSE IF ~IsOverdue(elapsed) THEN timer' = timer - elapsed /\ UNCHANGED stopped
           ELSE \/ stopped' = "timer" /\ UNCHANGED timer
                \/ timer' = 1 /\ UNCHANGED stopped
    BY <1>0, <1>1 DEF UpdateGameTime
  <2>2. CASE IsStopped \/ timer = 0 \/ elapsed = 0
    BY <1>0, <2>1, <2>2 DEF Minus
  <2>3. CASE ~(IsStopped \/ timer = 0 \/ elapsed = 0) /\ ~IsOverdue(elapsed)
    BY <1>0, <2>1, <2>3 DEF Minus, IsOverdue
  <2>4. CASE ~(IsStopped \/ timer = 0 \/ elapsed = 0) /\ IsOverdue(elapsed)
    <3>1. due \in Nat /\ due <= elapsed
      BY <2>1, <2>4 DEF IsOverdue
    <3>2. due' = 0
      BY <1>0, <2>1, <3>1 DEF Minus
    <3> QED BY <2>1, <2>4, <3>2
  <2> QED BY <2>2, <2>3, <2>4
<1>2. ASSUME NEW delay \in Delays, NEW m \in Modes, ShutdownServ(delay, m)
      PROVE  TimerTypeOK' /\ TimerSound'
  <2> DEFINE time == EffectiveDelay(delay, m)
  <2>1. time \in Nat
    BY <1>0 DEF EffectiveDelay
  <2>2. UNCHANGED stopped /\ commands' \in Nat
    BY <1>2 DEF ShutdownServ, Commanding
  <2>3. \/ UNCHANGED <<timer, mode, due>>
        \/ mode' = m /\ timer' = (IF time = 0 THEN 1 ELSE time) /\ due' = time /\ ~IsStopped
    BY <1>2 DEF ShutdownServ
  <2> HIDE DEF time
  <2> QED BY <1>0, <2>1, <2>2, <2>3
<1>3. CASE ShutdownCancel
  <2>1. UNCHANGED stopped /\ commands' \in Nat
    BY <1>3 DEF ShutdownCancel, Commanding
  <2>2. \/ UNCHANGED <<timer, mode, due>>
        \/ timer' = 0 /\ mode' = "normal" /\ due' = NoTime /\ ~IsStopped
    BY <1>3 DEF ShutdownCancel
  <2> QED BY <2>1, <2>2 DEF Modes
<1>4. CASE StopNow
  BY <1>4 DEF StopNow
<1>5. CASE \/ AddSessions \/ StartTurn \/ EndTurn \/ EndPass \/ EndUpdate \/ KickAllAtEnd
           \/ SessionStep \/ NetworkStep \/ UNCHANGED allVars
  <2>1. UNCHANGED timerVars
    BY <1>5 DEF AddSessions, StartTurn, EndTurn, EndPass, EndUpdate, KickAllAtEnd,
                SessionStep, NetworkStep, allVars
  <2> QED BY <2>1 DEF timerVars
<1> QED BY <1>1, <1>2, <1>3, <1>4, <1>5 DEF ShutdownNext, WorldThread

-----------------------------------------------------------------------------
(* The idle stop and the last pass.                                         *)

\* The two steps of the login.
LEMMA LoginFacts ==
    ASSUME ShutdownInv, LoginStep
    PROVE  /\ \A t \in Sessions \ {current} : ws'[t] = ws[t]
           /\ current \in Sessions /\ current \in turn /\ pc = "turns"
           /\ UNCHANGED <<pc, turn, current, last, timerVars>>
           /\ \/ /\ ws[current].socketOpen /\ ws'[current].player = "loading"
                 /\ requested' = requested \cup {current}
              \/ /\ ws[current].player = "loading" /\ current \notin requested
                 /\ ws'[current].player = "world" /\ (Gone(ws[current]) => Gone(ws'[current]))
                 /\ requested' = requested
<1>0. current \in Sessions /\ ws[current] \in SessionType /\ ws \in [Sessions -> SessionType]
  BY DEF LoginStep, ShutdownInv, LoopTypeOK, IndInv, TypeOK
<1>1. CASE BeginLogin(current) /\ requested' = requested \cup {current}
  <2> DEFINE f == [ws[current] EXCEPT !.player = "loading"]
  <2>1. ws' = [ws EXCEPT ![current] = f] /\ ws[current].socketOpen
    BY <1>1 DEF BeginLogin, Only
  <2>2. f.player = "loading"
    BY <1>0 DEF SessionType
  <2> HIDE DEF f
  <2> QED BY <1>0, <1>1, <2>1, <2>2 DEF LoginStep
<1>2. CASE HandlePlayerLogin(current) /\ current \notin requested /\ UNCHANGED requested
  <2> DEFINE f == [ws[current] EXCEPT !.player = "world"]
  <2>1. ws' = [ws EXCEPT ![current] = f] /\ ws[current].player = "loading"
    BY <1>2 DEF HandlePlayerLogin, SetCharacter, Only
  <2>2. f.player = "world" /\ (Gone(ws[current]) => Gone(f))
    BY <1>0 DEF SessionType, Gone
  <2> HIDE DEF f
  <2> QED BY <1>0, <1>2, <2>1, <2>2 DEF LoginStep
<1> QED BY <1>1, <1>2 DEF LoginStep

\* Every step keeps the world empty after the decision of an idle stop.
LEMMA IdleNext ==
    ASSUME ShutdownInv, [ShutdownNext]_allVars
    PROVE  IdleSound'
<1> DEFINE Empty == \A s \in Sessions : \/ ws[s].player = "none"
                                        \/ ws[s].player = "loading" /\ s \in requested
<1> SUFFICES ASSUME stopped' = "timer", mode' = "idle", ~last'
             PROVE  pc' # "time" /\ Empty'
  BY DEF IdleSound
<1>0. \A t \in Sessions : t \notin Registered => ws[t].player = "none"
  BY DEF ShutdownInv, IndInv, RegisterInv, HandedOverOnce
<1>1. ASSUME NEW elapsed \in 0..MaxElapsed, UpdateGameTime(elapsed) PROVE pc' # "time" /\ Empty'
  <2>1. pc = "time" /\ pc' = "add" /\ UNCHANGED <<mode, last, ws>>
    BY <1>1 DEF UpdateGameTime
  <2>2. stopped # "timer"
    BY <2>1 DEF ShutdownInv, IdleSound
  <2>3. Registered = {}
    BY <1>1, <2>1, <2>2 DEF UpdateGameTime, IsIdle
  <2> QED BY <1>0, <2>1, <2>3
<1>2. CASE ~\E elapsed \in 0..MaxElapsed : UpdateGameTime(elapsed)
  <2>1. stopped = "timer" /\ mode = "idle"
    <3>1. CASE UNCHANGED <<stopped, mode>>
      BY <3>1
    <3>2. CASE StopNow
      BY <3>2 DEF StopNow, IsStopped, ShutdownInv, TimerTypeOK
    <3>3. ASSUME NEW delay \in Delays, NEW m \in Modes, ShutdownServ(delay, m)
          PROVE  stopped = "timer" /\ mode = "idle"
      BY <3>3 DEF ShutdownServ, IsStopped
    <3>4. CASE ShutdownCancel
      BY <3>4 DEF ShutdownCancel, IsStopped
    <3> QED BY <1>2, <3>1, <3>2, <3>3, <3>4
            DEF ShutdownNext, WorldThread, AddSessions, StartTurn, EndTurn, EndPass, EndUpdate,
                KickAllAtEnd, SessionStep, NetworkStep, timerVars, allVars
  <2>2. ~last /\ pc' # "time" /\ requested \subseteq requested'
    <3>1. ~last
      BY <1>2 DEF ShutdownNext, WorldThread, AddSessions, StartTurn, EndTurn, EndPass, EndUpdate,
                  KickAllAtEnd, SessionStep, NetworkStep, loopVars, allVars, ShutdownServ,
                  ShutdownCancel, StopNow, Commanding
    <3>2. pc # "time"
      BY <2>1, <3>1 DEF ShutdownInv, IdleSound
    <3>3. CASE KickAllAtEnd
      BY <3>3 DEF KickAllAtEnd
    <3>4. CASE EndUpdate
      BY <2>1, <3>1, <3>4 DEF EndUpdate, IsStopped
    <3>5. CASE AddSessions \/ StartTurn \/ EndTurn \/ EndPass
      BY <3>1, <3>2, <3>5 DEF AddSessions, StartTurn, EndTurn, EndPass
    <3>6. CASE SessionStep
      BY <3>1, <3>2, <3>6 DEF SessionStep
    <3>7. CASE UNCHANGED loopVars
      BY <3>1, <3>2, <3>7 DEF loopVars
    <3> QED BY <1>2, <3>3, <3>4, <3>5, <3>6, <3>7
            DEF ShutdownNext, WorldThread, NetworkStep, allVars, ShutdownServ,
                ShutdownCancel, StopNow, Commanding
  <2>3. Empty
    BY <2>1, <2>2 DEF ShutdownInv, IdleSound
  <2>4. CASE NobodyEnters
    BY <2>2, <2>3, <2>4 DEF NobodyEnters
  <2>5. CASE LoginStep
    BY <2>2, <2>3, <2>5, LoginFacts
  <2>6. Empty'
    BY <2>4, <2>5, SessionsNext
  <2> QED BY <2>2, <2>6
<1> QED BY <1>1, <1>2

\* Every step keeps the characters of the last pass with sessions that go.
LEMMA LastPassNext ==
    ASSUME ShutdownInv, [ShutdownNext]_allVars
    PROVE  LastPassSound'
<1> DEFINE AllGone == \A s \in Sessions : ws[s].player # "none" => Gone(ws[s])
           Going == \A s \in Sessions :
                       \/ ws[s].player = "none"
                       \/ s \in turn /\ Gone(ws[s])
                       \/ ws[s].player = "loading" /\ s \in requested
           NobodyIn == \A s \in Sessions : ws[s].player # "world"
<1>a. /\ pc = "ended" => last
      /\ last => pc \in {"add", "turns", "ended"}
      /\ last /\ pc = "add" => AllGone
      /\ last /\ pc = "turns" => Going
      /\ pc = "ended" => NobodyIn
  BY DEF ShutdownInv, LastPassSound
<1>b. (/\ pc' = "ended" => last'
       /\ last' => pc' \in {"add", "turns", "ended"}
       /\ last' /\ pc' = "add" => AllGone'
       /\ last' /\ pc' = "turns" => Going'
       /\ pc' = "ended" => NobodyIn') => LastPassSound'
  BY DEF LastPassSound
<1>c. /\ \A t \in Sessions : t \notin Registered => ws[t].player = "none"
      /\ current \in turn \cup {NoSession} /\ last \in BOOLEAN /\ NoSession \notin Sessions
      /\ turn \subseteq Sessions
  BY WorldSessionsAssumption
     DEF ShutdownInv, IndInv, RegisterInv, HandedOverOnce, LoopTypeOK
<1> HIDE DEF AllGone, Going, NobodyIn
<1>1. ASSUME NEW elapsed \in 0..MaxElapsed, UpdateGameTime(elapsed) PROVE LastPassSound'
  <2>1. ~last /\ ~last' /\ pc' = "add"
    BY <1>1, <1>a DEF UpdateGameTime
  <2> QED BY <2>1, <1>b
<1>2. CASE AddSessions
  <2>1. CASE addSessQueue # <<>>
    <3>1. pc = "add" /\ AddSession_ /\ UNCHANGED <<pc, last>>
      BY <1>2, <2>1 DEF AddSessions
    <3>2. NobodyEnters
      BY <3>1, AddQuiet DEF ShutdownInv
    <3>3. last => AllGone'
      BY <1>a, <3>1, <3>2 DEF NobodyEnters, AllGone
    <3> QED BY <1>a, <1>b, <3>1, <3>3
  <2>2. CASE addSessQueue = <<>>
    <3>1. /\ pc = "add" /\ pc' = "turns" /\ turn' = Registered
          /\ UNCHANGED <<last, ws>>
      BY <1>2, <2>2 DEF AddSessions, vars
    <3>2. last => Going'
      BY <1>a, <1>c, <3>1 DEF AllGone, Going
    <3> QED BY <1>b, <3>1, <3>2
  <2> QED BY <2>1, <2>2
<1>3. CASE EndTurn
  <2>1. /\ pc = "turns" /\ current \in turn /\ current \in Sessions
        /\ turn' = turn \ {current} /\ UNCHANGED <<pc, requested, last>>
    BY <1>3, <1>c DEF EndTurn
  <2>2. ASSUME last PROVE Going'
    <3>1. Going
      BY <1>a, <2>1, <2>2
    <3>2. CASE ws[current].socketOpen /\ UNCHANGED vars
      <4>1. UNCHANGED ws /\ ~Gone(ws[current])
        BY <3>2 DEF vars, Gone
      <4> QED BY <2>1, <3>1, <4>1 DEF Going
    <3>3. CASE Linger(current)
      <4>1. ~Gone(ws[current]) /\ ws[current].player = "world"
        BY <3>3 DEF Linger, GivesUp, Gone
      <4> QED BY <2>1, <3>1, <4>1 DEF Going
    <3>4. CASE RemoveFromWorld(current)
      <4>1. NobodyEnters /\ ws'[current].player = "none"
        BY <2>1, <3>4, RemoveQuiet DEF ShutdownInv
      <4> QED BY <2>1, <3>1, <4>1 DEF Going, NobodyEnters
    <3> QED BY <1>3, <3>2, <3>3, <3>4 DEF EndTurn
  <2> QED BY <1>b, <2>1, <2>2
<1>4. CASE EndPass
  <2>1. /\ pc = "turns" /\ turn = {} /\ pc' = (IF last THEN "ended" ELSE "cli")
        /\ UNCHANGED <<ws, last>>
    BY <1>4 DEF EndPass, vars
  <2>2. last => NobodyIn'
    BY <1>a, <2>1 DEF Going, NobodyIn
  <2> QED BY <1>b, <2>1, <2>2
<1>5. CASE EndUpdate
  <2>1. ~last /\ ~last' /\ pc' # "ended"
    BY <1>5, <1>a DEF EndUpdate
  <2> QED BY <1>b, <2>1
<1>6. CASE KickAllAtEnd
  <2>1. pc' = "add" /\ last'
    BY <1>6 DEF KickAllAtEnd
  <2>2. CASE Registered = {}
    <3>1. UNCHANGED ws
      BY <1>6, <2>2 DEF KickAllAtEnd, vars
    <3>2. AllGone'
      BY <1>c, <2>2, <3>1 DEF AllGone
    <3> QED BY <1>b, <2>1, <3>2
  <2>3. CASE Registered # {}
    <3>1. AllGone'
      BY <1>6, <2>3, KickQuiet DEF KickAllAtEnd, ShutdownInv, AllGone
    <3> QED BY <1>b, <2>1, <3>1
  <2> QED BY <2>2, <2>3
<1>7. CASE UNCHANGED <<pc, turn, last>> /\ requested \subseteq requested'
           /\ (NobodyEnters \/ LoginStep) /\ (pc = "ended" => UNCHANGED ws)
  <2>1. CASE NobodyEnters
    <3>1. /\ (AllGone => AllGone') /\ (Going => Going')
          /\ NobodyIn => NobodyIn'
      BY <1>7, <2>1 DEF NobodyEnters, AllGone, Going, NobodyIn
    <3> QED BY <1>7, <1>a, <1>b, <3>1
  <2>2. CASE LoginStep
    <3>1. pc = "turns"
      BY <2>2 DEF LoginStep
    <3>2. Going => Going'
      BY <1>7, <2>2, LoginFacts DEF Going
    <3> QED BY <1>7, <1>a, <1>b, <3>1, <3>2
  <2> QED BY <1>7, <2>1, <2>2
<1>8. CASE \/ StartTurn \/ SessionStep \/ NetworkStep \/ ShutdownCancel \/ StopNow
           \/ UNCHANGED allVars \/ \E delay \in Delays, m \in Modes : ShutdownServ(delay, m)
  <2>1. UNCHANGED <<pc, turn, last>> /\ requested \subseteq requested'
    BY <1>8 DEF StartTurn, SessionStep, NetworkStep, ShutdownCancel, StopNow, allVars, loopVars,
                ShutdownServ, Commanding
  <2>2. pc = "ended" => UNCHANGED ws
    BY <1>8 DEF StartTurn, SessionStep, NetworkStep, ShutdownCancel, StopNow, allVars, vars,
                ShutdownServ, Commanding
  <2> QED BY <1>7, <2>1, <2>2, SessionsNext
<1> QED BY <1>1, <1>2, <1>3, <1>4, <1>5, <1>6, <1>8 DEF ShutdownNext, WorldThread

-----------------------------------------------------------------------------

\* The world at rest satisfies the invariant.
LEMMA ShutdownInvInit == ShutdownInit => ShutdownInv
<1> SUFFICES ASSUME ShutdownInit PROVE ShutdownInv
  OBVIOUS
<1>1. IndInv
  BY IndInvInit DEF ShutdownInit
<1>2. LoopTypeOK
  BY DEF ShutdownInit, LoopTypeOK
<1>3. TimerTypeOK /\ TimerSound
  BY WorldShutdownAssumption DEF ShutdownInit, TimerTypeOK, TimerSound, IsStopped, Modes
<1>4. IdleSound /\ LastPassSound
  BY DEF ShutdownInit, IdleSound, LastPassSound
<1> QED BY <1>1, <1>2, <1>3, <1>4 DEF ShutdownInv

\* Every step keeps it.
LEMMA ShutdownInvNext == ShutdownInv /\ [ShutdownNext]_allVars => ShutdownInv'
<1> SUFFICES ASSUME ShutdownInv, [ShutdownNext]_allVars PROVE ShutdownInv'
  OBVIOUS
<1> QED BY SessionsNext, LoopTypeNext, TimerNext, IdleNext, LastPassNext DEF ShutdownInv

\* The inductive invariant of the world loop.
THEOREM LoopConsistent == ShutdownSpec => []ShutdownInv
BY ShutdownInvInit, ShutdownInvNext, PTL DEF ShutdownSpec

\* The world never stops before the delay of the last shutdown command has
\* passed, nor after a cancellation, however the commands and the updates of
\* m_ShutdownTimer interleave and however long an update takes.
THEOREM WorldStopsOnTime == ShutdownSpec => []StopsOnTime
<1>1. ShutdownInv => StopsOnTime
  BY DEF ShutdownInv, TimerSound, StopsOnTime
<1> QED BY <1>1, LoopConsistent, PTL

\* Nobody's character is in the world when the loop of an idle shutdown ends.
THEOREM IdleStopSafe == ShutdownSpec => []IdleStopInterruptsNobody
<1>1. ShutdownInv => IdleStopInterruptsNobody
  BY DEF ShutdownInv, IdleSound, IdleStopInterruptsNobody
<1> QED BY <1>1, LoopConsistent, PTL

\* KickAll and one UpdateSessions are enough: no character is in the world when
\* the network is stopped and the maps are unloaded.
THEOREM AllCharactersSaved == ShutdownSpec => []CharactersSaved
<1>1. ShutdownInv => CharactersSaved
  BY DEF ShutdownInv, LastPassSound, CharactersSaved
<1> QED BY <1>1, LoopConsistent, PTL
=============================================================================
