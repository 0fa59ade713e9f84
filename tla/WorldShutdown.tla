--------------------------- MODULE WorldShutdown ----------------------------
(***************************************************************************)
(* The world loop around the sessions of WorldSessions: WorldUpdateLoop,    *)
(* the order of the steps in World::Update and UpdateSessions, the shutdown *)
(* timer (ShutdownServ, ShutdownCancel, _UpdateGameTime, the .server        *)
(* commands) and the end of main(): KickAll, one last UpdateSessions,       *)
(* StopNetwork.  WorldSessions says what a session's turn does; here each   *)
(* session has one turn in every pass, and a pass follows the one before.   *)
(***************************************************************************)
EXTENDS WorldSessions

CONSTANTS Delays,        \* seconds an administrator asks for
          Threshold,     \* CONFIG_FORCE_SHUTDOWN_THRESHOLD
          MaxElapsed,    \* bound: seconds between two updates
          MaxCommands    \* bound: shutdown commands given

ASSUME WorldShutdownAssumption ==
    /\ Delays \subseteq Nat /\ Threshold \in Nat
    /\ MaxElapsed \in Nat \ {0} /\ MaxCommands \in Nat

Modes == {"normal", "forced", "idle"}    \* of m_ShutdownMask

VARIABLES
    pc,          \* where the world thread is
    turn,        \* sessions whose turn in this pass is still to come
    current,     \* the session whose turn it is
    requested,   \* logins requested in this pass
    timer,       \* m_ShutdownTimer
    mode,        \* m_ShutdownMask
    stopped,     \* m_stopEvent, and history: what set it, "timer" or StopNow, "now"
    last,        \* the loop has ended, KickAll was called
    commands,    \* shutdown commands still to be given
    due          \* history: seconds until the world may stop, NoTime if it may not

loopVars == <<pc, turn, current, requested, last>>
timerVars == <<timer, mode, stopped, commands, due>>
allVars == <<vars, loopVars, timerVars>>

ShutdownInit ==
    /\ Init
    /\ pc = "time" /\ turn = {} /\ current = NoSession /\ requested = {}
    /\ timer = 0 /\ mode = "normal" /\ stopped = "no" /\ last = FALSE
    /\ commands = MaxCommands /\ due = NoTime

-----------------------------------------------------------------------------
(* World::Update.                                                           *)

IsStopped == stopped # "no"

\* m_ShutdownTimer <= elapsed.
IsOverdue_Strict(elapsed) == timer < elapsed
IsOverdue(elapsed) == timer <= elapsed

\* GetActiveAndQueuedSessionCount() == 0.
IsIdle_Connected == \A s \in Registered : ~ws[s].socketOpen
IsIdle == Registered = {}

Minus(t, elapsed) == IF t = NoTime THEN NoTime ELSE IF t > elapsed THEN t - elapsed ELSE 0

UpdateGameTime(elapsed) ==
    /\ pc = "time"
    /\ pc' = "add"
    /\ requested' = {}
    /\ now' = IF now + elapsed > MaxTime THEN MaxTime ELSE now + elapsed
    /\ due' = Minus(due, elapsed)
    /\ IF IsStopped \/ timer = 0 \/ elapsed = 0 THEN UNCHANGED <<timer, stopped>>
       ELSE IF ~IsOverdue(elapsed) THEN timer' = timer - elapsed /\ UNCHANGED stopped
       ELSE IF mode # "idle" \/ IsIdle THEN stopped' = "timer" /\ UNCHANGED timer
       ELSE timer' = 1 /\ UNCHANGED stopped
    /\ UNCHANGED <<addSessQueue, registerVars, m_playerLimit, ws, limitRaised,
                   turn, current, last, mode, commands>>

\* UpdateSessions registers the new sessions, then gives every session its turn.
AddSessions ==
    /\ pc = "add"
    /\ IF addSessQueue # <<>>
       THEN AddSession_ /\ UNCHANGED <<pc, turn>>
       ELSE pc' = "turns" /\ turn' = Registered /\ UNCHANGED vars
    /\ UNCHANGED <<current, requested, last, timerVars>>

StartTurn ==
    /\ pc = "turns" /\ current = NoSession
    /\ turn # {}
    /\ current' \in turn
    /\ UNCHANGED <<vars, pc, turn, requested, last, timerVars>>

\* WorldSession::Update returns, and the session is removed if it gave up.
EndTurn ==
    /\ pc = "turns" /\ current # NoSession
    /\ turn' = turn \ {current}
    /\ current' = NoSession
    /\ \/ ws[current].socketOpen /\ UNCHANGED vars
       \/ Linger(current)
       \/ RemoveFromWorld(current)
    /\ UNCHANGED <<pc, requested, last, timerVars>>

EndPass ==
    /\ pc = "turns" /\ turn = {}
    /\ pc' = IF last THEN "ended" ELSE "cli"
    /\ UNCHANGED <<vars, turn, current, requested, last, timerVars>>

\* The end of World::Update: the loop looks at m_stopEvent.
EndUpdate ==
    /\ pc = "cli"
    /\ pc' = IF IsStopped THEN "kick" ELSE "time"
    /\ UNCHANGED <<vars, turn, current, requested, last, timerVars>>

\* main(), after the loop: KickAll, then UpdateSessions for the last time.
KickAllAtEnd ==
    /\ pc = "kick"
    /\ pc' = "add" /\ last' = TRUE /\ requested' = {}
    /\ IF Registered = {} THEN UNCHANGED vars ELSE KickAll
    /\ UNCHANGED <<turn, current, timerVars>>

WorldThread ==
    \/ \E elapsed \in 0..MaxElapsed : UpdateGameTime(elapsed)
    \/ AddSessions \/ StartTurn \/ EndTurn \/ EndPass \/ EndUpdate \/ KickAllAtEnd

-----------------------------------------------------------------------------
(* What happens in a session's turn, and on the network threads.            *)

\* A login goes on when its instance connection is linked, at the start of a
\* later pass: the character enters the world in a later pass than the request.
SessionStep ==
    /\ pc = "turns" /\ current # NoSession
    /\ \/ BeginLogin(current) /\ requested' = requested \cup {current}
       \/ /\ current \notin requested
          /\ HandlePlayerLogin(current) \/ LoadFromDBFailed(current)
          /\ UNCHANGED requested
       \/ /\ LogoutPlayer(current) \/ InitializeSessionCallback(current) \/ KickPlayer(current)
          /\ UNCHANGED requested
    /\ UNCHANGED <<pc, turn, current, last, timerVars>>

\* Until StopNetwork.
NetworkStep ==
    /\ pc # "ended"
    /\ \E s \in Sessions : AddSession(s) \/ LoseConnection(s) \/ AbortLogin(s)
    /\ UNCHANGED <<loopVars, timerVars>>

-----------------------------------------------------------------------------
(* Commands, from the console or from the session whose turn it is.         *)

Commanding ==
    /\ pc = "cli" \/ (pc = "turns" /\ current # NoSession /\ ws[current].player = "world")
    /\ commands > 0
    /\ commands' = commands - 1
    /\ UNCHANGED <<vars, loopVars>>

\* IsOnlyUser, with every account at an address of its own.
IsOnlyUser == Registered \subseteq {current}

\* The delay of the .server commands: at least the threshold while others are
\* connected, unless forced.
EffectiveDelay(delay, m) ==
    IF delay < Threshold /\ m # "forced" /\ ~IsOnlyUser THEN Threshold ELSE delay

\* ShutdownServ.
ShutdownServ(delay, m) ==
    /\ Commanding
    /\ IF IsStopped THEN UNCHANGED <<timer, mode, due>>
       ELSE LET time == EffectiveDelay(delay, m) IN
            /\ mode' = m
            /\ timer' = IF time = 0 THEN 1 ELSE time
            /\ due' = time
    /\ UNCHANGED stopped

ShutdownCancel_KeepsTimer ==
    /\ Commanding
    /\ mode' = "normal"
    /\ due' = NoTime
    /\ UNCHANGED <<timer, stopped>>
ShutdownCancel ==
    /\ Commanding
    /\ IF timer = 0 \/ IsStopped THEN UNCHANGED <<timer, mode, due>>
       ELSE timer' = 0 /\ mode' = "normal" /\ due' = NoTime
    /\ UNCHANGED stopped

\* World::StopNow: .server exit, a generator of ids that is exhausted, and
\* SignalHandler, which runs on a thread of its own and so at any moment.
StopNow ==
    /\ pc # "ended"
    /\ commands > 0
    /\ commands' = commands - 1
    /\ stopped' = IF IsStopped THEN stopped ELSE "now"
    /\ due' = 0
    /\ UNCHANGED <<vars, loopVars, timer, mode>>

ShutdownNext ==
    \/ WorldThread \/ SessionStep \/ NetworkStep
    \/ \E delay \in Delays, m \in Modes : ShutdownServ(delay, m)
    \/ ShutdownCancel
    \/ StopNow

\* The world thread goes on, and the clock with it.
ShutdownFairness ==
    /\ WF_allVars(WorldThread)
    /\ SF_allVars(\E elapsed \in 1..MaxElapsed : UpdateGameTime(elapsed))

ShutdownSpec == ShutdownInit /\ [][ShutdownNext]_allVars /\ ShutdownFairness

-----------------------------------------------------------------------------
\* However the timer is set, set again and cancelled while it counts down in
\* steps of several seconds, the world stops only when the delay of the last
\* command has passed, and never after a cancellation.
StopsOnTime == IsStopped => due = 0

\* An idle shutdown, which waits for the last session to leave, never throws out
\* a character: whoever connects after the decision is not in the world yet when
\* the loop has ended and KickAll is called.
IdleStopInterruptsNobody ==
    stopped = "timer" /\ mode = "idle" /\ ~last => \A s \in Sessions : ws[s].player # "world"

\* When the network is stopped and the maps are unloaded no character is in the
\* world any more: KickAll and one UpdateSessions have saved them all, those
\* without a connection and those being loaded included.
CharactersSaved ==
    pc = "ended" => \A s \in Sessions : ws[s].player # "world"

\* A shutdown that nobody changes any more happens; a connected client cannot
\* hold it up.
ShutdownHappens ==
    (timer > 0 /\ mode # "idle" /\ commands = 0) ~> pc = "ended"

\* A session whose connection is gone is taken out of the world with its
\* character, whatever it was doing when it was lost, unless the server stops.
LostSessionLeaves == \A s \in Sessions :
    (s \in Registered /\ ~ws[s].socketOpen) ~> (ws[s].life = "deleted" \/ pc = "ended")
=============================================================================
