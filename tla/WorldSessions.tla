--------------------------- MODULE WorldSessions ----------------------------
(***************************************************************************)
(* The world's register of sessions and its login queue: World::AddSession, *)
(* AddSession_, RemoveSession, AddQueuedPlayer, RemoveQueuedPlayer,         *)
(* HasRecentlyDisconnected, UpdateSessions, KickAll, together with the      *)
(* parts of WorldSession they depend on (its socket, whether a character is *)
(* loading or in the world, m_inQueue, the pending InitializeSession).      *)
(*                                                                         *)
(* Network threads create sessions, hand them over through addSessQueue and *)
(* lose connections at any time.  Everything else runs on the world thread: *)
(* one action is one session's turn in World::UpdateSessions.               *)
(***************************************************************************)
EXTENDS Integers, Sequences, FiniteSets, SequencesExt

CONSTANTS Sessions,     \* every WorldSession object a run can create
          Accounts,
          AccountOf,    \* WorldSession::GetAccountId
          Staff,        \* accounts with RBAC_PERM_SKIP_QUEUE
          NoSession,    \* null
          NoTime,       \* no entry in m_disconnects
          Tolerance,    \* DisconnectToleranceInterval, 0 switches it off
          Limits,       \* values of PlayerLimit an administrator sets, 0 = none
          ExpireTime,   \* updates a character stays without connection
          MaxTime       \* bound: game time

ASSUME WorldSessionsAssumption ==
    /\ IsFiniteSet(Sessions) /\ IsFiniteSet(Accounts)
    /\ AccountOf \in [Sessions -> Accounts]
    /\ Staff \subseteq Accounts
    /\ NoSession \notin Sessions
    /\ Tolerance \in Nat /\ MaxTime \in Nat /\ ExpireTime \in Nat
    /\ NoTime \notin Nat
    /\ Limits \subseteq Nat

VARIABLES
    addSessQueue,          \* World::addSessQueue
    m_sessions,            \* World::m_sessions
    m_sessionsByBnetGuid,  \* World::m_sessionsByBnetGuid, its values
    m_QueuedPlayer,        \* World::m_QueuedPlayer
    m_disconnects,         \* World::m_disconnects
    m_playerLimit,         \* World::m_playerLimit
    now,                   \* GameTime::GetGameTime
    ws,                    \* the WorldSession objects, see SessionType
    limitRaised            \* history: the limit was raised while players wait

registerVars == <<m_sessions, m_sessionsByBnetGuid, m_QueuedPlayer, m_disconnects>>
vars == <<addSessQueue, registerVars, m_playerLimit, now, ws, limitRaised>>

SessionType == [
    life:         {"new", "live", "deleted"},
    socketOpen:   BOOLEAN,                       \* its realm socket is open
    forceExit:    BOOLEAN,
    expireTime:   0..ExpireTime,
    player:       {"none", "loading", "world"},  \* m_playerLoading, _player
    inQueue:      BOOLEAN,                       \* m_inQueue
    initializing: BOOLEAN,                       \* InitializeSession's queries run
    told:         Nat]                           \* queue position last sent, 0 if none

NewSession == [life |-> "new", socketOpen |-> FALSE, forceExit |-> FALSE,
               expireTime |-> ExpireTime, player |-> "none", inQueue |-> FALSE,
               initializing |-> FALSE, told |-> 0]

\* WorldSession::~WorldSession: the sockets are closed, the player is logged
\* out and saved, pending callbacks die with the session.
DeletedSession == [NewSession EXCEPT !.life = "deleted"]

Registered == {m_sessions[a] : a \in Accounts} \ {NoSession}
Queued == ToSet(m_QueuedPlayer)
Active == Registered \ Queued
Account(s) == AccountOf[s]

Init ==
    /\ addSessQueue = <<>>
    /\ m_sessions = [a \in Accounts |-> NoSession]
    /\ m_sessionsByBnetGuid = {}
    /\ m_QueuedPlayer = <<>>
    /\ m_disconnects = [a \in Accounts |-> NoTime]
    /\ m_playerLimit \in Limits
    /\ now = 0
    /\ ws = [s \in Sessions |-> NewSession]
    /\ limitRaised = FALSE

-----------------------------------------------------------------------------
(* Network threads.                                                         *)

\* WorldSocket::HandleEnterEncryptedModeAck: World::AddSession.
AddSession(s) ==
    /\ ws[s].life = "new"
    /\ ws' = [ws EXCEPT ![s] = [@ EXCEPT !.life = "live", !.socketOpen = TRUE]]
    /\ addSessQueue' = Append(addSessQueue, s)
    /\ UNCHANGED <<registerVars, m_playerLimit, now, limitRaised>>

\* A step that only touches the session itself.
Only(s, fields) ==
    /\ ws' = [ws EXCEPT ![s] = fields]
    /\ UNCHANGED <<addSessQueue, registerVars, m_playerLimit, now, limitRaised>>

\* The connection is lost, or closed by a handler on the network thread.
LoseConnection(s) ==
    /\ ws[s].socketOpen
    /\ Only(s, [ws[s] EXCEPT !.socketOpen = FALSE])

-----------------------------------------------------------------------------
(* The login queue.                                                         *)

\* A session that is leaving and was not queued frees its slot.
OthersActive_Leaver(found, active) == active
OthersActive(found, active) == IF ~found /\ active > 0 THEN active - 1 ELSE active

HasRoom_OffByOne(active) == m_playerLimit = 0 \/ active <= m_playerLimit
HasRoom(active) == m_playerLimit = 0 \/ active < m_playerLimit

\* Where the loop that tells the new positions starts.
RetellFrom_NotReset(popped, position) == position
RetellFrom(popped, position) == IF popped THEN 1 ELSE position

\* m_QueuedPlayer.erase(iter).
WithoutQueued_Kept(queue, position) == queue
WithoutQueued(queue, position) == RemoveAt(queue, position)

(***************************************************************************)
(* World::RemoveQueuedPlayer(s) with "size" sessions in m_sessions: take s  *)
(* out of the queue if it is in it, admit the first one waiting if there is *)
(* room, and tell the others their positions.                               *)
(***************************************************************************)
RemoveQueuedPlayer(queue, s, size) ==
    LET found    == s \in ToSet(queue)
        position == IF found THEN CHOOSE i \in DOMAIN queue : queue[i] = s
                             ELSE Len(queue) + 1
        rest     == IF found THEN WithoutQueued(queue, position) ELSE queue
        pop      == /\ HasRoom(OthersActive(found, size - Len(queue)))
                    /\ rest # <<>>
    IN [found  |-> found,
        popped |-> IF pop THEN {Head(rest)} ELSE {},
        queue  |-> IF pop THEN Tail(rest) ELSE rest,
        from   |-> RetellFrom(pop, position)]

NothingRemoved == [found |-> FALSE, popped |-> {}, queue |-> m_QueuedPlayer,
                   from |-> Len(m_QueuedPlayer) + 1]

\* What RemoveQueuedPlayer does to session t: InitializeSession if it is the one
\* admitted, SendAuthWaitQueue(position) if it waits at r.from or after.
AfterRemoval(r, session, t) ==
    LET told == {i \in r.from..Len(r.queue) : r.queue[i] = t} IN
    [session EXCEPT !.initializing = @ \/ t \in r.popped,
                    !.told = IF told # {} THEN CHOOSE i \in told : TRUE ELSE @]

\* difftime(disconnected, now) < tolerance.
WithinTolerance(t) == t - now < Tolerance

HasRecentlyDisconnected(s) ==
    /\ Tolerance # 0
    /\ m_disconnects[Account(s)] # NoTime
    /\ WithinTolerance(m_disconnects[Account(s)])

\* HasRecentlyDisconnected also drops the entries it scans and finds out of
\* tolerance; the scan of the unordered map stops at the session's own entry.
PruneDisconnects(scanned) ==
    [a \in Accounts |->
        IF a \in scanned /\ m_disconnects[a] # NoTime /\ Tolerance # 0
           /\ ~WithinTolerance(m_disconnects[a])
        THEN NoTime ELSE m_disconnects[a]]

-----------------------------------------------------------------------------
(* World::AddSession_ for the next session of addSessQueue.                 *)

\* RemoveSession() fails while the account's session loads a character: the
\* newcomer is kicked and deleted.
RefuseSession(s) ==
    /\ \E old \in Registered : Account(old) = Account(s) /\ ws[old].player = "loading"
    /\ ws' = [ws EXCEPT ![s] = DeletedSession]
    /\ UNCHANGED registerVars

\* The older session of the account, if there is one.
Olds(s) == {m_sessions[Account(s)]} \ {NoSession}

\* It is kicked, taken out of the queue and deleted.
RemoveOld(s) ==
    IF Olds(s) = {} THEN NothingRemoved
    ELSE RemoveQueuedPlayer(m_QueuedPlayer, m_sessions[Account(s)], Cardinality(Registered))

\* The limit is reached without the newcomer (decrease_session), unless a queued
\* session was replaced.
IsFull(s, r) ==
    LET size == Cardinality((Registered \ Olds(s)) \cup {s}) IN
    /\ m_playerLimit > 0
    /\ (IF r.found THEN size ELSE size - 1) >= m_playerLimit
    /\ Account(s) \notin Staff

\* The newcomer waits (AddQueuedPlayer) or is initialized.
EnterOrWait(s, r) ==
    LET full  == IsFull(s, r)
        wait  == full /\ ~HasRecentlyDisconnected(s)
        queue == IF wait THEN Append(r.queue, s) ELSE r.queue
    IN
    /\ m_QueuedPlayer' = queue
    /\ \E scanned \in IF full THEN SUBSET Accounts ELSE {{}} :
          /\ full /\ wait => scanned = Accounts
          /\ m_disconnects' = PruneDisconnects(scanned)
    /\ ws' = [t \in Sessions |->
                IF t \in Olds(s) THEN DeletedSession
                ELSE IF t = s
                THEN [ws[s] EXCEPT !.inQueue = wait, !.initializing = ~wait,
                                   !.told = IF wait THEN Len(queue) ELSE 0]
                ELSE AfterRemoval(r, ws[t], t)]

RegisterSession(s) ==
    /\ \A t \in Olds(s) : ws[t].player # "loading"
    /\ m_sessions' = [m_sessions EXCEPT ![Account(s)] = s]
    /\ m_sessionsByBnetGuid' = (m_sessionsByBnetGuid \ Olds(s)) \cup {s}
    /\ \E r \in {RemoveOld(s)} : EnterOrWait(s, r)

AddSession_ ==
    /\ addSessQueue # <<>>
    /\ addSessQueue' = Tail(addSessQueue)
    /\ RefuseSession(Head(addSessQueue)) \/ RegisterSession(Head(addSessQueue))
    /\ limitRaised' = (limitRaised /\ m_QueuedPlayer' # <<>>)
    /\ UNCHANGED <<m_playerLimit, now>>

-----------------------------------------------------------------------------
(* The turn of a registered session in World::UpdateSessions.               *)

\* WorldSession::InitializeSessionCallback, when both query holders are ready.
InitializeSessionCallback(s) ==
    /\ s \in Registered
    /\ ws[s].initializing
    /\ Only(s, [ws[s] EXCEPT !.initializing = FALSE, !.inQueue = FALSE, !.told = 0])

\* expireTime -= min(diff, expireTime), in units of the update interval.
Elapse_Never(time) == time
Elapse(time) == IF time > 0 THEN time - 1 ELSE 0

\* The socket is gone: WorldSession::Update gives up on the session when there
\* is no character in the world, it was kicked, or expireTime has run out.
GivesUp(s) ==
    Elapse(ws[s].expireTime) < 1 \/ ws[s].forceExit \/ ws[s].player # "world"

\* Otherwise the character stays in the world without a connection.
Linger(s) ==
    /\ s \in Registered
    /\ ~ws[s].socketOpen
    /\ ~GivesUp(s)
    /\ Only(s, [ws[s] EXCEPT !.expireTime = Elapse(ws[s].expireTime)])

DisconnectTime_Expiry == now + Tolerance
DisconnectTime == now

\* The session leaves: RemoveQueuedPlayer is called twice, with the session
\* still in m_sessions; then it is erased and deleted, which saves its player.
RemoveFromWorld(s) ==
    /\ s \in Registered
    /\ ~ws[s].socketOpen
    /\ GivesUp(s)
    /\ \E r1 \in {RemoveQueuedPlayer(m_QueuedPlayer, s, Cardinality(Registered))} :
       \E r2 \in {RemoveQueuedPlayer(r1.queue, s, Cardinality(Registered))} :
          /\ m_QueuedPlayer' = r2.queue
          /\ m_disconnects' = IF ~r1.found /\ Tolerance # 0
                              THEN [m_disconnects EXCEPT ![Account(s)] = DisconnectTime]
                              ELSE m_disconnects
          /\ ws' = [t \in Sessions |->
                      IF t = s THEN DeletedSession
                      ELSE AfterRemoval(r2, AfterRemoval(r1, ws[t], t), t)]
          /\ limitRaised' = (limitRaised /\ r2.queue # <<>>)
    /\ m_sessions' = [m_sessions EXCEPT ![Account(s)] = NoSession]
    /\ m_sessionsByBnetGuid' = m_sessionsByBnetGuid \ {s}
    /\ UNCHANGED <<addSessQueue, m_playerLimit, now>>

-----------------------------------------------------------------------------
(* What the session's packets and query callbacks do to its character.      *)

\* HandlePlayerLoginOpcode: refused while the session waits in the queue.
BeginLogin(s) ==
    /\ s \in Registered /\ ws[s].socketOpen
    /\ ~ws[s].inQueue
    /\ ws[s].player = "none"
    /\ Only(s, [ws[s] EXCEPT !.player = "loading"])

SetCharacter(s, from, to) ==
    /\ s \in Registered
    /\ ws[s].player = from
    /\ Only(s, [ws[s] EXCEPT !.player = to])

\* The character is loaded; the login is aborted; the player logs out.
HandlePlayerLogin(s) == SetCharacter(s, "loading", "world")
AbortLogin(s)        == SetCharacter(s, "loading", "none")
LogoutPlayer(s)      == SetCharacter(s, "world", "none")

\* WorldSession::KickPlayer (commands, bans, a character that does not load).
Kicked_NotForced(session) == [session EXCEPT !.socketOpen = FALSE]
Kicked(session) == [session EXCEPT !.socketOpen = FALSE, !.forceExit = TRUE]
KickPlayer(s) ==
    /\ s \in Registered
    /\ ~ws[s].forceExit
    /\ Only(s, Kicked(ws[s]))

\* HandlePlayerLogin when Player::LoadFromDB fails.
LoadFromDBFailed(s) ==
    /\ s \in Registered
    /\ ws[s].player = "loading"
    /\ Only(s, [Kicked(ws[s]) EXCEPT !.player = "none"])

\* World::KickAll, the first step of the shutdown.
KickAll ==
    /\ Registered # {}
    /\ m_QueuedPlayer' = <<>>
    /\ ws' = [s \in Sessions |-> IF s \in Registered THEN Kicked(ws[s]) ELSE ws[s]]
    /\ limitRaised' = FALSE
    /\ UNCHANGED <<addSessQueue, m_sessions, m_sessionsByBnetGuid, m_disconnects,
                   m_playerLimit, now>>

\* World::SetPlayerAmountLimit (.server plimit): the queue is not looked at.
SetPlayerAmountLimit(limit) ==
    /\ limit # m_playerLimit
    /\ m_playerLimit' = limit
    /\ limitRaised' = (limitRaised
                       \/ (m_QueuedPlayer # <<>> /\ (limit = 0 \/ limit > m_playerLimit)))
    /\ UNCHANGED <<addSessQueue, registerVars, ws, now>>

Tick ==
    /\ now < MaxTime
    /\ now' = now + 1
    /\ UNCHANGED <<addSessQueue, registerVars, ws, m_playerLimit, limitRaised>>

Next ==
    \/ \E s \in Sessions :
          \/ AddSession(s) \/ LoseConnection(s)
          \/ InitializeSessionCallback(s) \/ Linger(s) \/ RemoveFromWorld(s)
          \/ BeginLogin(s) \/ HandlePlayerLogin(s) \/ AbortLogin(s) \/ LogoutPlayer(s)
          \/ KickPlayer(s) \/ LoadFromDBFailed(s)
    \/ AddSession_
    \/ KickAll
    \/ \E limit \in Limits : SetPlayerAmountLimit(limit)
    \/ Tick

\* The order and the fairness of these steps are the world loop's: WorldShutdown.
Spec == Init /\ [][Next]_vars

-----------------------------------------------------------------------------
TypeOK ==
    /\ addSessQueue \in Seq(Sessions)
    /\ m_sessions \in [Accounts -> Sessions \cup {NoSession}]
    /\ m_sessionsByBnetGuid \subseteq Sessions
    /\ m_QueuedPlayer \in Seq(Sessions)
    /\ m_disconnects \in [Accounts -> 0..MaxTime \cup {NoTime}]
    /\ m_playerLimit \in Limits
    /\ now \in 0..MaxTime
    /\ ws \in [Sessions -> SessionType]
    /\ limitRaised \in BOOLEAN

\* Raw WorldSession pointers are kept in m_sessions, m_sessionsByBnetGuid,
\* m_QueuedPlayer and addSessQueue: none of them outlives the session, the two
\* indexes agree, and nobody is queued twice or without being registered.
NoDanglingSession ==
    /\ \A s \in Registered : ws[s].life = "live" /\ m_sessions[Account(s)] = s
    /\ m_sessionsByBnetGuid = Registered
    /\ Queued \subseteq Registered
    /\ \A i, j \in DOMAIN m_QueuedPlayer : m_QueuedPlayer[i] = m_QueuedPlayer[j] => i = j
    /\ \A s \in ToSet(addSessQueue) : ws[s].life = "live" /\ s \notin Registered

\* Every waiting client was told the position it has (RemoveQueuedPlayer tells
\* only part of the queue), and its packets are still refused.
PositionsTold ==
    \A i \in DOMAIN m_QueuedPlayer :
        LET session == ws[m_QueuedPlayer[i]] IN
        session.told = i /\ session.inQueue /\ session.player = "none"

\* Nobody waits while a slot is free, as long as the limit was not raised over
\* the heads of the waiting: every departure and every replaced session passes
\* its slot on.
NoIdleSlot ==
    m_QueuedPlayer # <<>> /\ ~limitRaised =>
        m_playerLimit # 0 /\ Cardinality(Active) >= m_playerLimit

\* A session that has to respect the limit becomes active only when, with it,
\* the world is within the limit; sessions that skip the queue in the same
\* step are not held against it.
Privileged(s) == Account(s) \in Staff \/ HasRecentlyDisconnected(s)
AdmittedWithinLimit ==
    [][LET admitted == {s \in Active' \ Active : ws'[s].initializing}
           ordinary == {s \in admitted : s \in Queued \/ ~Privileged(s)}
       IN ordinary # {} /\ m_playerLimit # 0 =>
             Cardinality(Active' \ (admitted \ ordinary)) <= m_playerLimit]_vars

\* The documentation of DisconnectToleranceInterval: "Tolerance (in seconds) for
\* disconnected players before reentering the queue."  Who enters a full world
\* without waiting disconnected less than Tolerance seconds ago.
ToleranceExpires ==
    [][\A s \in Active' \ Active :
          (/\ Account(s) \notin Staff /\ s \notin Queued
           /\ m_playerLimit # 0 /\ Cardinality(Active') > m_playerLimit)
          => /\ m_disconnects[Account(s)] # NoTime
             /\ now - m_disconnects[Account(s)] < Tolerance]_vars
=============================================================================
