---------------------------- MODULE SessionLogin ----------------------------
(***************************************************************************)
(* One WorldSession from the character screen into the world and back.      *)
(*                                                                          *)
(* A login takes two connections.  CMSG_PLAYER_LOGIN arrives on the realm   *)
(* connection; the server answers with SMSG_CONNECT_TO and a fresh key; the *)
(* client opens an instance connection with that key, or reports that it    *)
(* could not (CMSG_CONNECT_TO_FAILED) and is given another key, Attempts    *)
(* times at most.  A network thread queues the new socket for the world     *)
(* thread, which links it to the session (ProcessLinkInstanceSocket) and    *)
(* asks the database for the character; the answer is a callback of         *)
(* WorldSession::Update.  Meanwhile packets arrive: Update takes them from  *)
(* _recvQueue, from the world thread and again from the map's update.       *)
(*                                                                          *)
(* A character is named by the number of the choice that selected it, so a  *)
(* stale login of the same character is told from the current one.  A       *)
(* packet is received when it is sent: the client may send it later.        *)
(***************************************************************************)
EXTENDS Naturals, Sequences, FiniteSets, SequencesExt

CONSTANTS Attempts,     \* ConnectToSerial::WorldAttempt1..5
          Limit,        \* MAX_PROCESSED_PACKETS_IN_SAME_WORLDSESSION_UPDATE
          Patient,      \* the client gives up no connection the server has accepted
          MaxLogins,    \* bound: characters chosen
          MaxPackets,   \* bound: packets sent by the client's own will
          MaxMoves      \* bound: far teleports

ASSUME SessionLoginAssumption ==
    /\ Attempts \in Nat \ {0} /\ Limit \in Nat /\ Patient \in BOOLEAN
    /\ MaxLogins \in Nat /\ MaxPackets \in Nat /\ MaxMoves \in Nat

None == 0                             \* no character, no key
Realm == 0                            \* the realm connection
Keys == 1..(MaxLogins * Attempts)     \* _instanceConnectKey, drawn afresh each time
Conns == {Realm} \cup Keys            \* an instance connection is named by its key
Logins == 1..MaxLogins
Serials == 1..Attempts

\* Status and ProcessingPlace of the opcodes the model tells apart.
Status == [enum |-> "authed", login |-> "authed", safe |-> "loggedin", logout |-> "loggedin",
           cancel |-> "loggedin", trade |-> "recently", worldport |-> "transfer"]
Kinds == DOMAIN Status
ThreadSafe == {"safe"}

VARIABLES
    session,     \* the WorldSession
    sock,        \* connection -> state of its WorldSocket
    linkQueue,   \* World::_linkSocketQueue
    holders,     \* login queries under way
    recvQueue,   \* _recvQueue
    requeue,     \* requeuePackets of the Update under way
    processed,   \* processedPackets
    pc,          \* where the world thread is
    toClient,    \* messages on their way to the client
    client,      \* the client
    moves,       \* far teleports still to come
    last         \* history: the packet last handled for a character, and that character

updateVars == <<requeue, processed, pc>>
vars == <<session, sock, linkQueue, holders, recvQueue, updateVars, toClient, client, moves, last>>

\* "open": no session yet; "linked": _worldSession is set.
SocketStates == {"none", "open", "linked", "closed"}
IsOpen(c) == sock[c] \in {"open", "linked"}

TypeOK ==
    /\ session \in [alive : BOOLEAN, loading : {None} \cup Logins, player : {None} \cup Logins,
                    inWorld : BOOLEAN, recent : BOOLEAN, leaving : BOOLEAN, force : BOOLEAN,
                    key : {None} \cup Keys, inst : {None} \cup Keys]
    /\ sock \in [Conns -> SocketStates]
    /\ linkQueue \in Seq(Keys)
    /\ holders \subseteq [key : Keys, login : Logins]
    /\ \A q \in {recvQueue, requeue} : q \in Seq([kind : Kinds, login : {None} \cup Logins, n : Nat])
    /\ processed \in 0..(Limit + 1)
    /\ pc \in {"links", "world", "worldCallbacks", "cleanup", "map", "mapCallbacks"}
    /\ client \in [at : {"left", "select", "login", "in"}, login : {None} \cup Logins,
                   key : {None} \cup Keys, serial : {None} \cup Serials, sent : Nat]
    /\ moves \in 0..MaxMoves

Init ==
    /\ session = [alive |-> TRUE, loading |-> None, player |-> None, inWorld |-> FALSE,
                  recent |-> FALSE, leaving |-> FALSE, force |-> FALSE,
                  key |-> None, inst |-> None]
    /\ sock = [c \in Conns |-> IF c = Realm THEN "linked" ELSE "none"]
    /\ linkQueue = <<>> /\ holders = {} /\ recvQueue = <<>>
    /\ requeue = <<>> /\ processed = 0 /\ pc = "links"
    /\ toClient = <<>>
    /\ client = [at |-> "left", login |-> None, key |-> None, serial |-> None, sent |-> 0]
    /\ moves = MaxMoves
    /\ last = [n |-> 0, login |-> None, player |-> None]

-----------------------------------------------------------------------------
(* Sockets and messages.                                                    *)

\* CloseSocket of each; OnClose clears _worldSession before it returns.
Closed(conns) ==
    [c \in Conns |-> IF c \in conns /\ IsOpen(c) THEN "closed" ELSE sock[c]]

InstanceSocket == {session.inst} \ {None}
BothSockets == {Realm} \cup InstanceSocket

Message(type, key, serial) == [type |-> type, key |-> key, serial |-> serial]
Sent(message) == IF IsOpen(Realm) THEN Append(toClient, message) ELSE toClient

\* SendConnectToInstance: a new key, and only this one is good from now on.
SendConnectToInstance(s, serial) ==
    /\ session' = [s EXCEPT !.key = @ + 1]
    /\ toClient' = Sent(Message("connectTo", session.key + 1, serial))

\* Both sockets are closed, the session goes at its next cleanup.
KickPlayer(s) ==
    /\ session' = [s EXCEPT !.force = TRUE]
    /\ sock' = Closed(BothSockets)

\* The character leaves the world, and the instance connection with it.
LogoutCloses_Nothing == {}
LogoutCloses == InstanceSocket
LoggedOut_NotRecent(s) ==
    [s EXCEPT !.player = None, !.inWorld = FALSE, !.leaving = FALSE, !.inst = None]
LoggedOut(s) ==
    [s EXCEPT !.player = None, !.inWorld = FALSE, !.recent = TRUE, !.leaving = FALSE, !.inst = None]
LogoutPlayer ==
    /\ session' = LoggedOut(session)
    /\ sock' = Closed(LogoutCloses)
    /\ toClient' = Sent(Message("logoutComplete", None, None))

-----------------------------------------------------------------------------
(* World thread: World::UpdateSessions first links the new connections.     *)

KeyIsCurrent_AnyKey(k) == session.alive
KeyIsCurrent(k) == session.alive /\ session.key = k

\* HandleContinuePlayerLogin, after AddInstanceConnection.
HandleContinuePlayerLogin(k) ==
    LET s == [session EXCEPT !.inst = k]
    IN  IF session.loading = None \/ session.player # None
        THEN /\ session' = [s EXCEPT !.force = TRUE]
             /\ sock' = Closed({Realm, k})
             /\ UNCHANGED <<holders, toClient>>
        ELSE /\ session' = s
             /\ sock' = [sock EXCEPT ![k] = "linked"]
             /\ holders' = holders \cup {[key |-> k, login |-> session.loading]}
             /\ toClient' = Sent(Message("resumeComms", k, None))

ProcessLinkInstanceSocket ==
    /\ pc = "links" /\ linkQueue # <<>>
    /\ linkQueue' = Tail(linkQueue)
    /\ LET k == Head(linkQueue)
       IN  IF ~IsOpen(k) THEN UNCHANGED <<session, sock, holders, toClient>>
           ELSE IF ~KeyIsCurrent(k)
           THEN sock' = Closed({k}) /\ UNCHANGED <<session, holders, toClient>>
           ELSE HandleContinuePlayerLogin(k)
    /\ UNCHANGED <<recvQueue, updateVars, client, moves, last>>

\* WorldSession::Update begins: a connection that has been idle for too long is closed.
BeginUpdate(at, isIdle) ==
    /\ pc' = at /\ processed' = 0 /\ requeue' = <<>>
    /\ sock' = IF isIdle THEN Closed({Realm}) ELSE sock

BeginWorldUpdate(isIdle) ==
    /\ pc = "links" /\ linkQueue = <<>> /\ session.alive
    /\ BeginUpdate("world", isIdle)
    /\ UNCHANGED <<session, linkQueue, holders, recvQueue, toClient, client, moves, last>>

-----------------------------------------------------------------------------
(* WorldSession::Update: the packets.                                       *)

InWorld == session.player # None /\ session.inWorld

\* WorldSessionFilter and MapSessionFilter.
Passes(p) ==
    IF pc = "world" THEN p.kind \notin ThreadSafe \/ ~InWorld
    ELSE p.kind \in ThreadSafe /\ InWorld

\* STATUS_LOGGEDIN before the character is there: kept for later.
IsEarly(p) == Status[p.kind] = "loggedin" /\ session.player = None /\ ~session.recent

\* The handler is called, unless AntiDOS objects.
IsCallable(p) ==
    CASE Status[p.kind] = "loggedin" -> InWorld
      [] Status[p.kind] = "recently" -> session.player # None \/ session.recent
      [] Status[p.kind] = "transfer" -> session.player # None /\ ~session.inWorld
      [] Status[p.kind] = "authed"   -> TRUE

\* The packet queue is empty, or its head must wait, or enough were processed.
HasNext == recvQueue # <<>> /\ Passes(Head(recvQueue)) /\ processed <= Limit

NextPacket(count) ==
    /\ pc \in {"world", "map"} /\ HasNext
    /\ recvQueue' = Tail(recvQueue)
    /\ processed' = count
    /\ UNCHANGED <<linkQueue, holders, pc, client>>

RequeuePacket ==
    /\ NextPacket(processed + 1) /\ IsEarly(Head(recvQueue))
    /\ requeue' = Append(requeue, Head(recvQueue))
    /\ UNCHANGED <<session, sock, toClient, moves, last>>

\* Late, unexpected, or for a character in transfer.
DropPacket ==
    /\ NextPacket(processed + 1)
    /\ ~IsEarly(Head(recvQueue)) /\ ~IsCallable(Head(recvQueue))
    /\ UNCHANGED <<session, sock, requeue, toClient, moves, last>>

\* CMSG_ENUM_CHARACTERS ends the logout.
Dispatched(kind) == IF kind = "enum" THEN [session EXCEPT !.recent = FALSE] ELSE session

HandlePlayerLoginOpcode(login) ==
    IF session.loading # None \/ session.player # None
    THEN KickPlayer(session) /\ UNCHANGED toClient
    ELSE SendConnectToInstance([session EXCEPT !.loading = login], 1) /\ UNCHANGED sock

\* Refused; at once; or in 20 seconds.
HandleLogoutRequestOpcode ==
    \/ session' = [session EXCEPT !.leaving = FALSE] /\ UNCHANGED <<sock, toClient>>
    \/ LogoutPlayer
    \/ session' = [session EXCEPT !.leaving = TRUE] /\ UNCHANGED <<sock, toClient>>

\* TeleportTo another map: the client is told and must answer.
TeleportTo(s) ==
    /\ moves > 0 /\ moves' = moves - 1
    /\ session' = [s EXCEPT !.inWorld = FALSE]
    /\ toClient' = Sent(Message("transfer", None, None))

\* The new map; the homebind, if it cannot be entered; nowhere, if there is no such place.
HandleMoveWorldportAck ==
    \/ session' = [session EXCEPT !.inWorld = TRUE] /\ UNCHANGED <<sock, toClient, moves>>
    \/ TeleportTo(session) /\ UNCHANGED sock
    \/ LogoutPlayer /\ UNCHANGED moves

Handler(p) ==
    CASE p.kind = "login"     -> HandlePlayerLoginOpcode(p.login) /\ UNCHANGED moves
      [] p.kind = "logout"    -> HandleLogoutRequestOpcode /\ UNCHANGED moves
      [] p.kind = "worldport" -> HandleMoveWorldportAck
      [] p.kind = "cancel"    -> /\ session' = [session EXCEPT !.leaving = FALSE]
                                 /\ UNCHANGED <<sock, toClient, moves>>
      [] p.kind \in {"enum", "safe", "trade"} ->
             session' = Dispatched(p.kind) /\ UNCHANGED <<sock, toClient, moves>>

HandlePacket ==
    /\ NextPacket(processed + 1) /\ IsCallable(Head(recvQueue))
    /\ Handler(Head(recvQueue))
    /\ last' = IF Status[Head(recvQueue).kind] \in {"authed", "recently"} THEN last
               ELSE [n |-> Head(recvQueue).n, login |-> Head(recvQueue).login, player |-> session.player]
    /\ UNCHANGED requeue

\* DosProtection::EvaluateOpcode kicks, and the loop ends.
RefusePacket ==
    /\ NextPacket(Limit + 1) /\ IsCallable(Head(recvQueue))
    /\ KickPlayer(Dispatched(Head(recvQueue).kind))
    /\ UNCHANGED <<requeue, toClient, moves, last>>

\* LockedQueue::readd.
Readd_Back(packets) == recvQueue \o packets
Readd(packets) == packets \o recvQueue

EndPackets ==
    /\ pc \in {"world", "map"} /\ ~HasNext
    /\ recvQueue' = Readd(requeue)
    /\ requeue' = <<>> /\ processed' = 0
    /\ pc' = IF pc = "world" THEN "worldCallbacks" ELSE "mapCallbacks"
    /\ UNCHANGED <<session, sock, linkQueue, holders, toClient, client, moves, last>>

-----------------------------------------------------------------------------
(* WorldSession::Update: the callbacks, the logout and the cleanup.         *)

LoginFailed ==
    /\ KickPlayer([session EXCEPT !.player = None, !.loading = None])
    /\ UNCHANGED <<toClient, moves>>

LoginSucceeded(h) ==
    LET s == [session EXCEPT !.player = h.login, !.loading = None, !.inWorld = TRUE]
    IN  /\ UNCHANGED sock
        /\ \/ session' = s /\ UNCHANGED <<toClient, moves>>
           \/ TeleportTo(s)          \* the map does not take him

HandlePlayerLogin ==
    /\ pc \in {"worldCallbacks", "mapCallbacks"}
    /\ \E h \in holders :
        /\ holders' = holders \ {h}
        /\ LoginFailed \/ LoginSucceeded(h)
    /\ UNCHANGED <<linkQueue, recvQueue, updateVars, client, last>>

EndCallbacks ==
    /\ pc \in {"worldCallbacks", "mapCallbacks"}
    /\ pc' = IF pc = "worldCallbacks" THEN "cleanup" ELSE "links"
    /\ UNCHANGED <<session, sock, linkQueue, holders, recvQueue, requeue, processed, toClient,
                   client, moves, last>>

\* ShouldLogOut: 20 seconds after the request.
LogoutWhenDue ==
    /\ pc = "cleanup" /\ session.leaving /\ session.loading = None
    /\ LogoutPlayer
    /\ UNCHANGED <<linkQueue, holders, recvQueue, updateVars, client, moves, last>>

ConnectionLost == \E c \in BothSockets : ~IsOpen(c)
MustEnd_NotLoading == session.loading = None /\ (session.force \/ session.player = None)
MustEnd == session.force \/ session.player = None

\* ~WorldSession: the character is saved and both connections closed.
DeleteSession ==
    /\ pc = "cleanup" /\ ConnectionLost
    /\ MustEnd \/ session.player # None      \* the latter when expireTime is over
    /\ session' = [LoggedOut(session) EXCEPT !.alive = FALSE, !.loading = None]
    /\ sock' = Closed(BothSockets)
    /\ recvQueue' = <<>> /\ holders' = {} /\ pc' = "links"
    /\ UNCHANGED <<linkQueue, requeue, processed, toClient, client, moves, last>>

\* The session stays; a character in the world is updated again by its map.
EndWorldUpdate ==
    /\ pc = "cleanup" /\ ~(ConnectionLost /\ MustEnd)
    /\ IF InWorld THEN \E isIdle \in BOOLEAN : BeginUpdate("map", isIdle)
       ELSE pc' = "links" /\ UNCHANGED <<requeue, processed, sock>>
    /\ UNCHANGED <<session, linkQueue, holders, recvQueue, toClient, client, moves, last>>

\* The map moves the character elsewhere.
FarTeleport ==
    /\ pc = "map" /\ InWorld
    /\ TeleportTo(session)
    /\ UNCHANGED <<sock, linkQueue, holders, recvQueue, updateVars, client, last>>

WorldThread ==
    \/ ProcessLinkInstanceSocket \/ \E isIdle \in BOOLEAN : BeginWorldUpdate(isIdle)
    \/ RequeuePacket \/ DropPacket \/ HandlePacket \/ RefusePacket \/ EndPackets
    \/ HandlePlayerLogin \/ EndCallbacks \/ LogoutWhenDue \/ DeleteSession \/ EndWorldUpdate
    \/ FarTeleport

-----------------------------------------------------------------------------
(* Network threads.                                                         *)

\* ReadDataHandler on a linked connection.
QueuePacket(kind, c) ==
    recvQueue' = Append(recvQueue, [kind |-> kind, login |-> c.login, n |-> c.sent])

AbortLogin ==
    IF session.loading = None \/ session.player # None
    THEN KickPlayer(session) /\ UNCHANGED toClient
    ELSE /\ session' = [session EXCEPT !.loading = None]
         /\ toClient' = Sent(Message("loginFailed", None, None))
         /\ UNCHANGED sock

HandleConnectToFailed(serial) ==
    IF session.loading = None THEN UNCHANGED <<session, sock, toClient>>
    ELSE IF serial < Attempts THEN SendConnectToInstance(session, serial + 1) /\ UNCHANGED sock
    ELSE AbortLogin

\* The network thread notices that a connection is gone.  It is the only one to use
\* _worldSession, and OnClose clears it before the thread reads on.
Disconnect(c) ==
    /\ IsOpen(c)
    /\ sock' = Closed({c})
    /\ UNCHANGED <<session, linkQueue, holders, recvQueue, updateVars, toClient, client, moves, last>>

-----------------------------------------------------------------------------
(* The client.                                                              *)

Online == sock[Realm] = "linked"

ClientSends(kind, c) ==
    /\ client' = c
    /\ QueuePacket(kind, c)
    /\ UNCHANGED <<session, sock, linkQueue, holders, updateVars, moves, last>>

Enumerate ==
    /\ Online /\ client.at = "left"
    /\ ClientSends("enum", [client EXCEPT !.at = "select"])
    /\ UNCHANGED toClient

ChooseCharacter ==
    /\ Online /\ client.at = "select" /\ client.login < MaxLogins
    /\ ClientSends("login", [client EXCEPT !.at = "login", !.login = @ + 1, !.key = None, !.serial = None])
    /\ UNCHANGED toClient

\* In the world, or on its way: packets on the instance connection.
Play ==
    /\ client.at = "in" /\ sock[client.key] = "linked" /\ client.sent < MaxPackets
    /\ \E kind \in {"safe", "logout", "cancel"} :
           ClientSends(kind, [client EXCEPT !.sent = @ + 1])
    /\ UNCHANGED toClient

\* "Client will respond by sending CMSG_CANCEL_TRADE".
CancelTrade ==
    /\ Online /\ client.at = "left" /\ session.player = None /\ client.sent < MaxPackets
    /\ ClientSends("trade", [client EXCEPT !.sent = @ + 1])
    /\ UNCHANGED toClient

Receive ==
    /\ toClient # <<>>
    /\ toClient' = Tail(toClient)
    /\ LET m == Head(toClient)
           c == CASE m.type = "connectTo"      -> [client EXCEPT !.key = m.key, !.serial = m.serial]
                  [] m.type = "resumeComms"    -> [client EXCEPT !.at = "in"]
                  [] m.type = "loginFailed"    -> [client EXCEPT !.at = "select"]
                  [] m.type = "logoutComplete" -> [client EXCEPT !.at = "left"]
                  [] m.type = "transfer"       -> [client EXCEPT !.sent = @ + 1]
       IN  IF m.type = "transfer" /\ sock[client.key] = "linked"
           THEN ClientSends("worldport", c)
           ELSE /\ client' = c
                /\ UNCHANGED <<session, sock, linkQueue, holders, recvQueue, updateVars, moves, last>>

Connecting == Online /\ client.at = "login" /\ client.key # None

\* The client connects with the key it was given.  HandleAuthContinuedSession checks the
\* account, HandleEnterEncryptedModeAck queues the connection for the world thread; one
\* that is refused or lost before that is one that was never made.
ConnectInstance ==
    /\ Connecting /\ sock[client.key] = "none"
    /\ sock' = [sock EXCEPT ![client.key] = "open"]
    /\ linkQueue' = Append(linkQueue, client.key)
    /\ UNCHANGED <<session, holders, recvQueue, updateVars, toClient, client, moves, last>>

\* The client reports that it could not connect, and waits for the next key.
GiveUp ==
    /\ Connecting
    /\ Patient => \A i \in DOMAIN toClient : toClient[i].type # "resumeComms"
    /\ client' = [client EXCEPT !.key = None]
    /\ HandleConnectToFailed(client.serial)
    /\ UNCHANGED <<linkQueue, holders, recvQueue, updateVars, moves, last>>

Client == Enumerate \/ ChooseCharacter \/ Play \/ CancelTrade \/ Receive \/ ConnectInstance \/ GiveUp

Next ==
    \/ WorldThread \/ Client
    \/ \E c \in Conns : Disconnect(c)

\* The world thread runs, and finds in the end that a connection without a character
\* has been idle for too long: keep-alives do not reset its timer.
Fairness ==
    /\ WF_vars(WorldThread)
    /\ SF_vars(session.player = None /\ BeginWorldUpdate(TRUE))

Spec == Init /\ [][Next]_vars /\ Fairness

-----------------------------------------------------------------------------
(* Properties.                                                              *)

\* A packet that is handled for a character was sent while that character was
\* chosen, and packets are handled in the order in which they were sent: those that
\* came too early and were put back (WorldSession::Update) are overtaken by none,
\* and what is left of one character never reaches the next.
HandledInOrder ==
    [][last' # last => last'.n > last.n /\ last'.login = last'.player]_last

\* An account has one character online at a time (LogoutPlayer): one login query at
\* most is under way, only while no character is there, and for the character chosen
\* last; whatever the keys of earlier attempts, retries and late connections.
OneCharacterOnline ==
    /\ Cardinality(holders) <= 1
    /\ \A h \in holders : session.player = None /\ session.loading = h.login
    /\ session.player # None => session.loading = None /\ session.player = client.login

\* A network thread finds in no open WorldSocket the pointer to a deleted session,
\* and no session is told that its connections are gone while one of them still
\* feeds it: the linked connections are the session's own.
NoDanglingSessionPointer ==
    \A c \in Conns : sock[c] = "linked" => session.alive /\ c \in BothSockets

\* A login that was begun comes to an end: the character enters, the login is
\* given up, or the session goes.  A client that never connects holds its account
\* for no longer than the idle timer.
LoadingEnds == session.loading # None ~> session.loading = None
=============================================================================
