-------------------------- MODULE SessionLoginProofs --------------------------
(***************************************************************************)
(* Proofs about SessionLogin, for any number of logins, attempts, packets   *)
(* and teleports and for a client that gives up no connection the server    *)
(* has accepted (Patient): an account has one character online, no          *)
(* connection keeps the address of a deleted session, and packets are       *)
(* handled in the order in which they were sent, for their own character.   *)
(*                                                                         *)
(* They hold because client and server are in step while the realm          *)
(* connection is there: what is on its way between them (a login, a key, an *)
(* answer) says in which phase of the login each of them is.                *)
(***************************************************************************)
EXTENDS SessionLogin, SequenceTheorems, FiniteSetTheorems, TLAPS

-----------------------------------------------------------------------------
(* The inductive invariant.                                                 *)

Messages == [type : {"connectTo", "resumeComms", "loginFailed", "logoutComplete", "transfer"},
             key : {None} \cup Keys, serial : {None} \cup Serials]
Packets == [kind : Kinds, login : {None} \cup Logins, n : Nat]
SessionRec == [alive : BOOLEAN, loading : {None} \cup Logins, player : {None} \cup Logins,
               inWorld : BOOLEAN, recent : BOOLEAN, leaving : BOOLEAN, force : BOOLEAN,
               key : {None} \cup Keys, inst : {None} \cup Keys]

\* Types, of the messages too.
Types == TypeOK /\ toClient \in Seq(Messages)

\* The server's part of a login: nothing, a key was given, a connection was
\* accepted (the query is under way, or the character is there).
Idle == session.loading = None /\ session.player = None
Waiting == session.loading # None /\ holders = {}
Accepted == holders # {} \/ session.player # None

\* Logins still to be handled.
NoLogin(q) == \A i \in 1..Len(q) : q[i].kind # "login"
OneLogin(q, login) ==
    \E i \in 1..Len(q) : /\ q[i].kind = "login" /\ q[i].login = login
                         /\ \A j \in 1..Len(q) : q[j].kind = "login" => j = i

\* What the session knows agrees with itself and with the client's choice.
ServerInv ==
    /\ \A g, h \in holders : g = h
    /\ \A h \in holders : session.player = None /\ session.loading = h.login
    /\ session.player # None => session.loading = None /\ session.player = client.login
    /\ session.loading # None => session.loading = client.login
    /\ session.leaving => session.player # None

\* Which connections there are: the accepted one has the current key, the
\* linked ones belong to the session, those that wait to be linked are new.
ConnInv ==
    /\ Accepted => /\ session.key # None /\ session.inst = session.key
                   /\ sock[session.key] \in {"linked", "closed"}
    /\ \A k \in Keys : sock[k] = "linked" => session.alive /\ Accepted /\ k = session.inst
    /\ sock[Realm] \in {"linked", "closed"}
    /\ sock[Realm] = "linked" => session.alive
    /\ \A i \in 1..Len(linkQueue) : sock[linkQueue[i]] \in {"open", "closed"}
    /\ \A i, j \in 1..Len(linkQueue) : linkQueue[i] = linkQueue[j] => i = j
    /\ \A k \in Keys : k > session.key => sock[k] = "none"

\* Keys and logins are counted; a login that waits to be handled finds the
\* session idle and a key left for each attempt.
CountInv ==
    /\ session.key <= client.login * Attempts
    /\ NoLogin(requeue)
    /\ \/ NoLogin(recvQueue)
       \/ /\ OneLogin(recvQueue, client.login) /\ Idle /\ client.login # None
          /\ session.key <= (client.login - 1) * Attempts

-----------------------------------------------------------------------------
(* The phases of a login, as long as the realm connection is there.         *)

Away ==
    /\ client.at \in {"left", "select"} /\ Idle /\ NoLogin(recvQueue)
    /\ toClient = <<>>
Asked ==
    /\ client.at = "login" /\ Idle /\ OneLogin(recvQueue, client.login)
    /\ client.key = None /\ toClient = <<>>
Offered ==
    /\ client.at = "login" /\ Waiting /\ NoLogin(recvQueue)
    /\ client.key = None /\ session.key # None /\ sock[session.key] = "none"
    /\ \E s \in Serials : /\ toClient = <<Message("connectTo", session.key, s)>>
                          /\ session.key <= (client.login - 1) * Attempts + s
Trying ==
    /\ client.at = "login" /\ Waiting /\ NoLogin(recvQueue)
    /\ client.key = session.key /\ client.serial # None
    /\ session.key <= (client.login - 1) * Attempts + client.serial
    /\ toClient = <<>>
Entering ==
    /\ client.at = "login" /\ Accepted /\ NoLogin(recvQueue) /\ client.key = session.key
    /\ toClient # <<>> /\ toClient[1].type = "resumeComms"
    /\ \A i \in 1..Len(toClient) : i # 1 => toClient[i].type = "transfer"
Playing ==
    /\ client.at = "in" /\ Accepted /\ NoLogin(recvQueue)
    /\ \A i \in 1..Len(toClient) : toClient[i].type = "transfer"
Leaving ==
    /\ Idle /\ NoLogin(recvQueue)
    /\ client.at = "login" => client.key = session.key
    /\ toClient # <<>> /\ toClient[Len(toClient)].type = "logoutComplete"
    /\ \/ client.at = "in"
       \/ client.at = "login" /\ toClient[1].type = "resumeComms"
    /\ \A i \in 1..Len(toClient) : i # Len(toClient) =>
          toClient[i].type = (IF i = 1 /\ client.at = "login" THEN "resumeComms" ELSE "transfer")
Aborted ==
    /\ client.at = "login" /\ Idle /\ NoLogin(recvQueue) /\ client.key = None
    /\ toClient = <<Message("loginFailed", None, None)>>

Phase == \/ Away \/ Asked \/ Offered \/ Trying \/ Entering \/ Playing \/ Leaving \/ Aborted

PhaseInv == sock[Realm] = "linked" => Phase

IndInv == Types /\ ServerInv /\ ConnInv /\ CountInv /\ PhaseInv

-----------------------------------------------------------------------------
(* Queues and numbers.                                                      *)

\* One packet more.
LEMMA AppendLogin ==
    ASSUME NEW q \in Seq(Packets), NEW m \in Packets, NEW login
    PROVE  /\ m.kind # "login" /\ NoLogin(q) => NoLogin(Append(q, m))
           /\ m.kind # "login" /\ OneLogin(q, login) => OneLogin(Append(q, m), login)
           /\ m.kind = "login" /\ m.login = login /\ NoLogin(q) => OneLogin(Append(q, m), login)
<1>0. PICK a : a = Append(q, m)
  OBVIOUS
<1>1. /\ Len(a) = Len(q) + 1 /\ Len(q) \in Nat /\ a[Len(q) + 1] = m
      /\ \A i \in 1..Len(q) : a[i] = q[i]
  BY <1>0, AppendProperties
<1>2. /\ Len(q) + 1 \in 1..Len(a) /\ \A i \in 1..Len(q) : i \in 1..Len(a)
      /\ \A i \in 1..Len(a) : i \in 1..Len(q) \/ i = Len(q) + 1
  BY <1>1
<1>3. m.kind # "login" /\ NoLogin(q) => NoLogin(a)
  BY <1>1, <1>2 DEF NoLogin
<1>4. ASSUME m.kind # "login", OneLogin(q, login) PROVE OneLogin(a, login)
  <2>1. PICK i \in 1..Len(q) : /\ q[i].kind = "login" /\ q[i].login = login
                               /\ \A j \in 1..Len(q) : q[j].kind = "login" => j = i
    BY <1>4 DEF OneLogin
  <2>2. \A j \in 1..Len(a) : a[j].kind = "login" => j = i
    BY <1>1, <1>2, <1>4, <2>1
  <2> QED BY <1>1, <1>2, <2>1, <2>2 DEF OneLogin
<1>5. ASSUME m.kind = "login", m.login = login, NoLogin(q) PROVE OneLogin(a, login)
  <2>1. \A j \in 1..Len(a) : a[j].kind = "login" => j = Len(q) + 1
    BY <1>1, <1>2, <1>5 DEF NoLogin
  <2> QED BY <1>1, <1>2, <1>5, <2>1 DEF OneLogin
<1> QED BY <1>0, <1>3, <1>4, <1>5

\* The first packet is taken.
LEMMA TailLogin ==
    ASSUME NEW q \in Seq(Packets), q # <<>>, NEW login
    PROVE  /\ Head(q) \in Packets /\ Tail(q) \in Seq(Packets)
           /\ NoLogin(q) => NoLogin(Tail(q)) /\ Head(q).kind # "login"
           /\ Head(q).kind # "login" /\ OneLogin(q, login) => OneLogin(Tail(q), login)
           /\ Head(q).kind = "login" /\ OneLogin(q, login) =>
                 NoLogin(Tail(q)) /\ Head(q).login = login
<1>0. PICK t : t = Tail(q)
  OBVIOUS
<1>1. /\ Head(q) \in Packets /\ t \in Seq(Packets) /\ Head(q) = q[1]
      /\ Len(t) = Len(q) - 1 /\ \A i \in 1..(Len(q) - 1) : t[i] = q[i + 1]
  BY <1>0, HeadTailProperties
<1>2. Len(q) \in Nat /\ Len(q) # 0
  BY EmptySeq
<1>3. /\ 1 \in 1..Len(q)
      /\ \A i \in 1..Len(t) : i + 1 \in 1..Len(q) /\ i + 1 # 1 /\ t[i] = q[i + 1]
      /\ \A i \in 1..Len(q) : i # 1 => i - 1 \in 1..Len(t) /\ (i - 1) + 1 = i
  BY <1>1, <1>2
<1>4. NoLogin(q) => NoLogin(t) /\ Head(q).kind # "login"
  BY <1>1, <1>3 DEF NoLogin
<1>5. ASSUME NEW k \in 1..Len(q), q[k].kind = "login", q[k].login = login,
             \A j \in 1..Len(q) : q[j].kind = "login" => j = k
      PROVE  /\ Head(q).kind # "login" => OneLogin(t, login)
             /\ Head(q).kind = "login" => NoLogin(t) /\ Head(q).login = login
  <2>1. ASSUME Head(q).kind # "login" PROVE OneLogin(t, login)
    <3>1. k # 1
      BY <1>1, <1>5, <2>1
    <3>2. k - 1 \in 1..Len(t) /\ (k - 1) + 1 = k /\ t[k - 1] = q[k]
      BY <1>3, <3>1
    <3>3. ASSUME NEW j \in 1..Len(t), t[j].kind = "login" PROVE j = k - 1
      <4>1. j + 1 = k /\ j \in Nat
        BY <1>3, <1>5, <3>3
      <4> QED BY <4>1
    <3> QED BY <1>5, <3>2, <3>3 DEF OneLogin
  <2>2. ASSUME Head(q).kind = "login" PROVE NoLogin(t) /\ Head(q).login = login
    BY <1>1, <1>3, <1>5, <2>2 DEF NoLogin
  <2> QED BY <2>1, <2>2
<1>6. /\ Head(q).kind # "login" /\ OneLogin(q, login) => OneLogin(t, login)
      /\ Head(q).kind = "login" /\ OneLogin(q, login) => NoLogin(t) /\ Head(q).login = login
  BY <1>5 DEF OneLogin
<1> QED BY <1>0, <1>1, <1>4, <1>6

\* Packets without a login are put back in front.
LEMMA ConcatLogin ==
    ASSUME NEW r \in Seq(Packets), NEW q \in Seq(Packets), NoLogin(r), NEW login
    PROVE  /\ r \o q \in Seq(Packets)
           /\ NoLogin(q) => NoLogin(r \o q)
           /\ OneLogin(q, login) => OneLogin(r \o q, login)
<1>0. PICK a : a = r \o q
  OBVIOUS
<1>1. /\ a \in Seq(Packets) /\ Len(a) = Len(r) + Len(q) /\ Len(r) \in Nat /\ Len(q) \in Nat
      /\ \A i \in 1..(Len(r) + Len(q)) : a[i] = IF i <= Len(r) THEN r[i] ELSE q[i - Len(r)]
  BY <1>0, ConcatProperties
<1>2. ASSUME NEW i \in 1..Len(a), a[i].kind = "login"
      PROVE  i - Len(r) \in 1..Len(q) /\ a[i] = q[i - Len(r)]
  <2>1. ~(i <= Len(r))
    BY <1>1, <1>2 DEF NoLogin
  <2> QED BY <1>1, <2>1
<1>3. \A k \in 1..Len(q) : k + Len(r) \in 1..Len(a) /\ a[k + Len(r)] = q[k]
  <2> SUFFICES ASSUME NEW k \in 1..Len(q)
               PROVE  k + Len(r) \in 1..Len(a) /\ a[k + Len(r)] = q[k]
    OBVIOUS
  <2>1. k + Len(r) \in 1..Len(a) /\ ~(k + Len(r) <= Len(r)) /\ (k + Len(r)) - Len(r) = k
    BY <1>1
  <2> QED BY <1>1, <2>1
<1>4. NoLogin(q) => NoLogin(a)
  BY <1>2 DEF NoLogin
<1>5. ASSUME OneLogin(q, login) PROVE OneLogin(a, login)
  <2>1. PICK k \in 1..Len(q) : /\ q[k].kind = "login" /\ q[k].login = login
                               /\ \A j \in 1..Len(q) : q[j].kind = "login" => j = k
    BY <1>5 DEF OneLogin
  <2>2. k + Len(r) \in 1..Len(a) /\ a[k + Len(r)] = q[k]
    BY <1>3
  <2>3. ASSUME NEW j \in 1..Len(a), a[j].kind = "login" PROVE j = k + Len(r)
    <3>1. j - Len(r) = k
      BY <1>2, <2>1, <2>3
    <3> QED BY <1>1, <3>1
  <2> QED BY <2>1, <2>2, <2>3 DEF OneLogin
<1> QED BY <1>0, <1>1, <1>4, <1>5

\* A login has Attempts keys.
LEMMA KeyCount ==
    ASSUME NEW login \in Logins
    PROVE  /\ (login - 1) * Attempts \in Nat /\ login * Attempts \in Nat
           /\ login * Attempts = (login - 1) * Attempts + Attempts
           /\ login * Attempts <= MaxLogins * Attempts
<1>1. /\ login \in Nat /\ login - 1 \in Nat /\ Attempts \in Nat /\ MaxLogins \in Nat
      /\ MaxLogins - login \in Nat
  BY SessionLoginAssumption DEF Logins
<1>2. (login - 1) * Attempts \in Nat /\ login * Attempts \in Nat /\ (MaxLogins - login) * Attempts \in Nat
  BY <1>1
<1>3. login * Attempts = (login - 1) * Attempts + Attempts
  BY <1>1
<1>4. MaxLogins * Attempts = login * Attempts + (MaxLogins - login) * Attempts
  BY <1>1
<1>5. MaxLogins * Attempts \in Nat
  BY <1>1
<1> QED BY <1>2, <1>3, <1>4, <1>5

-----------------------------------------------------------------------------
(* Steps that leave the login where it is.                                  *)

\* The fields' types.
LEMMA Fields ==
    ASSUME Types
    PROVE  /\ session.key \in Nat /\ session.key \in {None} \cup Keys /\ session.key \in Conns
           /\ session.inst \in {None} \cup Keys
           /\ session.loading \in {None} \cup Logins /\ session.player \in {None} \cup Logins
           /\ client.login \in {None} \cup Logins /\ client.key \in {None} \cup Keys
           /\ client.serial \in {None} \cup Serials
           /\ Realm \in Conns /\ Keys \subseteq Conns /\ None \notin Logins /\ Realm \notin Keys
           /\ \A c \in Conns : sock[c] \in SocketStates
           /\ \A h \in holders : h.key \in Keys /\ h.login \in Logins
<1>1. MaxLogins * Attempts \in Nat /\ MaxLogins \in Nat
  BY SessionLoginAssumption
<1>2. Keys \subseteq Nat \ {0} /\ None = 0 /\ None \notin Logins /\ Realm = 0
  BY <1>1 DEF Keys, None, Logins, Realm
<1>3. /\ session.key \in {None} \cup Keys /\ session.inst \in {None} \cup Keys
      /\ session.loading \in {None} \cup Logins /\ session.player \in {None} \cup Logins
  BY DEF Types, TypeOK
<1>4. /\ client.login \in {None} \cup Logins /\ client.key \in {None} \cup Keys
      /\ client.serial \in {None} \cup Serials
  BY DEF Types, TypeOK
<1>5. /\ \A c \in Conns : sock[c] \in SocketStates
      /\ \A h \in holders : h.key \in Keys /\ h.login \in Logins
  BY DEF Types, TypeOK
<1>6. session.key \in Nat /\ Realm \notin Keys
  <2>1. \A k \in Keys : k \in Nat /\ k # 0
    BY <1>2
  <2>2. session.key = 0 \/ session.key \in Keys
    BY <1>2, <1>3
  <2>3. session.key \in Nat
    BY <2>1, <2>2
  <2>4. Realm \notin Keys
    BY <1>2, <2>1
  <2> QED BY <2>3, <2>4
<1>7. Realm \in Conns /\ Keys \subseteq Conns /\ session.key \in Conns
  BY <1>2, <1>3 DEF Conns, Realm, None
<1> QED BY <1>2, <1>3, <1>4, <1>5, <1>6, <1>7

\* What the new value of a queue keeps of the logins in it.
KeepsLogins(q, r) ==
    /\ NoLogin(q) => NoLogin(r)
    /\ \A login \in Logins : OneLogin(q, login) => OneLogin(r, login)

\* Connections are closed, or nothing happens to them.
OnlyCloses == \A c \in Conns : sock'[c] = sock[c] \/ (IsOpen(c) /\ sock'[c] = "closed")

\* Closed() only closes, and closes what it is asked to.
LEMMA ClosedCloses ==
    ASSUME Types, NEW S, sock' = Closed(S)
    PROVE  /\ OnlyCloses
           /\ \A c \in Conns : c \in S => sock'[c] \notin {"open", "linked"}
<1>1. \A c \in Conns : sock'[c] = IF c \in S /\ IsOpen(c) THEN "closed" ELSE sock[c]
  BY DEF Closed
<1> QED BY <1>1 DEF OnlyCloses, IsOpen

\* What is left of the queue of connections, when the first is taken.
LEMMA TailLinks ==
    ASSUME NEW q \in Seq(Keys), q # <<>>,
           \A i, j \in 1..Len(q) : q[i] = q[j] => i = j
    PROVE  /\ Head(q) \in Keys /\ Tail(q) \in Seq(Keys) /\ \E i \in 1..Len(q) : Head(q) = q[i]
           /\ \A i \in 1..Len(Tail(q)) : Tail(q)[i] # Head(q) /\ \E j \in 1..Len(q) : Tail(q)[i] = q[j]
           /\ \A i, j \in 1..Len(Tail(q)) : Tail(q)[i] = Tail(q)[j] => i = j
<1>0. PICK t : t = Tail(q)
  OBVIOUS
<1>1. /\ Head(q) \in Keys /\ t \in Seq(Keys) /\ Head(q) = q[1]
      /\ Len(t) = Len(q) - 1 /\ \A i \in 1..(Len(q) - 1) : t[i] = q[i + 1]
  BY <1>0, HeadTailProperties
<1>2. Len(q) \in Nat /\ Len(q) # 0
  BY EmptySeq
<1>3. /\ 1 \in 1..Len(q)
      /\ \A i \in 1..Len(t) : i \in Nat /\ i + 1 \in 1..Len(q) /\ i + 1 # 1 /\ t[i] = q[i + 1]
  BY <1>1, <1>2
<1>4. \A i \in 1..Len(t) : t[i] # Head(q) /\ \E j \in 1..Len(q) : t[i] = q[j]
  BY <1>1, <1>3
<1>5. \A i, j \in 1..Len(t) : t[i] = t[j] => i + 1 = j + 1
  BY <1>3
<1>6. \A i, j \in 1..Len(t) : i + 1 = j + 1 => i = j
  BY <1>3
<1> QED BY <1>0, <1>1, <1>3, <1>4, <1>5, <1>6

\* The connections that wait to be linked are still new ones.
LEMMA KeptLinks ==
    ASSUME Types, ConnInv, OnlyCloses,
           linkQueue' = linkQueue \/ (linkQueue # <<>> /\ linkQueue' = Tail(linkQueue))
    PROVE  /\ \A i \in 1..Len(linkQueue') : sock'[linkQueue'[i]] \in {"open", "closed"}
           /\ \A i, j \in 1..Len(linkQueue') : linkQueue'[i] = linkQueue'[j] => i = j
<1>0. linkQueue \in Seq(Keys) /\ Keys \subseteq Conns
  BY Fields DEF Types, TypeOK
<1>1. \A i \in 1..Len(linkQueue) : sock'[linkQueue[i]] \in {"open", "closed"}
  <2> SUFFICES ASSUME NEW i \in 1..Len(linkQueue)
               PROVE  sock'[linkQueue[i]] \in {"open", "closed"}
    OBVIOUS
  <2>1. linkQueue[i] \in Conns
    BY <1>0
  <2> QED BY <2>1 DEF ConnInv, OnlyCloses
<1>2. CASE linkQueue' = linkQueue
  BY <1>1, <1>2 DEF ConnInv
<1>3. CASE linkQueue # <<>> /\ linkQueue' = Tail(linkQueue)
  <2>1. \A i, j \in 1..Len(linkQueue) : linkQueue[i] = linkQueue[j] => i = j
    BY DEF ConnInv
  <2>2. /\ \A i \in 1..Len(linkQueue') : \E j \in 1..Len(linkQueue) : linkQueue'[i] = linkQueue[j]
        /\ \A i, j \in 1..Len(linkQueue') : linkQueue'[i] = linkQueue'[j] => i = j
    BY <1>0, <1>3, <2>1, TailLinks
  <2> QED BY <1>1, <2>2
<1> QED BY <1>2, <1>3

\* The connections are as before, apart from those that were closed.
LEMMA QuietConns ==
    ASSUME Types, ConnInv,
           UNCHANGED <<session.player, session.alive, session.key, session.inst, holders>>,
           linkQueue' = linkQueue \/ (linkQueue # <<>> /\ linkQueue' = Tail(linkQueue)),
           OnlyCloses
    PROVE  ConnInv'
<1>0. Realm \in Conns /\ Keys \subseteq Conns /\ session.key \in Conns
  BY Fields
<1>1. Accepted' = Accepted
  BY DEF Accepted
<1>2. Accepted' => /\ session'.key # None /\ session'.inst = session'.key
                   /\ sock'[session'.key] \in {"linked", "closed"}
  BY <1>0, <1>1 DEF ConnInv, OnlyCloses
<1>3. \A k \in Keys : sock'[k] = "linked" => session'.alive /\ Accepted' /\ k = session'.inst
  BY <1>0, <1>1 DEF ConnInv, OnlyCloses
<1>4. sock'[Realm] \in {"linked", "closed"} /\ (sock'[Realm] = "linked" => session'.alive)
  BY <1>0 DEF ConnInv, OnlyCloses
<1>5. \A k \in Keys : k > session'.key => sock'[k] = "none"
  BY <1>0 DEF ConnInv, OnlyCloses, IsOpen
<1>6. /\ \A i \in 1..Len(linkQueue') : sock'[linkQueue'[i]] \in {"open", "closed"}
      /\ \A i, j \in 1..Len(linkQueue') : linkQueue'[i] = linkQueue'[j] => i = j
  BY KeptLinks
<1> QED BY <1>2, <1>3, <1>4, <1>5, <1>6 DEF ConnInv

\* Nothing moves the login on: neither the session, nor a message, nor the client.
LEMMA Quiet ==
    ASSUME IndInv,
           UNCHANGED <<session.loading, session.player, session.alive, session.key, session.inst,
                       holders, toClient, client.at, client.login, client.key, client.serial>>,
           session'.leaving => session.player # None,
           linkQueue' = linkQueue \/ (linkQueue # <<>> /\ linkQueue' = Tail(linkQueue)),
           OnlyCloses,
           NoLogin(requeue'), KeepsLogins(recvQueue, recvQueue')
    PROVE  ServerInv' /\ ConnInv' /\ CountInv' /\ PhaseInv'
<1>0. /\ Types /\ ServerInv /\ ConnInv /\ CountInv /\ PhaseInv
      /\ Realm \in Conns /\ session.key \in Conns
  BY Fields DEF IndInv
<1>1. ServerInv'
  BY <1>0 DEF ServerInv
<1>2. ConnInv'
  BY <1>0, QuietConns
<1>3. Idle' = Idle /\ Waiting' = Waiting /\ Accepted' = Accepted
  BY DEF Idle, Waiting, Accepted
<1>4. /\ NoLogin(recvQueue) => NoLogin(recvQueue)'
      /\ client.login # None /\ OneLogin(recvQueue, client.login) => OneLogin(recvQueue, client.login)'
  <2>1. client.login # None => client.login \in Logins
    BY <1>0, Fields
  <2>2. NoLogin(recvQueue)' = NoLogin(recvQueue')
    BY DEF NoLogin
  <2>3. OneLogin(recvQueue, client.login)' = OneLogin(recvQueue', client.login)
    BY DEF OneLogin
  <2> QED BY <2>1, <2>2, <2>3 DEF KeepsLogins
<1>5. CountInv'
  BY <1>0, <1>3, <1>4 DEF CountInv, NoLogin
<1>6. PhaseInv'
  <2> SUFFICES ASSUME sock'[Realm] = "linked" PROVE Phase'
    BY DEF PhaseInv
  <2>0. Phase
    BY <1>0 DEF OnlyCloses, PhaseInv
  <2>1. Away => Away'
    BY <1>3, <1>4 DEF Away
  <2>2. Asked => Asked'
    <3>1. Asked => client.login # None
      BY <1>0 DEF Asked, CountInv, NoLogin, OneLogin
    <3> QED BY <1>3, <1>4, <3>1 DEF Asked
  <2>3. Offered => Offered'
    <3>1. sock[session.key] = "none" => sock'[session.key] = "none"
      BY <1>0 DEF OnlyCloses, IsOpen
    <3> QED BY <1>3, <1>4, <3>1 DEF Offered
  <2>4. Trying => Trying'
    BY <1>3, <1>4 DEF Trying
  <2>5. Entering => Entering'
    BY <1>3, <1>4 DEF Entering
  <2>6. Playing => Playing'
    BY <1>3, <1>4 DEF Playing
  <2>7. Leaving => Leaving'
    BY <1>3, <1>4 DEF Leaving
  <2>8. Aborted => Aborted'
    BY <1>3, <1>4 DEF Aborted
  <2> QED BY <2>0, <2>1, <2>2, <2>3, <2>4, <2>5, <2>6, <2>7, <2>8 DEF Phase
<1> QED BY <1>1, <1>2, <1>5, <1>6

-----------------------------------------------------------------------------
(* The world thread: packets that leave the login alone, callbacks.         *)

\* The parts of the invariant that the steps are proved to keep.
LoginInv == ServerInv /\ ConnInv /\ CountInv /\ PhaseInv

\* Taking a packet that is not a login from the queue.
LEMMA TakesNoLogin ==
    ASSUME IndInv, recvQueue # <<>>, recvQueue' = Tail(recvQueue), Head(recvQueue).kind # "login"
    PROVE  KeepsLogins(recvQueue, recvQueue')
<1>1. recvQueue \in Seq(Packets)
  BY DEF IndInv, Types, TypeOK, Packets
<1> QED BY <1>1, TailLogin DEF KeepsLogins

\* KickPlayer closes both connections and leaves the login alone.
LEMMA KickQuiet ==
    ASSUME IndInv, NEW s, KickPlayer(s),
           UNCHANGED <<holders, toClient, client, linkQueue>>,
           s.loading = session.loading, s.player = session.player, s.alive = session.alive,
           s.key = session.key, s.inst = session.inst, s.leaving = session.leaving,
           s \in SessionRec,
           NoLogin(requeue'), KeepsLogins(recvQueue, recvQueue')
    PROVE  LoginInv'
<1>1. sock' = Closed(BothSockets) /\ session' = [s EXCEPT !.force = TRUE]
  BY DEF KickPlayer
<1>2. UNCHANGED <<session.loading, session.player, session.alive, session.key, session.inst, session.leaving>>
  BY <1>1 DEF SessionRec
<1>3. OnlyCloses
  BY <1>1, ClosedCloses DEF IndInv
<1>4. session.leaving => session.player # None
  BY DEF IndInv, ServerInv
<1> QED BY <1>2, <1>3, <1>4, Quiet DEF LoginInv

\* BeginWorldUpdate, EndPackets, EndCallbacks, EndWorldUpdate and Disconnect do
\* no more than close connections and put packets back.
LEMMA PlainSteps ==
    ASSUME IndInv,
           \/ \E isIdle \in BOOLEAN : BeginWorldUpdate(isIdle)
           \/ EndPackets \/ EndCallbacks \/ EndWorldUpdate
           \/ \E c \in Conns : Disconnect(c)
    PROVE  LoginInv'
<1>1. UNCHANGED <<session, holders, toClient, client, linkQueue>>
  BY DEF BeginWorldUpdate, EndPackets, EndCallbacks, EndWorldUpdate, Disconnect
<1>2. OnlyCloses
  <2>1. \/ \E S : sock' = Closed(S)
        \/ sock' = sock
    BY DEF BeginWorldUpdate, EndPackets, EndCallbacks, EndWorldUpdate, Disconnect, BeginUpdate
  <2> QED BY <2>1, ClosedCloses DEF IndInv, OnlyCloses
<1>3. requeue \in Seq(Packets) /\ recvQueue \in Seq(Packets) /\ NoLogin(requeue)
  BY DEF IndInv, Types, TypeOK, Packets, CountInv
<1>4. requeue' = requeue \/ requeue' = <<>>
  BY DEF BeginWorldUpdate, EndPackets, EndCallbacks, EndWorldUpdate, Disconnect, BeginUpdate, updateVars
<1>5. NoLogin(requeue')
  BY <1>3, <1>4 DEF NoLogin
<1>6. recvQueue' = recvQueue \/ recvQueue' = requeue \o recvQueue
  BY DEF BeginWorldUpdate, EndPackets, EndCallbacks, EndWorldUpdate, Disconnect, Readd
<1>7. KeepsLogins(recvQueue, recvQueue')
  BY <1>3, <1>6, ConcatLogin DEF KeepsLogins
<1>8. session.leaving => session.player # None
  BY DEF IndInv, ServerInv
<1> QED BY <1>1, <1>2, <1>5, <1>7, <1>8, Quiet DEF LoginInv

\* RequeuePacket and DropPacket: only packets for a character are kept for later.
LEMMA KeepOrDrop ==
    ASSUME IndInv, RequeuePacket \/ DropPacket
    PROVE  LoginInv'
<1>1. /\ UNCHANGED <<session, sock, holders, toClient, client, linkQueue>>
      /\ recvQueue # <<>> /\ recvQueue' = Tail(recvQueue)
  BY DEF RequeuePacket, DropPacket, NextPacket, HasNext
<1>2. Head(recvQueue).kind # "login"
  <2> SUFFICES ASSUME Head(recvQueue).kind = "login" PROVE FALSE
    OBVIOUS
  <2>1. Status[Head(recvQueue).kind] = "authed"
    BY DEF Status
  <2>2. ~IsEarly(Head(recvQueue)) /\ IsCallable(Head(recvQueue))
    BY <2>1 DEF IsEarly, IsCallable
  <2> QED BY <2>2 DEF RequeuePacket, DropPacket
<1>3. KeepsLogins(recvQueue, recvQueue')
  BY <1>1, <1>2, TakesNoLogin
<1>4. requeue \in Seq(Packets) /\ Head(recvQueue) \in Packets /\ NoLogin(requeue)
  <2>1. recvQueue \in Seq(Packets) /\ requeue \in Seq(Packets) /\ NoLogin(requeue)
    BY DEF IndInv, Types, TypeOK, Packets, CountInv
  <2> QED BY <1>1, <2>1, TailLogin
<1>5. NoLogin(requeue')
  <2>1. requeue' = requeue \/ requeue' = Append(requeue, Head(recvQueue))
    BY DEF RequeuePacket, DropPacket
  <2> QED BY <1>2, <1>4, <2>1, AppendLogin
<1>6. OnlyCloses
  BY <1>1 DEF OnlyCloses
<1>7. session.leaving => session.player # None
  BY DEF IndInv, ServerInv
<1> QED BY <1>1, <1>3, <1>5, <1>6, <1>7, Quiet DEF LoginInv

-----------------------------------------------------------------------------
(* The world thread: a character in the world.                              *)

\* With an accepted connection the session is not idle, and the client, if it is
\* there, has been told or will be told next.
LEMMA AcceptedPhase ==
    ASSUME IndInv, Accepted
    PROVE  /\ ~Idle /\ ~Waiting /\ NoLogin(recvQueue)
           /\ sock[Realm] = "linked" => Entering \/ Playing
<1>1. \A h \in holders : h.login # None
  BY Fields DEF IndInv
<1>2. ~Idle /\ ~Waiting
  BY <1>1 DEF IndInv, ServerInv, Accepted, Idle, Waiting
<1>3. NoLogin(recvQueue)
  BY <1>2 DEF IndInv, CountInv
<1>4. sock[Realm] = "linked" => Entering \/ Playing
  BY <1>2 DEF IndInv, PhaseInv, Phase, Away, Asked, Offered, Trying, Leaving, Aborted
<1> QED BY <1>2, <1>3, <1>4

\* Without one, no connection but the realm's is linked.
LEMMA NotAccepted ==
    ASSUME IndInv, ~Accepted
    PROVE  holders = {} /\ \A k \in Keys : sock[k] # "linked"
BY DEF IndInv, ConnInv, Accepted

\* A message goes to a client whose realm connection is there.
LEMMA Sending ==
    ASSUME IndInv, NEW m \in Messages
    PROVE  /\ sock[Realm] # "linked" => Sent(m) = toClient
           /\ sock[Realm] = "linked" =>
                 /\ Sent(m) \in Seq(Messages) /\ Sent(m) # <<>>
                 /\ Len(Sent(m)) = Len(toClient) + 1 /\ Len(toClient) \in Nat
                 /\ Sent(m)[Len(toClient) + 1] = m
                 /\ \A i \in 1..Len(toClient) : Sent(m)[i] = toClient[i]
<1>1. toClient \in Seq(Messages) /\ sock[Realm] \in {"linked", "closed"}
  BY DEF IndInv, Types, ConnInv
<1>2. CASE sock[Realm] = "linked"
  <2>1. Sent(m) = Append(toClient, m)
    BY <1>2 DEF Sent, IsOpen
  <2> QED BY <1>1, <1>2, <2>1, AppendProperties
<1>3. CASE sock[Realm] # "linked"
  <2>1. Sent(m) = toClient
    BY <1>1, <1>3 DEF Sent, IsOpen
  <2> QED BY <1>3, <2>1
<1> QED BY <1>2, <1>3

\* What is sent is a message.
LEMMA SentType ==
    ASSUME IndInv, NEW m \in Messages
    PROVE  Sent(m) \in Seq(Messages)
<1>1. toClient \in Seq(Messages)
  BY DEF IndInv, Types
<1>2. Append(toClient, m) \in Seq(Messages)
  BY <1>1, AppendProperties
<1> QED BY <1>1, <1>2 DEF Sent

\* A character in the world, or about to be, stays there, and the client may be
\* told of a transfer.
LEMMA PlayStep ==
    ASSUME IndInv, Accepted, Accepted', ServerInv',
           UNCHANGED <<session.alive, session.key, session.inst, sock, linkQueue, client>>,
           toClient' = toClient \/ toClient' = Sent(Message("transfer", None, None)),
           NoLogin(requeue'), NoLogin(recvQueue) => NoLogin(recvQueue')
    PROVE  LoginInv'
<1>0. Types /\ ConnInv /\ CountInv
  BY DEF IndInv
<1>1. NoLogin(recvQueue)' /\ (sock[Realm] = "linked" => Entering \/ Playing)
  <2>1. NoLogin(recvQueue)' = NoLogin(recvQueue')
    BY DEF NoLogin
  <2> QED BY <2>1, AcceptedPhase
<1>2. ConnInv'
  BY <1>0 DEF ConnInv
<1>3. CountInv'
  BY <1>0, <1>1 DEF CountInv, NoLogin
<1>4. PhaseInv'
  <2> SUFFICES ASSUME sock[Realm] = "linked" PROVE Phase'
    BY DEF PhaseInv
  <2>0. PICK m : m = Message("transfer", None, None)
    OBVIOUS
  <2>1. m \in Messages /\ m.type = "transfer"
    BY <2>0 DEF Message, Messages
  <2>2. CASE toClient' = toClient
    <3>1. Entering => Entering'
      BY <1>1, <2>2 DEF Entering
    <3>2. Playing => Playing'
      BY <1>1, <2>2 DEF Playing
    <3> QED BY <1>1, <3>1, <3>2 DEF Phase
  <2>3. CASE toClient' = Sent(m)
    <3>1. /\ toClient' # <<>> /\ Len(toClient') = Len(toClient) + 1 /\ Len(toClient) \in Nat
          /\ toClient'[Len(toClient) + 1] = m
          /\ \A i \in 1..Len(toClient) : toClient'[i] = toClient[i]
      BY <2>1, <2>3, Sending
    <3>2. /\ \A i \in 1..Len(toClient') : i \in 1..Len(toClient) \/ i = Len(toClient) + 1
          /\ Len(toClient) # 0 => 1 \in 1..Len(toClient)
      BY <3>1
    <3>3. ASSUME Entering PROVE Entering'
      <4>1. Len(toClient) # 0
        <5>1. toClient \in Seq(Messages) /\ toClient # <<>>
          BY <1>0, <3>3 DEF Types, Entering
        <5> QED BY <5>1, EmptySeq
      <4>2. toClient'[1].type = "resumeComms"
        BY <3>1, <3>2, <3>3, <4>1 DEF Entering
      <4>3. \A i \in 1..Len(toClient') : i # 1 => toClient'[i].type = "transfer"
        BY <2>1, <3>1, <3>2, <3>3 DEF Entering
      <4> QED BY <1>1, <3>1, <3>3, <4>2, <4>3 DEF Entering
    <3>4. ASSUME Playing PROVE Playing'
      <4>1. \A i \in 1..Len(toClient') : toClient'[i].type = "transfer"
        BY <2>1, <3>1, <3>2, <3>4 DEF Playing
      <4> QED BY <1>1, <3>4, <4>1 DEF Playing
    <3> QED BY <1>1, <3>3, <3>4 DEF Phase
  <2> QED BY <2>0, <2>2, <2>3
<1> QED BY <1>2, <1>3, <1>4 DEF LoginInv

\* A character leaves the world, its connection is closed, and the client will
\* be told of it after everything else.
LEMMA LogoutStep ==
    ASSUME IndInv, session.player # None, LogoutPlayer,
           UNCHANGED <<holders, linkQueue, client>>,
           NoLogin(requeue'), NoLogin(recvQueue) => NoLogin(recvQueue')
    PROVE  LoginInv'
<1>0. Types /\ ServerInv /\ ConnInv /\ CountInv /\ Accepted
  BY DEF IndInv, Accepted
<1>1. /\ session' = LoggedOut(session) /\ sock' = Closed(InstanceSocket)
      /\ toClient' = Sent(Message("logoutComplete", None, None))
  BY DEF LogoutPlayer, LogoutCloses
<1>2. /\ session'.player = None /\ session'.loading = session.loading /\ ~session'.leaving
      /\ session'.inst = None /\ session'.key = session.key /\ session'.alive = session.alive
  BY <1>0, <1>1 DEF LoggedOut, Types, TypeOK
<1>3. holders = {} /\ session.loading = None
  BY <1>0 DEF ServerInv
<1>4. Idle' /\ ~Accepted'
  BY <1>2, <1>3 DEF Idle, Accepted
<1>5. ServerInv'
  BY <1>2, <1>3 DEF ServerInv
<1>6. OnlyCloses /\ \A c \in Conns : c \in InstanceSocket => sock'[c] \notin {"open", "linked"}
  BY <1>0, <1>1, ClosedCloses
<1>7. Realm \in Conns /\ Realm \notin Keys /\ Keys \subseteq Conns /\ None \notin Keys
      /\ session.inst \in {None} \cup Keys
  BY <1>0, Fields DEF Realm, None
<1>8. \A k \in Keys : sock'[k] # "linked"
  BY <1>0, <1>6, <1>7 DEF ConnInv, OnlyCloses, InstanceSocket
<1>9. sock'[Realm] = sock[Realm]
  BY <1>1, <1>7 DEF Closed, InstanceSocket
<1>10. ConnInv'
  <2>1. /\ \A i \in 1..Len(linkQueue') : sock'[linkQueue'[i]] \in {"open", "closed"}
        /\ \A i, j \in 1..Len(linkQueue') : linkQueue'[i] = linkQueue'[j] => i = j
    BY <1>0, <1>6, KeptLinks
  <2>2. \A k \in Keys : k > session.key => sock'[k] = "none"
    BY <1>0, <1>6, <1>7 DEF ConnInv, OnlyCloses, IsOpen
  <2> QED BY <1>0, <1>2, <1>4, <1>8, <1>9, <2>1, <2>2 DEF ConnInv
<1>11. NoLogin(recvQueue)' /\ (sock[Realm] = "linked" => Entering \/ Playing)
  <2>1. NoLogin(recvQueue)' = NoLogin(recvQueue')
    BY DEF NoLogin
  <2> QED BY <1>0, <2>1, AcceptedPhase
<1>12. CountInv'
  BY <1>0, <1>2, <1>11 DEF CountInv, NoLogin
<1>13. PhaseInv'
  <2> SUFFICES ASSUME sock[Realm] = "linked" PROVE Leaving'
    BY <1>9 DEF PhaseInv, Phase
  <2>0. PICK m : m = Message("logoutComplete", None, None)
    OBVIOUS
  <2>1. m \in Messages /\ m.type = "logoutComplete"
    BY <2>0 DEF Message, Messages
  <2>2. /\ toClient' # <<>> /\ Len(toClient') = Len(toClient) + 1 /\ Len(toClient) \in Nat
        /\ toClient'[Len(toClient) + 1] = m
        /\ \A i \in 1..Len(toClient) : toClient'[i] = toClient[i]
    BY <1>1, <2>0, <2>1, Sending
  <2>3. /\ \A i \in 1..Len(toClient') : i # Len(toClient') => i \in 1..Len(toClient)
        /\ Len(toClient) # 0 => 1 \in 1..Len(toClient)
    BY <2>2
  <2>4. CASE Entering
    <3>1. Len(toClient) # 0
      <4>1. toClient \in Seq(Messages) /\ toClient # <<>>
        BY <1>0, <2>4 DEF Types, Entering
      <4> QED BY <4>1, EmptySeq
    <3>2. toClient'[1].type = "resumeComms"
      BY <2>2, <2>3, <2>4, <3>1 DEF Entering
    <3>3. \A i \in 1..Len(toClient') : i # Len(toClient') =>
             toClient'[i].type = (IF i = 1 THEN "resumeComms" ELSE "transfer")
      BY <2>2, <2>3, <2>4, <3>2 DEF Entering
    <3> QED BY <1>2, <1>4, <1>11, <2>1, <2>2, <2>4, <3>2, <3>3 DEF Leaving, Entering
  <2>5. CASE Playing
    <3>1. \A i \in 1..Len(toClient') : i # Len(toClient') => toClient'[i].type = "transfer"
      BY <2>2, <2>3, <2>5 DEF Playing
    <3> QED BY <1>4, <1>11, <2>1, <2>2, <2>5, <3>1 DEF Leaving, Playing
  <2> QED BY <1>11, <2>4, <2>5
<1> QED BY <1>5, <1>10, <1>12, <1>13 DEF LoginInv

\* The character is moved to another map.
LEMMA TeleportStep ==
    ASSUME IndInv, session.player # None, TeleportTo(session),
           UNCHANGED <<sock, holders, linkQueue, client>>,
           NoLogin(requeue'), NoLogin(recvQueue) => NoLogin(recvQueue')
    PROVE  LoginInv'
<1>1. UNCHANGED <<session.loading, session.player, session.alive, session.key, session.inst, session.leaving>>
  BY DEF IndInv, Types, TypeOK, TeleportTo
<1>2. Accepted /\ Accepted' /\ toClient' = Sent(Message("transfer", None, None))
  BY <1>1 DEF Accepted, TeleportTo
<1>3. ServerInv'
  BY <1>1 DEF IndInv, ServerInv
<1> QED BY <1>1, <1>2, <1>3, PlayStep

\* FarTeleport, and the logout that is due.
LEMMA MapAndLogout ==
    ASSUME IndInv, FarTeleport \/ LogoutWhenDue
    PROVE  LoginInv'
<1>0. NoLogin(requeue) /\ ServerInv
  BY DEF IndInv, CountInv
<1>1. CASE FarTeleport
  <2>1. /\ session.player # None /\ TeleportTo(session)
        /\ UNCHANGED <<sock, holders, linkQueue, client, requeue, recvQueue>>
    BY <1>1 DEF FarTeleport, InWorld, updateVars
  <2> QED BY <1>0, <2>1, TeleportStep
<1>2. CASE LogoutWhenDue
  <2>1. /\ session.leaving /\ LogoutPlayer
        /\ UNCHANGED <<holders, linkQueue, client, requeue, recvQueue>>
    BY <1>2 DEF LogoutWhenDue, updateVars
  <2>2. session.player # None
    BY <1>0, <2>1 DEF ServerInv
  <2> QED BY <1>0, <2>1, <2>2, LogoutStep
<1> QED BY <1>1, <1>2

-----------------------------------------------------------------------------
(* The world thread: packets.                                               *)

\* The opcodes, and which of them need a character.
LEMMA Opcodes ==
    /\ Kinds = {"enum", "login", "safe", "logout", "cancel", "trade", "worldport"}
    /\ \A p : /\ p.kind \in {"logout", "cancel"} /\ IsCallable(p) => session.player # None
              /\ p.kind = "worldport" /\ IsCallable(p) => session.player # None
<1>1. Kinds = {"enum", "login", "safe", "logout", "cancel", "trade", "worldport"}
  BY DEF Kinds, Status
<1>2. ASSUME NEW p, p.kind \in {"logout", "cancel"}, IsCallable(p) PROVE session.player # None
  <2>1. Status[p.kind] = "loggedin"
    BY <1>2 DEF Status
  <2> QED BY <1>2, <2>1 DEF IsCallable, InWorld
<1>3. ASSUME NEW p, p.kind = "worldport", IsCallable(p) PROVE session.player # None
  <2>1. Status[p.kind] = "transfer"
    BY <1>3 DEF Status
  <2> QED BY <1>3, <2>1 DEF IsCallable
<1> QED BY <1>1, <1>2, <1>3

\* A change of a field that is not about the login.
LEMMA QuietPacket ==
    ASSUME IndInv, recvQueue # <<>>, recvQueue' = Tail(recvQueue),
           Head(recvQueue).kind # "login",
           UNCHANGED <<session.loading, session.player, session.alive, session.key, session.inst,
                       sock, holders, toClient, client, linkQueue, requeue>>,
           session'.leaving => session.leaving \/ session.player # None
    PROVE  LoginInv'
<1>1. KeepsLogins(recvQueue, recvQueue')
  BY TakesNoLogin
<1>2. OnlyCloses /\ NoLogin(requeue')
  BY DEF OnlyCloses, IndInv, CountInv
<1>3. session'.leaving => session.player # None
  BY DEF IndInv, ServerInv
<1> QED BY <1>1, <1>2, <1>3, Quiet DEF LoginInv

\* CMSG_PLAYER_LOGIN: the session is idle, so a key is sent.
LEMMA LoginStep ==
    ASSUME IndInv, recvQueue # <<>>, recvQueue' = Tail(recvQueue),
           Head(recvQueue).kind = "login", HandlePlayerLoginOpcode(Head(recvQueue).login),
           UNCHANGED <<holders, client, linkQueue, requeue>>
    PROVE  LoginInv' /\ session' \in SessionRec /\ toClient' \in Seq(Messages)
<1>0. Types /\ ServerInv /\ ConnInv /\ CountInv /\ recvQueue \in Seq(Packets)
  BY DEF IndInv, Types, TypeOK, Packets
<1>1. /\ OneLogin(recvQueue, client.login) /\ Idle /\ client.login # None
      /\ session.key <= (client.login - 1) * Attempts
      /\ NoLogin(recvQueue') /\ Head(recvQueue).login = client.login
  BY <1>0, TailLogin DEF CountInv
<1>2. /\ session' = [[session EXCEPT !.loading = client.login] EXCEPT !.key = @ + 1]
      /\ toClient' = Sent(Message("connectTo", session.key + 1, 1))
      /\ sock' = sock
  BY <1>1 DEF HandlePlayerLoginOpcode, Idle, SendConnectToInstance
<1>3. /\ session'.loading = client.login /\ session'.player = None /\ session'.alive = session.alive
      /\ session'.key = session.key + 1 /\ session'.leaving = session.leaving
  BY <1>0, <1>1, <1>2 DEF Types, TypeOK, Idle
<1>4. holders = {} /\ ~Accepted /\ Waiting' /\ ~Accepted' /\ session.leaving = FALSE
  <2>1. holders = {}
    BY <1>0, <1>1, Fields DEF ServerInv, Idle
  <2>2. session.leaving = FALSE
    BY <1>0, <1>1 DEF ServerInv, Idle, Types, TypeOK
  <2> QED BY <1>1, <1>3, <2>1, <2>2 DEF Idle, Accepted, Waiting
<1>5. /\ client.login \in Logins /\ session.key \in Nat /\ session.key + 1 \in Keys
      /\ (client.login - 1) * Attempts \in Nat
      /\ session.key + 1 <= (client.login - 1) * Attempts + 1
      /\ session.key + 1 <= client.login * Attempts
      /\ 1 \in Serials
  <2>1. client.login \in Logins /\ session.key \in Nat
    BY <1>0, <1>1, Fields
  <2>2. /\ (client.login - 1) * Attempts \in Nat /\ client.login * Attempts \in Nat
        /\ client.login * Attempts = (client.login - 1) * Attempts + Attempts
        /\ client.login * Attempts <= MaxLogins * Attempts
    BY <2>1, KeyCount
  <2>3. Attempts \in Nat \ {0} /\ MaxLogins * Attempts \in Nat /\ 1 \in Serials
    BY SessionLoginAssumption DEF Serials
  <2>4. /\ session.key + 1 <= (client.login - 1) * Attempts + 1
        /\ session.key + 1 <= client.login * Attempts
        /\ session.key + 1 \in 1..(MaxLogins * Attempts)
    BY <1>1, <2>1, <2>2, <2>3
  <2> QED BY <2>1, <2>2, <2>3, <2>4 DEF Keys
<1>6. ServerInv'
  BY <1>3, <1>4 DEF ServerInv
<1>7. ConnInv'
  <2>1. \A k \in Keys : k > session.key + 1 => k > session.key
    <3>1. \A k \in Keys : k \in Nat
      BY SessionLoginAssumption DEF Keys
    <3> QED BY <1>5, <3>1
  <2> QED BY <1>0, <1>2, <1>3, <1>4, <2>1 DEF ConnInv
<1>8. NoLogin(recvQueue)'
  BY <1>1 DEF NoLogin
<1>9. CountInv'
  BY <1>0, <1>3, <1>5, <1>8 DEF CountInv, NoLogin
<1>10. PhaseInv'
  <2> SUFFICES ASSUME sock[Realm] = "linked" PROVE Offered'
    BY <1>2 DEF PhaseInv, Phase
  <2>1. Asked
    <3>1. ~NoLogin(recvQueue)
      BY <1>1 DEF NoLogin, OneLogin
    <3> QED BY <3>1 DEF IndInv, PhaseInv, Phase, Away, Offered, Trying, Entering, Playing, Leaving, Aborted
  <2>2. sock[session.key + 1] = "none"
    <3>1. session.key + 1 > session.key
      BY <1>5
    <3> QED BY <1>0, <1>5, <3>1 DEF ConnInv
  <2>3. toClient' = <<Message("connectTo", session'.key, 1)>>
    <3>1. toClient = <<>>
      BY <2>1 DEF Asked
    <3>2. Sent(Message("connectTo", session.key + 1, 1)) =
              Append(<<>>, Message("connectTo", session.key + 1, 1))
      BY <3>1 DEF Sent, IsOpen
    <3>3. \A m : Append(<<>>, m) = <<m>>
      OBVIOUS
    <3> QED BY <1>2, <1>3, <3>2, <3>3
  <2>4. session'.key # None
    BY <1>3, <1>5 DEF None
  <2> QED BY <1>2, <1>3, <1>4, <1>5, <1>8, <2>1, <2>2, <2>3, <2>4 DEF Offered, Asked
<1>11. session' \in SessionRec
  <2>1. session \in SessionRec
    BY <1>0 DEF Types, TypeOK, SessionRec
  <2> QED BY <1>2, <1>5, <2>1 DEF SessionRec
<1>12. toClient' \in Seq(Messages)
  <2>1. Message("connectTo", session.key + 1, 1) \in Messages
    BY <1>5 DEF Message, Messages
  <2> QED BY <1>2, <2>1, SentType
<1> QED BY <1>6, <1>7, <1>9, <1>10, <1>11, <1>12 DEF LoginInv

\* Every handler keeps client and server in step.
LEMMA HandlePacketStep ==
    ASSUME IndInv, HandlePacket
    PROVE  LoginInv'
<1> DEFINE p == Head(recvQueue)
<1>0. /\ recvQueue # <<>> /\ recvQueue' = Tail(recvQueue)
      /\ UNCHANGED <<linkQueue, holders, client, requeue>>
      /\ IsCallable(p) /\ Handler(p)
  BY DEF HandlePacket, NextPacket, HasNext
<1>1. p \in Packets /\ p.kind \in Kinds
  <2>1. recvQueue \in Seq(Packets)
    BY DEF IndInv, Types, TypeOK, Packets
  <2>2. p \in Packets
    BY <1>0, <2>1, TailLogin
  <2> QED BY <2>2 DEF Packets
<1>2. session \in SessionRec
  BY DEF IndInv, Types, TypeOK, SessionRec
<1>3. NoLogin(requeue')
  BY <1>0 DEF IndInv, CountInv
<1>4. session.player # None => (NoLogin(recvQueue) => NoLogin(recvQueue'))
  <2>1. recvQueue \in Seq(Packets)
    BY DEF IndInv, Types, TypeOK, Packets
  <2> QED BY <1>0, <2>1, TailLogin
<1> HIDE DEF p
<1>5. CASE p.kind = "login"
  BY <1>0, <1>5, LoginStep DEF Handler, p
<1>6. CASE p.kind = "logout"
  <2>1. HandleLogoutRequestOpcode /\ session.player # None
    BY <1>0, <1>6, Opcodes DEF Handler
  <2>2. CASE LogoutPlayer
    BY <1>0, <1>3, <1>4, <2>1, <2>2, LogoutStep
  <2>3. CASE /\ \E b \in BOOLEAN : session' = [session EXCEPT !.leaving = b]
             /\ UNCHANGED <<sock, toClient>>
    <3>1. UNCHANGED <<session.loading, session.player, session.alive, session.key, session.inst>>
      BY <1>2, <2>3 DEF SessionRec
    <3> QED BY <1>0, <1>6, <2>1, <2>3, <3>1, QuietPacket DEF p
  <2> QED BY <2>1, <2>2, <2>3 DEF HandleLogoutRequestOpcode
<1>7. CASE p.kind = "worldport"
  <2>1. HandleMoveWorldportAck /\ session.player # None
    BY <1>0, <1>7, Opcodes DEF Handler
  <2>2. CASE LogoutPlayer
    BY <1>0, <1>3, <1>4, <2>1, <2>2, LogoutStep
  <2>3. CASE TeleportTo(session) /\ UNCHANGED sock
    BY <1>0, <1>3, <1>4, <2>1, <2>3, TeleportStep
  <2>4. CASE session' = [session EXCEPT !.inWorld = TRUE] /\ UNCHANGED <<sock, toClient>>
    <3>1. UNCHANGED <<session.loading, session.player, session.alive, session.key, session.inst,
                      session.leaving>>
      BY <1>2, <2>4 DEF SessionRec
    <3> QED BY <1>0, <1>7, <2>1, <2>4, <3>1, QuietPacket DEF p
  <2> QED BY <2>1, <2>2, <2>3, <2>4 DEF HandleMoveWorldportAck
<1>8. CASE p.kind \in {"cancel", "enum", "safe", "trade"}
  <2>1. /\ \/ session' = [session EXCEPT !.leaving = FALSE]
           \/ session' = [session EXCEPT !.recent = FALSE]
           \/ session' = session
        /\ UNCHANGED <<sock, toClient>>
    BY <1>0, <1>8 DEF Handler, Dispatched
  <2>2. /\ UNCHANGED <<session.loading, session.player, session.alive, session.key, session.inst>>
        /\ session'.leaving => session.leaving
    BY <1>2, <2>1 DEF SessionRec
  <2> QED BY <1>0, <1>8, <2>1, <2>2, QuietPacket DEF p
<1> QED BY <1>1, <1>5, <1>6, <1>7, <1>8, Opcodes

-----------------------------------------------------------------------------
(* The world thread: the connections go.                                    *)

\* Both connections of the session are closed: nothing is linked any more, and
\* the client has no phase.
LEMMA BothClosed ==
    ASSUME IndInv, NEW S, sock' = Closed(S), Realm \in S, Accepted => session.inst \in S,
           session'.key = session.key, Accepted' => Accepted /\ session'.inst = session.inst,
           linkQueue' = linkQueue \/ (linkQueue # <<>> /\ linkQueue' = Tail(linkQueue)),
           ServerInv', CountInv'
    PROVE  LoginInv'
<1>0. Types /\ ConnInv /\ Realm \in Conns /\ Keys \subseteq Conns /\ session.key \in Conns
  BY Fields DEF IndInv
<1>1. OnlyCloses /\ \A c \in Conns : c \in S => sock'[c] \notin {"open", "linked"}
  BY <1>0, ClosedCloses
<1>2. sock'[Realm] = "closed" /\ \A k \in Keys : sock'[k] # "linked"
  BY <1>0, <1>1 DEF ConnInv, OnlyCloses
<1>3. Accepted' => /\ session'.key # None /\ session'.inst = session'.key
                   /\ sock'[session'.key] \in {"linked", "closed"}
  BY <1>0, <1>1 DEF ConnInv, OnlyCloses
<1>4. \A k \in Keys : k > session'.key => sock'[k] = "none"
  BY <1>0, <1>1 DEF ConnInv, OnlyCloses, IsOpen
<1>5. /\ \A i \in 1..Len(linkQueue') : sock'[linkQueue'[i]] \in {"open", "closed"}
      /\ \A i, j \in 1..Len(linkQueue') : linkQueue'[i] = linkQueue'[j] => i = j
  BY <1>0, <1>1, KeptLinks
<1>6. ConnInv'
  BY <1>2, <1>3, <1>4, <1>5 DEF ConnInv
<1> QED BY <1>2, <1>6 DEF LoginInv, PhaseInv

\* The instance connection of an accepted login is one of the session's two.
LEMMA AcceptedSocket ==
    ASSUME IndInv
    PROVE  Realm \in BothSockets /\ (Accepted => session.inst \in BothSockets)
BY DEF IndInv, ConnInv, BothSockets, InstanceSocket

\* RefusePacket: the packet that is refused may be the login itself.
LEMMA RefusePacketStep ==
    ASSUME IndInv, RefusePacket
    PROVE  LoginInv'
<1> DEFINE p == Head(recvQueue)
           s == Dispatched(p.kind)
<1>0. /\ recvQueue # <<>> /\ recvQueue' = Tail(recvQueue)
      /\ UNCHANGED <<linkQueue, holders, client, requeue, toClient>>
      /\ KickPlayer(s)
  BY DEF RefusePacket, NextPacket, HasNext
<1>1. session \in SessionRec /\ recvQueue \in Seq(Packets) /\ ServerInv /\ CountInv
  BY DEF IndInv, Types, TypeOK, SessionRec, Packets
<1>2. /\ s.loading = session.loading /\ s.player = session.player /\ s.alive = session.alive
      /\ s.key = session.key /\ s.inst = session.inst /\ s.leaving = session.leaving
      /\ s \in SessionRec
  BY <1>1 DEF Dispatched, SessionRec
<1>3. NoLogin(requeue')
  BY <1>0, <1>1 DEF CountInv
<1> HIDE DEF s
<1>4. CASE p.kind # "login"
  <2>1. KeepsLogins(recvQueue, recvQueue')
    BY <1>0, <1>4, TakesNoLogin
  <2> QED BY <1>0, <1>2, <1>3, <2>1, KickQuiet
<1>5. CASE p.kind = "login"
  <2>1. /\ sock' = Closed(BothSockets)
        /\ UNCHANGED <<session.loading, session.player, session.key, session.inst, session.leaving>>
    BY <1>0, <1>2 DEF KickPlayer, SessionRec
  <2>2. NoLogin(recvQueue')
    BY <1>0, <1>1, <1>5, TailLogin DEF CountInv
  <2>3. ServerInv' /\ (Accepted' => Accepted)
    BY <1>0, <1>1, <2>1 DEF ServerInv, Accepted
  <2>4. CountInv'
    BY <1>0, <1>1, <1>3, <2>1, <2>2 DEF CountInv, NoLogin
  <2> QED BY <1>0, <2>1, <2>3, <2>4, AcceptedSocket, BothClosed
<1> QED BY <1>4, <1>5

\* The login query comes back.
LEMMA HandlePlayerLoginStep ==
    ASSUME IndInv, HandlePlayerLogin
    PROVE  LoginInv'
<1>0. PICK h \in holders : holders' = holders \ {h} /\ (LoginFailed \/ LoginSucceeded(h))
  BY DEF HandlePlayerLogin
<1>1. UNCHANGED <<linkQueue, recvQueue, requeue, client>>
  BY DEF HandlePlayerLogin, updateVars
<1>2. /\ session \in SessionRec /\ ServerInv /\ CountInv /\ Accepted
      /\ NoLogin(requeue) /\ NoLogin(recvQueue)
  <2>1. Accepted
    BY <1>0 DEF Accepted
  <2> QED BY <2>1, AcceptedPhase DEF IndInv, Types, TypeOK, SessionRec, CountInv
<1>3. /\ holders' = {} /\ session.player = None /\ session.loading = h.login /\ h.login # None
      /\ h.login = client.login /\ ~session.leaving
  <2>1. h.login # None
    BY Fields DEF IndInv
  <2>2. \A g \in holders : g = h
    BY <1>2 DEF ServerInv
  <2> QED BY <1>0, <1>2, <2>1, <2>2 DEF ServerInv
<1>4. CASE LoginFailed
  <2>1. /\ sock' = Closed(BothSockets)
        /\ session' = [[session EXCEPT !.player = None, !.loading = None] EXCEPT !.force = TRUE]
    BY <1>4 DEF LoginFailed, KickPlayer
  <2>2. /\ session'.player = None /\ session'.loading = None /\ ~session'.leaving
        /\ session'.key = session.key
    BY <1>2, <1>3, <2>1 DEF SessionRec
  <2>3. ServerInv' /\ ~Accepted'
    BY <1>3, <2>2 DEF ServerInv, Accepted
  <2>4. CountInv'
    BY <1>1, <1>2, <2>2 DEF CountInv, NoLogin
  <2> QED BY <1>1, <2>1, <2>2, <2>3, <2>4, AcceptedSocket, BothClosed
<1>5. CASE LoginSucceeded(h)
  <2>1. \E b \in BOOLEAN :
            session' = [session EXCEPT !.player = h.login, !.loading = None, !.inWorld = b]
    <3> DEFINE s == [session EXCEPT !.player = h.login, !.loading = None, !.inWorld = TRUE]
    <3>1. session' = s \/ session' = [s EXCEPT !.inWorld = FALSE]
      BY <1>5 DEF LoginSucceeded, TeleportTo
    <3>2. [s EXCEPT !.inWorld = FALSE] =
              [session EXCEPT !.player = h.login, !.loading = None, !.inWorld = FALSE]
      BY <1>2 DEF SessionRec
    <3> QED BY <3>1, <3>2
  <2>2. /\ sock' = sock
        /\ toClient' = toClient \/ toClient' = Sent(Message("transfer", None, None))
    BY <1>5 DEF LoginSucceeded, TeleportTo
  <2>3. /\ session'.player = h.login /\ session'.loading = None /\ ~session'.leaving
        /\ UNCHANGED <<session.alive, session.key, session.inst>>
    BY <1>2, <1>3, <2>1 DEF SessionRec
  <2>4. ServerInv' /\ Accepted'
    BY <1>1, <1>3, <2>3 DEF ServerInv, Accepted
  <2> QED BY <1>1, <1>2, <2>2, <2>3, <2>4, PlayStep
<1> QED BY <1>0, <1>4, <1>5

\* ~WorldSession.
LEMMA DeleteSessionStep ==
    ASSUME IndInv, DeleteSession
    PROVE  LoginInv'
<1>0. /\ session' = [LoggedOut(session) EXCEPT !.alive = FALSE, !.loading = None]
      /\ sock' = Closed(BothSockets) /\ recvQueue' = <<>> /\ holders' = {}
      /\ UNCHANGED <<linkQueue, requeue, client>>
  BY DEF DeleteSession
<1>1. session \in SessionRec /\ CountInv
  BY DEF IndInv, Types, TypeOK, SessionRec
<1>2. /\ session'.player = None /\ session'.loading = None /\ session'.leaving = FALSE
      /\ session'.key = session.key
  BY <1>0, <1>1 DEF LoggedOut, SessionRec
<1>3. ServerInv' /\ ~Accepted'
  BY <1>0, <1>2 DEF ServerInv, Accepted
<1>4. NoLogin(recvQueue')
  BY <1>0 DEF NoLogin
<1>5. CountInv'
  BY <1>0, <1>1, <1>2, <1>4 DEF CountInv, NoLogin
<1> QED BY <1>0, <1>2, <1>3, <1>5, AcceptedSocket, BothClosed

-----------------------------------------------------------------------------
(* The world thread: a connection is linked.                                *)

\* The connection that is accepted has the key the client was last given, so the
\* client is waiting for it.
LEMMA AcceptStep ==
    ASSUME IndInv, NEW k \in Keys, sock[k] = "open", session.alive, session.key = k,
           session.loading # None, session.player = None,
           linkQueue # <<>>, k = Head(linkQueue), linkQueue' = Tail(linkQueue),
           session' = [session EXCEPT !.inst = k], sock' = [sock EXCEPT ![k] = "linked"],
           holders' = holders \cup {[key |-> k, login |-> session.loading]},
           toClient' = Sent(Message("resumeComms", k, None)),
           UNCHANGED <<recvQueue, requeue, client>>
    PROVE  LoginInv'
<1>0. /\ Types /\ ServerInv /\ ConnInv /\ CountInv /\ session \in SessionRec
      /\ linkQueue \in Seq(Keys) /\ sock \in [Conns -> SocketStates]
      /\ Realm \in Conns /\ Realm \notin Keys /\ Keys \subseteq Conns
  BY Fields DEF IndInv, Types, TypeOK, SessionRec
<1>1. ~Accepted /\ holders = {} /\ \A c \in Keys : sock[c] # "linked"
  <2>1. ~Accepted
    BY <1>0 DEF ConnInv
  <2> QED BY <2>1, NotAccepted
<1>2. /\ session'.inst = k
      /\ UNCHANGED <<session.loading, session.player, session.alive, session.key, session.leaving>>
  BY <1>0 DEF SessionRec
<1>3. holders' = {[key |-> k, login |-> session.loading]} /\ Accepted'
  BY <1>1 DEF Accepted
<1>4. ServerInv'
  BY <1>0, <1>2, <1>3 DEF ServerInv
<1>5. sock'[k] = "linked" /\ \A c \in Conns : c # k => sock'[c] = sock[c]
  BY <1>0
<1>6. /\ \A i \in 1..Len(linkQueue') : sock'[linkQueue'[i]] \in {"open", "closed"}
      /\ \A i, j \in 1..Len(linkQueue') : linkQueue'[i] = linkQueue'[j] => i = j
  <2>1. \A i, j \in 1..Len(linkQueue) : linkQueue[i] = linkQueue[j] => i = j
    BY <1>0 DEF ConnInv
  <2>2. /\ linkQueue' \in Seq(Keys)
        /\ \A i \in 1..Len(linkQueue') : /\ linkQueue'[i] # k
                                         /\ \E j \in 1..Len(linkQueue) : linkQueue'[i] = linkQueue[j]
        /\ \A i, j \in 1..Len(linkQueue') : linkQueue'[i] = linkQueue'[j] => i = j
    BY SMTT(30), <1>0, <2>1, TailLinks
  <2>3. \A i \in 1..Len(linkQueue') : linkQueue'[i] \in Conns
    BY <1>0, <2>2
  <2> QED BY <1>0, <1>5, <2>2, <2>3 DEF ConnInv
<1>7. \A c \in Keys : c > session'.key => sock'[c] = "none"
  <2>1. \A c \in Keys : c > k => c # k
    <3>1. \A c \in Keys : c \in Nat
      BY SessionLoginAssumption DEF Keys
    <3> QED BY <3>1
  <2> QED BY <1>0, <1>2, <1>5, <2>1 DEF ConnInv
<1>8. ConnInv'
  <2>1. k # None /\ Realm # k
    BY <1>0 DEF Realm, None
  <2> QED BY <1>0, <1>1, <1>2, <1>3, <1>5, <1>6, <1>7, <2>1 DEF ConnInv
<1>9. NoLogin(recvQueue) /\ NoLogin(recvQueue)'
  BY <1>0 DEF CountInv, Idle, NoLogin
<1>10. CountInv'
  BY <1>0, <1>2, <1>9 DEF CountInv, NoLogin
<1>11. PhaseInv'
  <2> SUFFICES ASSUME sock[Realm] = "linked" PROVE Entering'
    BY <1>0, <1>5 DEF PhaseInv, Phase
  <2>1. Waiting /\ ~Idle
    BY <1>1 DEF Waiting, Idle
  <2>2. Trying
    BY <1>1, <2>1 DEF IndInv, PhaseInv, Phase, Away, Asked, Offered, Entering, Playing, Leaving, Aborted
  <2>3. PICK m : m = Message("resumeComms", k, None)
    OBVIOUS
  <2>4. toClient' = <<m>> /\ m.type = "resumeComms"
    <3>1. Sent(m) = Append(<<>>, m)
      BY <2>2 DEF Trying, Sent, IsOpen
    <3>2. Append(<<>>, m) = <<m>>
      OBVIOUS
    <3> QED BY <2>3, <3>1, <3>2 DEF Message
  <2>5. toClient' # <<>> /\ Len(toClient') = 1 /\ toClient'[1] = m
    BY <2>4
  <2>6. \A i \in 1..Len(toClient') : i # 1 => toClient'[i].type = "transfer"
    BY <2>5
  <2> QED BY <1>2, <1>3, <1>9, <2>2, <2>4, <2>5, <2>6 DEF Entering, Trying
<1> QED BY <1>4, <1>8, <1>10, <1>11 DEF LoginInv

\* A connection that is gone or has an old key is dropped; one that finds no
\* login under way ends the session; the one that was offered is accepted.
LEMMA LinkStep ==
    ASSUME IndInv, ProcessLinkInstanceSocket
    PROVE  LoginInv'
<1> DEFINE k == Head(linkQueue)
<1>0. /\ linkQueue # <<>> /\ linkQueue' = Tail(linkQueue)
      /\ UNCHANGED <<recvQueue, requeue, client>>
      /\ IF ~IsOpen(k) THEN UNCHANGED <<session, sock, holders, toClient>>
         ELSE IF ~KeyIsCurrent(k)
         THEN sock' = Closed({k}) /\ UNCHANGED <<session, holders, toClient>>
         ELSE HandleContinuePlayerLogin(k)
  BY DEF ProcessLinkInstanceSocket, updateVars
<1>1. /\ Types /\ ServerInv /\ ConnInv /\ CountInv /\ session \in SessionRec
      /\ k \in Keys /\ sock[k] \in {"open", "closed"}
  <2>1. linkQueue \in Seq(Keys) /\ \A i, j \in 1..Len(linkQueue) : linkQueue[i] = linkQueue[j] => i = j
    BY DEF IndInv, Types, TypeOK, ConnInv
  <2>2. k \in Keys /\ \E i \in 1..Len(linkQueue) : k = linkQueue[i]
    BY <1>0, <2>1, TailLinks
  <2> QED BY <2>2 DEF IndInv, Types, TypeOK, SessionRec, ConnInv
<1>2. /\ KeepsLogins(recvQueue, recvQueue) /\ NoLogin(requeue)
      /\ session.leaving => session.player # None
  BY <1>1 DEF KeepsLogins, CountInv, ServerInv
<1> HIDE DEF k
<1>3. CASE ~(IsOpen(k) /\ KeyIsCurrent(k))
  <2>1. UNCHANGED <<session, holders, toClient>> /\ (sock' = sock \/ sock' = Closed({k}))
    BY <1>0, <1>3
  <2>2. OnlyCloses
    BY <1>1, <2>1, ClosedCloses DEF OnlyCloses
  <2> QED BY <1>0, <1>2, <2>1, <2>2, Quiet DEF LoginInv
<1>4. CASE IsOpen(k) /\ KeyIsCurrent(k)
  <2>1. /\ HandleContinuePlayerLogin(k)
        /\ sock[k] = "open" /\ session.alive /\ session.key = k
    BY <1>0, <1>1, <1>4 DEF IsOpen, KeyIsCurrent
  <2>2. CASE session.loading = None \/ session.player # None
    <3>1. /\ session' = [[session EXCEPT !.inst = k] EXCEPT !.force = TRUE]
          /\ sock' = Closed({Realm, k}) /\ UNCHANGED holders
      BY <2>1, <2>2 DEF HandleContinuePlayerLogin
    <3>2. UNCHANGED <<session.loading, session.player, session.alive, session.key, session.leaving>>
      BY <1>1, <3>1 DEF SessionRec
    <3>3. ~Accepted /\ ~Accepted' /\ Idle' = Idle
      BY <1>1, <2>1, <3>1, <3>2 DEF ConnInv, Accepted, Idle
    <3>4. ServerInv'
      BY <1>0, <1>1, <3>1, <3>2 DEF ServerInv
    <3>5. CountInv'
      BY <1>0, <1>1, <3>2, <3>3 DEF CountInv, NoLogin, OneLogin
    <3> QED BY <1>0, <3>1, <3>2, <3>3, <3>4, <3>5, BothClosed
  <2>3. CASE session.loading # None /\ session.player = None
    <3>1. /\ session' = [session EXCEPT !.inst = k] /\ sock' = [sock EXCEPT ![k] = "linked"]
          /\ holders' = holders \cup {[key |-> k, login |-> session.loading]}
          /\ toClient' = Sent(Message("resumeComms", k, None))
      BY <2>1, <2>3 DEF HandleContinuePlayerLogin
    <3> QED BY <1>0, <1>1, <2>1, <2>3, <3>1, AcceptStep DEF k
  <2> QED BY <2>2, <2>3
<1> QED BY <1>3, <1>4

-----------------------------------------------------------------------------
(* The client.                                                              *)

ClientRec == [at : {"left", "select", "login", "in"}, login : {None} \cup Logins,
              key : {None} \cup Keys, serial : {None} \cup Serials, sent : Nat]

\* The packet that a client sends.
LEMMA SendsPacket ==
    ASSUME IndInv, NEW c \in ClientRec, NEW kind \in Kinds, QueuePacket(kind, c)
    PROVE  /\ recvQueue' \in Seq(Packets)
           /\ kind # "login" => KeepsLogins(recvQueue, recvQueue')
           /\ kind = "login" /\ NoLogin(recvQueue) => OneLogin(recvQueue', c.login)
<1>1. recvQueue \in Seq(Packets)
  BY DEF IndInv, Types, TypeOK, Packets
<1>2. PICK m : m = [kind |-> kind, login |-> c.login, n |-> c.sent]
  OBVIOUS
<1>3. m \in Packets /\ m.kind = kind /\ m.login = c.login
  BY <1>2 DEF Packets, ClientRec
<1>4. recvQueue' = Append(recvQueue, m)
  BY <1>2 DEF QueuePacket
<1>5. recvQueue' \in Seq(Packets)
  BY <1>1, <1>3, <1>4, AppendProperties
<1>6. kind # "login" => KeepsLogins(recvQueue, recvQueue')
  BY <1>1, <1>3, <1>4, AppendLogin DEF KeepsLogins
<1> QED BY <1>1, <1>3, <1>4, <1>5, <1>6, AppendLogin

\* The server does nothing, the client chooses no other character.
LEMMA ClientAlone ==
    ASSUME IndInv, UNCHANGED <<session, sock, linkQueue, holders, requeue, client.login>>,
           KeepsLogins(recvQueue, recvQueue')
    PROVE  /\ ServerInv' /\ ConnInv' /\ CountInv'
           /\ NoLogin(recvQueue) => NoLogin(recvQueue)'
           /\ Idle' = Idle /\ Waiting' = Waiting /\ Accepted' = Accepted
<1>0. Types /\ ServerInv /\ ConnInv /\ CountInv
  BY DEF IndInv
<1>1. Idle' = Idle /\ Waiting' = Waiting /\ Accepted' = Accepted
  BY DEF Idle, Waiting, Accepted
<1>2. /\ NoLogin(recvQueue) => NoLogin(recvQueue)'
      /\ client.login # None /\ OneLogin(recvQueue, client.login) => OneLogin(recvQueue, client.login)'
  <2>1. client.login # None => client.login \in Logins
    BY <1>0, Fields
  <2>2. NoLogin(recvQueue)' = NoLogin(recvQueue')
    BY DEF NoLogin
  <2>3. OneLogin(recvQueue, client.login)' = OneLogin(recvQueue', client.login)
    BY DEF OneLogin
  <2> QED BY <2>1, <2>2, <2>3 DEF KeepsLogins
<1>3. ServerInv'
  BY <1>0 DEF ServerInv
<1>4. ConnInv'
  BY <1>0, <1>1 DEF ConnInv
<1>5. CountInv'
  BY <1>0, <1>1, <1>2 DEF CountInv, NoLogin
<1> QED BY <1>1, <1>2, <1>3, <1>4, <1>5

\* Enumerate, Play and CancelTrade.
LEMMA ClientPackets ==
    ASSUME IndInv, Enumerate \/ Play \/ CancelTrade
    PROVE  LoginInv'
<1>0. client \in ClientRec /\ ConnInv
  BY DEF IndInv, Types, TypeOK, ClientRec
<1>1. CASE Enumerate
  <2>1. PICK c : c = [client EXCEPT !.at = "select"]
    OBVIOUS
  <2>2. /\ Online /\ client.at = "left" /\ ClientSends("enum", c) /\ UNCHANGED toClient
    BY <1>1, <2>1 DEF Enumerate
  <2>3. /\ UNCHANGED <<session, sock, linkQueue, holders, requeue>>
        /\ client' = c /\ QueuePacket("enum", c)
    BY <2>2 DEF ClientSends, updateVars
  <2>4. c \in ClientRec /\ c.at = "select" /\ c.login = client.login
    BY <1>0, <2>1 DEF ClientRec
  <2>5. KeepsLogins(recvQueue, recvQueue')
    BY <2>3, <2>4, SendsPacket, Opcodes
  <2>6. Away
    BY <2>2 DEF Online, IndInv, PhaseInv, Phase, Asked, Offered, Trying, Entering, Playing, Leaving, Aborted
  <2>7. /\ ServerInv' /\ ConnInv' /\ CountInv'
        /\ NoLogin(recvQueue) => NoLogin(recvQueue)' /\ Idle' = Idle
    BY <2>3, <2>4, <2>5, ClientAlone
  <2>8. Away'
    BY <2>2, <2>3, <2>4, <2>6, <2>7 DEF Away
  <2> QED BY <2>7, <2>8 DEF LoginInv, PhaseInv, Phase
<1>2. CASE Play \/ CancelTrade
  <2>1. PICK c : c = [client EXCEPT !.sent = @ + 1]
    OBVIOUS
  <2>2. UNCHANGED toClient /\ \E kind \in {"safe", "logout", "cancel", "trade"} : ClientSends(kind, c)
    BY <1>2, <2>1 DEF Play, CancelTrade
  <2>3. PICK kind \in {"safe", "logout", "cancel", "trade"} : ClientSends(kind, c)
    BY <2>2
  <2>4. /\ UNCHANGED <<session, sock, linkQueue, holders, requeue>>
        /\ client' = c /\ QueuePacket(kind, c)
    BY <2>3 DEF ClientSends, updateVars
  <2>5. /\ c \in ClientRec /\ c.at = client.at /\ c.login = client.login
        /\ c.key = client.key /\ c.serial = client.serial
    BY <1>0, <2>1 DEF ClientRec
  <2>6. KeepsLogins(recvQueue, recvQueue')
    BY <2>3, <2>4, <2>5, SendsPacket, Opcodes
  <2>7. OnlyCloses /\ NoLogin(requeue') /\ (session.leaving => session.player # None)
    BY <2>4 DEF OnlyCloses, IndInv, CountInv, ServerInv
  <2> QED BY <2>2, <2>4, <2>5, <2>6, <2>7, Quiet DEF LoginInv
<1> QED BY <1>1, <1>2

\* ChooseCharacter: the session is idle, and has a key for every attempt.
LEMMA ChooseStep ==
    ASSUME IndInv, ChooseCharacter
    PROVE  LoginInv'
<1>0. client \in ClientRec /\ Types /\ ServerInv /\ ConnInv /\ CountInv
  BY DEF IndInv, Types, TypeOK, ClientRec
<1>1. PICK c : c = [client EXCEPT !.at = "login", !.login = @ + 1, !.key = None, !.serial = None]
  OBVIOUS
<1>2. /\ Online /\ client.at = "select" /\ client.login < MaxLogins
      /\ ClientSends("login", c) /\ UNCHANGED toClient
  BY <1>1 DEF ChooseCharacter
<1>3. /\ UNCHANGED <<session, sock, linkQueue, holders, requeue>>
      /\ client' = c /\ QueuePacket("login", c)
  BY <1>2 DEF ClientSends, updateVars
<1>4. c.at = "login" /\ c.login = client.login + 1 /\ c.key = None /\ c.serial = None
      /\ c.sent = client.sent
  BY <1>0, <1>1 DEF ClientRec
<1>5. client.login \in Nat /\ client.login + 1 \in Logins /\ (client.login + 1) - 1 = client.login
  <2>1. client.login = 0 \/ client.login \in 1..MaxLogins
    BY <1>0, Fields DEF None, Logins
  <2> QED BY <1>2, <2>1, SessionLoginAssumption DEF Logins
<1>6. c \in ClientRec
  BY <1>0, <1>1, <1>5 DEF ClientRec
<1>7. Away
  BY <1>2 DEF Online, IndInv, PhaseInv, Phase, Asked, Offered, Trying, Entering, Playing, Leaving, Aborted
<1>8. OneLogin(recvQueue', c.login) /\ Idle /\ toClient = <<>>
  BY <1>3, <1>6, <1>7, SendsPacket, Opcodes DEF Away
<1>9. Idle' /\ Accepted' = Accepted
  BY <1>3, <1>8 DEF Idle, Accepted
<1>10. ServerInv'
  BY <1>0, <1>3, <1>8, Fields DEF ServerInv, Idle
<1>11. ConnInv'
  BY <1>0, <1>3, <1>9 DEF ConnInv
<1>12. OneLogin(recvQueue, client.login)'
  BY <1>3, <1>8 DEF OneLogin
<1>13. CountInv'
  <2>1. session.key <= client.login * Attempts /\ session.key \in Nat
    BY <1>0, Fields DEF CountInv
  <2>2. client.login * Attempts <= (client.login + 1) * Attempts /\ client.login * Attempts \in Nat
        /\ (client.login + 1) * Attempts \in Nat
    <3>1. /\ ((client.login + 1) - 1) * Attempts \in Nat /\ (client.login + 1) * Attempts \in Nat
          /\ (client.login + 1) * Attempts = ((client.login + 1) - 1) * Attempts + Attempts
      BY <1>5, KeyCount
    <3> QED BY <1>5, <3>1, SessionLoginAssumption
  <2>3. /\ session'.key <= client'.login * Attempts
        /\ session'.key <= (client'.login - 1) * Attempts
    BY <1>3, <1>4, <1>5, <2>1, <2>2
  <2>4. client'.login # None
    BY <1>3, <1>4, <1>5 DEF None
  <2>5. NoLogin(requeue)'
    BY <1>0, <1>3 DEF CountInv, NoLogin
  <2> QED BY <1>9, <1>12, <2>3, <2>4, <2>5 DEF CountInv
<1>14. Asked'
  BY <1>2, <1>3, <1>4, <1>8, <1>9, <1>12 DEF Asked
<1> QED BY <1>10, <1>11, <1>13, <1>14 DEF LoginInv, PhaseInv, Phase

\* The first message is taken.
LEMMA TailMessages ==
    ASSUME NEW q \in Seq(Messages), q # <<>>
    PROVE  /\ Head(q) \in Messages /\ Head(q) = q[1] /\ Tail(q) \in Seq(Messages)
           /\ Len(q) \in Nat /\ Len(q) # 0 /\ Len(Tail(q)) = Len(q) - 1
           /\ \A i \in 1..Len(Tail(q)) : i \in Nat /\ i + 1 \in 1..Len(q) /\ Tail(q)[i] = q[i + 1]
           /\ Len(q) = 1 => Tail(q) = <<>>
<1>0. PICK t : t = Tail(q)
  OBVIOUS
<1>1. /\ Head(q) \in Messages /\ t \in Seq(Messages) /\ Head(q) = q[1]
      /\ Len(t) = Len(q) - 1 /\ \A i \in 1..(Len(q) - 1) : t[i] = q[i + 1]
  BY <1>0, HeadTailProperties
<1>2. Len(q) \in Nat /\ Len(q) # 0
  BY EmptySeq
<1>3. \A i \in 1..Len(t) : i \in Nat /\ i + 1 \in 1..Len(q) /\ t[i] = q[i + 1]
  BY <1>1, <1>2
<1>4. Len(q) = 1 => t = <<>>
  <2>1. Len(q) = 1 => Len(t) = 0
    BY <1>1
  <2> QED BY <1>1, <2>1, EmptySeq
<1> QED BY <1>0, <1>1, <1>2, <1>3, <1>4

\* What a message does to the client.
LEMMA Received ==
    ASSUME IndInv, Receive
    PROVE  /\ UNCHANGED <<session, sock, linkQueue, holders, requeue, client.login>>
           /\ KeepsLogins(recvQueue, recvQueue') /\ recvQueue' \in Seq(Packets)
           /\ toClient # <<>> /\ toClient' = Tail(toClient) /\ client' \in ClientRec
           /\ Head(toClient).type = "connectTo" =>
                 /\ client'.at = client.at
                 /\ client'.key = Head(toClient).key /\ client'.serial = Head(toClient).serial
           /\ Head(toClient).type # "connectTo" => UNCHANGED <<client.key, client.serial>>
           /\ Head(toClient).type = "resumeComms" => client'.at = "in"
           /\ Head(toClient).type = "loginFailed" => client'.at = "select"
           /\ Head(toClient).type = "logoutComplete" => client'.at = "left"
           /\ Head(toClient).type = "transfer" => client'.at = client.at
<1> DEFINE m == Head(toClient)
           c == CASE m.type = "connectTo"      -> [client EXCEPT !.key = m.key, !.serial = m.serial]
                  [] m.type = "resumeComms"    -> [client EXCEPT !.at = "in"]
                  [] m.type = "loginFailed"    -> [client EXCEPT !.at = "select"]
                  [] m.type = "logoutComplete" -> [client EXCEPT !.at = "left"]
                  [] m.type = "transfer"       -> [client EXCEPT !.sent = @ + 1]
<1>0. client \in ClientRec /\ toClient \in Seq(Messages)
  BY DEF IndInv, Types, TypeOK, ClientRec
<1>1. /\ toClient # <<>> /\ toClient' = Tail(toClient)
      /\ IF m.type = "transfer" /\ sock[client.key] = "linked"
         THEN ClientSends("worldport", c)
         ELSE /\ client' = c
              /\ UNCHANGED <<session, sock, linkQueue, holders, recvQueue, updateVars, moves, last>>
  BY DEF Receive
<1>2. m \in Messages
  BY <1>0, <1>1, TailMessages
<1>3. /\ m.type \in {"connectTo", "resumeComms", "loginFailed", "logoutComplete", "transfer"}
      /\ m.key \in {None} \cup Keys /\ m.serial \in {None} \cup Serials
  BY <1>2 DEF Messages
<1> HIDE DEF m
<1>4. PICK d : d = c
  OBVIOUS
<1>5. /\ d \in ClientRec /\ d.login = client.login
      /\ m.type = "connectTo" => d.at = client.at /\ d.key = m.key /\ d.serial = m.serial
      /\ m.type # "connectTo" => d.key = client.key /\ d.serial = client.serial
      /\ m.type = "resumeComms" => d.at = "in"
      /\ m.type = "loginFailed" => d.at = "select"
      /\ m.type = "logoutComplete" => d.at = "left"
      /\ m.type = "transfer" => d.at = client.at
  <2>1. CASE m.type = "connectTo"
    <3>1. d = [client EXCEPT !.key = m.key, !.serial = m.serial]
      BY <1>4, <2>1
    <3>2. d.at = client.at /\ d.key = m.key /\ d.serial = m.serial /\ d.login = client.login
          /\ d.sent = client.sent
      BY <1>0, <3>1, Zenon DEF ClientRec
    <3>3. d \in ClientRec
      BY <1>0, <1>3, <3>1, Zenon DEF ClientRec
    <3> QED BY <2>1, <3>2, <3>3
  <2>2. CASE m.type \in {"resumeComms", "loginFailed", "logoutComplete"}
    <3>1. PICK w \in {"in", "select", "left"} :
             /\ d = [client EXCEPT !.at = w]
             /\ m.type = "resumeComms" => w = "in"
             /\ m.type = "loginFailed" => w = "select"
             /\ m.type = "logoutComplete" => w = "left"
      BY <1>4, <2>2
    <3>2. d \in ClientRec /\ d.at = w /\ d.login = client.login /\ d.key = client.key
          /\ d.serial = client.serial
      BY <1>0, <3>1 DEF ClientRec
    <3> QED BY <2>2, <3>1, <3>2
  <2>3. CASE m.type = "transfer"
    <3>1. d = [client EXCEPT !.sent = @ + 1]
      BY <1>4, <2>3
    <3>2. d \in ClientRec /\ d.at = client.at /\ d.login = client.login /\ d.key = client.key
          /\ d.serial = client.serial
      BY <1>0, <3>1 DEF ClientRec
    <3> QED BY <2>3, <3>2
  <2> QED BY <1>3, <2>1, <2>2, <2>3
<1> HIDE DEF c
<1>6. CASE m.type = "transfer" /\ sock[client.key] = "linked"
  <2>1. /\ UNCHANGED <<session, sock, linkQueue, holders, requeue>>
        /\ client' = d /\ QueuePacket("worldport", d)
    BY <1>1, <1>4, <1>6 DEF ClientSends, updateVars
  <2>2. KeepsLogins(recvQueue, recvQueue') /\ recvQueue' \in Seq(Packets)
    BY <1>5, <2>1, SendsPacket, Opcodes
  <2> QED BY <1>1, <1>5, <2>1, <2>2 DEF m
<1>7. CASE ~(m.type = "transfer" /\ sock[client.key] = "linked")
  <2>1. UNCHANGED <<session, sock, linkQueue, holders, recvQueue, requeue>> /\ client' = d
    BY <1>1, <1>4, <1>7 DEF updateVars
  <2>2. KeepsLogins(recvQueue, recvQueue') /\ recvQueue' \in Seq(Packets)
    BY <2>1 DEF KeepsLogins, IndInv, Types, TypeOK, Packets
  <2> QED BY <1>1, <1>5, <2>1, <2>2 DEF m
<1> QED BY <1>6, <1>7

\* Every message is the one that the client's phase lets it expect.
LEMMA ReceiveStep ==
    ASSUME IndInv, Receive
    PROVE  LoginInv'
<1> DEFINE m == Head(toClient)
<1>0. Types /\ toClient \in Seq(Messages)
  BY DEF IndInv, Types
<1>1. /\ ServerInv' /\ ConnInv' /\ CountInv'
      /\ NoLogin(recvQueue) => NoLogin(recvQueue)'
      /\ Idle' = Idle /\ Waiting' = Waiting /\ Accepted' = Accepted
  BY Received, ClientAlone
<1>2. /\ UNCHANGED <<session, sock, client.login>>
      /\ toClient # <<>> /\ toClient' = Tail(toClient)
      /\ m.type = "connectTo" => client'.at = client.at /\ client'.key = m.key /\ client'.serial = m.serial
      /\ m.type # "connectTo" => UNCHANGED <<client.key, client.serial>>
      /\ m.type = "resumeComms" => client'.at = "in"
      /\ m.type = "loginFailed" => client'.at = "select"
      /\ m.type = "logoutComplete" => client'.at = "left"
      /\ m.type = "transfer" => client'.at = client.at
  BY Received
<1>3. /\ m = toClient[1] /\ Len(toClient) \in Nat /\ Len(toClient) # 0 /\ 1 \in 1..Len(toClient)
      /\ Len(toClient') = Len(toClient) - 1 /\ toClient' \in Seq(Messages)
      /\ \A i \in 1..Len(toClient') : /\ i \in Nat /\ i + 1 \in 1..Len(toClient) /\ i + 1 # 1
                                       /\ toClient'[i] = toClient[i + 1]
      /\ Len(toClient) = 1 => toClient' = <<>>
  <2>1. /\ m = toClient[1] /\ Len(toClient) \in Nat /\ Len(toClient) # 0
        /\ Len(toClient') = Len(toClient) - 1 /\ toClient' \in Seq(Messages)
        /\ \A i \in 1..Len(toClient') : i \in Nat /\ i + 1 \in 1..Len(toClient)
                                         /\ toClient'[i] = toClient[i + 1]
        /\ Len(toClient) = 1 => toClient' = <<>>
    BY <1>0, <1>2, TailMessages
  <2>2. 1 \in 1..Len(toClient) /\ \A i \in 1..Len(toClient') : i + 1 # 1
    BY <2>1
  <2> QED BY <2>1, <2>2
<1> HIDE DEF m
<1>4. ASSUME sock[Realm] = "linked" PROVE Phase'
  <2>0. Phase /\ ~Away /\ ~Asked /\ ~Trying
    BY <1>2, <1>4 DEF IndInv, PhaseInv, Away, Asked, Trying
  <2>1. ASSUME Offered PROVE Trying'
    <3>1. PICK s \in Serials : /\ toClient = <<Message("connectTo", session.key, s)>>
                               /\ session.key <= (client.login - 1) * Attempts + s
      BY <2>1 DEF Offered
    <3>2. m.type = "connectTo" /\ m.key = session.key /\ m.serial = s /\ Len(toClient) = 1
      BY <1>3, <3>1 DEF Message
    <3>3. s # None
      BY SessionLoginAssumption DEF Serials, None
    <3> QED BY <1>1, <1>2, <1>3, <2>1, <3>1, <3>2, <3>3 DEF Offered, Trying
  <2>2. ASSUME Entering PROVE Playing'
    <3>1. m.type = "resumeComms"
      BY <1>3, <2>2 DEF Entering
    <3>2. \A i \in 1..Len(toClient') : toClient'[i].type = "transfer"
      BY <1>3, <2>2 DEF Entering
    <3> QED BY <1>1, <1>2, <2>2, <3>1, <3>2 DEF Entering, Playing
  <2>3. ASSUME Playing PROVE Playing'
    <3>1. m.type = "transfer"
      BY <1>3, <2>3 DEF Playing
    <3>2. \A i \in 1..Len(toClient') : toClient'[i].type = "transfer"
      BY <1>3, <2>3 DEF Playing
    <3> QED BY <1>1, <1>2, <2>3, <3>1, <3>2 DEF Playing
  <2>4. ASSUME Leaving PROVE Away' \/ Leaving'
    <3>1. CASE Len(toClient) = 1
      <4>1. m.type = "logoutComplete"
        BY <1>3, <2>4, <3>1 DEF Leaving
      <4> QED BY <1>1, <1>2, <1>3, <2>4, <3>1, <4>1 DEF Leaving, Away
    <3>2. CASE Len(toClient) # 1
      <4>1. m.type = IF client.at = "login" THEN "resumeComms" ELSE "transfer"
        BY <1>3, <2>4, <3>2 DEF Leaving
      <4>2. client'.at = "in"
        BY <1>2, <2>4, <4>1 DEF Leaving
      <4>3. /\ Len(toClient') \in Nat /\ Len(toClient') # 0
            /\ Len(toClient') \in 1..Len(toClient') /\ Len(toClient') + 1 = Len(toClient)
        BY <1>3, <3>2
      <4>4. toClient' # <<>> /\ toClient'[Len(toClient')] = toClient[Len(toClient)]
        BY <1>3, <4>3, EmptySeq
      <4>5. \A i \in 1..Len(toClient') : i # Len(toClient') => i + 1 # Len(toClient)
        BY <1>3
      <4>6. \A i \in 1..Len(toClient') : i # Len(toClient') => toClient'[i].type = "transfer"
        BY <1>3, <2>4, <4>5 DEF Leaving
      <4> QED BY <1>1, <2>4, <4>2, <4>4, <4>6 DEF Leaving
    <3> QED BY <3>1, <3>2
  <2>5. ASSUME Aborted PROVE Away'
    <3>1. m.type = "loginFailed" /\ Len(toClient) = 1
      BY <1>3, <2>5 DEF Aborted, Message
    <3> QED BY <1>1, <1>2, <1>3, <2>5, <3>1 DEF Aborted, Away
  <2> QED BY <2>0, <2>1, <2>2, <2>3, <2>4, <2>5 DEF Phase
<1> QED BY <1>1, <1>2, <1>4 DEF LoginInv, PhaseInv

\* The client connects with the last key it was given, which is the session's.
LEMMA ConnectStep ==
    ASSUME IndInv, ConnectInstance
    PROVE  LoginInv'
<1> DEFINE k == client.key
<1>0. /\ Online /\ client.at = "login" /\ k # None /\ sock[k] = "none"
      /\ sock' = [sock EXCEPT ![k] = "open"] /\ linkQueue' = Append(linkQueue, k)
      /\ UNCHANGED <<session, holders, recvQueue, requeue, toClient, client>>
  BY DEF ConnectInstance, Connecting, updateVars
<1>1. /\ Types /\ ServerInv /\ ConnInv /\ CountInv /\ linkQueue \in Seq(Keys)
      /\ sock \in [Conns -> SocketStates] /\ k \in Keys
      /\ Realm \in Conns /\ Realm \notin Keys /\ Keys \subseteq Conns /\ session.key \in Conns
  BY <1>0, Fields DEF IndInv, Types, TypeOK
<1>2. /\ Trying \/ Entering \/ Leaving
      /\ k = session.key
  BY <1>0 DEF Online, IndInv, PhaseInv, Phase, Away, Asked, Offered, Trying, Entering, Playing, Leaving, Aborted
<1> HIDE DEF k
<1>3. sock'[k] = "open" /\ \A c \in Conns : c # k => sock'[c] = sock[c]
  BY <1>0, <1>1
<1>4. Idle' = Idle /\ Waiting' = Waiting /\ Accepted' = Accepted /\ ~Accepted
  BY <1>0, <1>1, <1>2 DEF Idle, Waiting, Accepted, ConnInv
<1>5. ServerInv' /\ CountInv'
  <2>1. NoLogin(recvQueue)' = NoLogin(recvQueue) /\ NoLogin(requeue)' = NoLogin(requeue)
        /\ OneLogin(recvQueue, client.login)' = OneLogin(recvQueue, client.login)
    BY <1>0 DEF NoLogin, OneLogin
  <2> QED BY <1>0, <1>1, <1>4, <2>1 DEF ServerInv, CountInv
<1>6. ConnInv'
  <2>1. /\ Len(linkQueue') = Len(linkQueue) + 1 /\ Len(linkQueue) \in Nat
        /\ linkQueue'[Len(linkQueue) + 1] = k
        /\ \A i \in 1..Len(linkQueue) : linkQueue'[i] = linkQueue[i]
    BY <1>0, <1>1, AppendProperties
  <2>2. \A i \in 1..Len(linkQueue') : i \in 1..Len(linkQueue) \/ i = Len(linkQueue) + 1
    BY <2>1
  <2>3. \A i \in 1..Len(linkQueue) : linkQueue[i] \in Conns /\ linkQueue[i] # k
    BY <1>0, <1>1 DEF ConnInv
  <2>4. \A i \in 1..Len(linkQueue') : sock'[linkQueue'[i]] \in {"open", "closed"}
    BY <1>1, <1>3, <2>1, <2>2, <2>3 DEF ConnInv
  <2>5. \A i, j \in 1..Len(linkQueue') : linkQueue'[i] = linkQueue'[j] => i = j
    BY <1>1, <2>1, <2>2, <2>3 DEF ConnInv
  <2>6. \A c \in Keys : c > session'.key => sock'[c] = "none"
    <3>1. \A c \in Keys : c > k => c # k
      <4>1. \A c \in Keys : c \in Nat
        BY SessionLoginAssumption DEF Keys
      <4> QED BY <4>1
    <3> QED BY <1>0, <1>1, <1>2, <1>3, <3>1 DEF ConnInv
  <2>7. Realm # k
    BY <1>1
  <2>8. \A c \in Keys : sock'[c] # "linked"
    BY <1>1, <1>3, <1>4 DEF ConnInv
  <2> QED BY <1>0, <1>1, <1>3, <1>4, <2>4, <2>5, <2>6, <2>7, <2>8 DEF ConnInv
<1>7. Phase'
  <2>1. NoLogin(recvQueue)' = NoLogin(recvQueue)
    BY <1>0 DEF NoLogin
  <2>2. Trying => Trying'
    BY <1>0, <1>4, <2>1 DEF Trying
  <2>3. ~Entering
    BY <1>4 DEF Entering
  <2>4. Leaving => Leaving'
    BY <1>0, <1>4, <2>1 DEF Leaving
  <2> QED BY <1>2, <2>2, <2>3, <2>4 DEF Phase
<1> QED BY <1>5, <1>6, <1>7 DEF LoginInv, PhaseInv

\* CMSG_CONNECT_TO_FAILED of a client that has not been accepted: another key, or
\* the end of the login.
LEMMA GiveUpStep ==
    ASSUME Patient, IndInv, GiveUp
    PROVE  LoginInv' /\ session' \in SessionRec /\ toClient' \in Seq(Messages)
<1>0. /\ Online /\ client.at = "login" /\ client.key # None
      /\ \A i \in DOMAIN toClient : toClient[i].type # "resumeComms"
      /\ client' = [client EXCEPT !.key = None] /\ HandleConnectToFailed(client.serial)
      /\ UNCHANGED <<linkQueue, holders, recvQueue, requeue>>
  BY DEF GiveUp, Connecting, updateVars
<1>1. /\ Types /\ ServerInv /\ ConnInv /\ CountInv /\ session \in SessionRec /\ client \in ClientRec
      /\ toClient \in Seq(Messages)
  BY DEF IndInv, Types, TypeOK, SessionRec, ClientRec
<1>2. Trying
  <2>1. toClient # <<>> => toClient[1].type # "resumeComms"
    <3>1. toClient # <<>> => 1 \in DOMAIN toClient
      BY <1>1, EmptySeq
    <3> QED BY <1>0, <3>1
  <2> QED BY <1>0, <2>1 DEF Online, IndInv, PhaseInv, Phase, Away, Asked, Offered, Entering, Playing, Leaving, Aborted
<1>3. /\ Waiting /\ NoLogin(recvQueue) /\ toClient = <<>> /\ client.serial \in Serials
      /\ session.key <= (client.login - 1) * Attempts + client.serial
      /\ session.loading # None /\ session.player = None /\ holders = {} /\ ~session.leaving
      /\ client.login \in Logins
  <2>1. client.serial \in Serials
    BY <1>1, <1>2, Fields DEF Trying
  <2>2. session.player = None /\ session.loading # None /\ holders = {}
    BY <1>1, <1>2 DEF Trying, Waiting, ServerInv
  <2>3. client.login \in Logins
    BY <1>1, <2>2, Fields DEF ServerInv
  <2> QED BY <1>1, <1>2, <2>1, <2>2, <2>3 DEF Trying, ServerInv
<1>4. ~Accepted /\ (Accepted' <=> session'.player # None)
  BY <1>0, <1>3 DEF Accepted
<1>5. client'.at = "login" /\ client'.login = client.login /\ client'.key = None
  BY <1>0, <1>1 DEF ClientRec
<1>6. NoLogin(recvQueue)' /\ NoLogin(requeue)'
  BY <1>0, <1>1, <1>3 DEF NoLogin, CountInv
<1>7. \A m : Sent(m) = <<m>>
  <2>1. \A m : Append(<<>>, m) = <<m>>
    OBVIOUS
  <2> QED BY <1>0, <1>3, <2>1 DEF Sent, IsOpen, Online
<1>8. CASE client.serial < Attempts
  <2>1. /\ session' = [session EXCEPT !.key = @ + 1] /\ sock' = sock
        /\ toClient' = Sent(Message("connectTo", session.key + 1, client.serial + 1))
    BY <1>0, <1>3, <1>8 DEF HandleConnectToFailed, SendConnectToInstance
  <2>2. /\ session'.key = session.key + 1
        /\ UNCHANGED <<session.loading, session.player, session.alive, session.leaving>>
    BY <1>1, <2>1 DEF SessionRec
  <2>3. /\ session.key \in Nat /\ session.key + 1 \in Keys /\ client.serial + 1 \in Serials
        /\ session.key + 1 <= (client.login - 1) * Attempts + (client.serial + 1)
        /\ session.key + 1 <= client.login * Attempts
    <3>1. session.key \in Nat
      BY <1>1, Fields
    <3>2. /\ (client.login - 1) * Attempts \in Nat /\ client.login * Attempts \in Nat
          /\ client.login * Attempts = (client.login - 1) * Attempts + Attempts
          /\ client.login * Attempts <= MaxLogins * Attempts
      BY <1>3, KeyCount
    <3>3. Attempts \in Nat /\ client.serial \in Nat /\ client.serial + 1 \in Serials
      BY <1>3, <1>8, SessionLoginAssumption DEF Serials
    <3>4. MaxLogins * Attempts \in Nat
      BY SessionLoginAssumption
    <3>5. /\ session.key + 1 <= (client.login - 1) * Attempts + (client.serial + 1)
          /\ session.key + 1 <= client.login * Attempts
          /\ session.key + 1 \in 1..(MaxLogins * Attempts)
      BY SMTT(30), <1>3, <1>8, <3>1, <3>2, <3>3, <3>4
    <3> QED BY <3>1, <3>3, <3>5 DEF Keys
  <2>4. Waiting' /\ ~Accepted'
    BY <1>0, <1>3, <1>4, <2>2 DEF Waiting
  <2>5. ServerInv'
    BY <1>0, <1>1, <1>3, <1>5, <2>2 DEF ServerInv
  <2>6. ConnInv'
    <3>1. \A k \in Keys : k > session.key + 1 => k > session.key
      <4>1. \A k \in Keys : k \in Nat
        BY SessionLoginAssumption DEF Keys
      <4> QED BY <2>3, <4>1
    <3> QED BY <1>0, <1>1, <1>4, <2>1, <2>2, <2>4, <3>1 DEF ConnInv
  <2>7. CountInv'
    BY <1>5, <1>6, <2>2, <2>3 DEF CountInv
  <2>8. sock[session.key + 1] = "none" /\ session.key + 1 # None
    <3>1. session.key + 1 > session.key /\ session.key + 1 # 0
      BY <2>3
    <3> QED BY <1>1, <2>3, <3>1 DEF ConnInv, None
  <2>9. toClient' = <<Message("connectTo", session'.key, client.serial + 1)>>
    BY <1>7, <2>1, <2>2
  <2>10. Offered'
    BY <1>5, <1>6, <2>1, <2>2, <2>3, <2>4, <2>8, <2>9 DEF Offered
  <2>11. session' \in SessionRec
    BY <1>1, <2>1, <2>3 DEF SessionRec
  <2>12. toClient' \in Seq(Messages)
    <3>1. Message("connectTo", session.key + 1, client.serial + 1) \in Messages
      BY <2>3 DEF Message, Messages
    <3> QED BY <2>1, <3>1, SentType
  <2> QED BY <2>5, <2>6, <2>7, <2>10, <2>11, <2>12 DEF LoginInv, PhaseInv, Phase
<1>9. CASE ~(client.serial < Attempts)
  <2>1. /\ session' = [session EXCEPT !.loading = None] /\ sock' = sock
        /\ toClient' = Sent(Message("loginFailed", None, None))
    BY <1>0, <1>3, <1>9 DEF HandleConnectToFailed, AbortLogin
  <2>2. /\ session'.loading = None
        /\ UNCHANGED <<session.key, session.player, session.alive, session.leaving, session.inst>>
    BY <1>1, <2>1 DEF SessionRec
  <2>3. Idle' /\ ~Accepted'
    BY <1>3, <1>4, <2>2 DEF Idle
  <2>4. ServerInv'
    BY <1>0, <1>3, <2>2 DEF ServerInv
  <2>5. ConnInv'
    BY <1>0, <1>1, <1>4, <2>1, <2>2, <2>3 DEF ConnInv
  <2>6. CountInv'
    BY <1>1, <1>5, <1>6, <2>2 DEF CountInv
  <2>7. toClient' = <<Message("loginFailed", None, None)>>
    BY <1>7, <2>1
  <2>8. Aborted'
    BY <1>5, <1>6, <2>3, <2>7 DEF Aborted
  <2>9. session' \in SessionRec
    BY <1>1, <2>1 DEF SessionRec
  <2>10. toClient' \in Seq(Messages)
    <3>1. Message("loginFailed", None, None) \in Messages
      BY DEF Message, Messages
    <3> QED BY <2>1, <3>1, SentType
  <2> QED BY <2>4, <2>5, <2>6, <2>8, <2>9, <2>10 DEF LoginInv, PhaseInv, Phase
<1> QED BY <1>8, <1>9

-----------------------------------------------------------------------------
(* Types.                                                                   *)

\* The steps that several operations share.
LEMMA SharedTypes ==
    ASSUME IndInv
    PROVE  /\ \A S : Closed(S) \in [Conns -> SocketStates]
           /\ \A t \in SessionRec : KickPlayer(t) =>
                 session' \in SessionRec /\ sock' \in [Conns -> SocketStates]
           /\ \A t \in SessionRec : TeleportTo(t) =>
                 session' \in SessionRec /\ moves' \in 0..MaxMoves /\ toClient' \in Seq(Messages)
           /\ LogoutPlayer => /\ session' \in SessionRec /\ sock' \in [Conns -> SocketStates]
                              /\ toClient' \in Seq(Messages)
<1>0. /\ session \in SessionRec /\ sock \in [Conns -> SocketStates] /\ moves \in 0..MaxMoves
      /\ MaxMoves \in Nat
  BY SessionLoginAssumption DEF IndInv, Types, TypeOK, SessionRec
<1>1. \A S : Closed(S) \in [Conns -> SocketStates]
  BY <1>0 DEF Closed, SocketStates
<1>2. ASSUME NEW t \in SessionRec, KickPlayer(t)
      PROVE  session' \in SessionRec /\ sock' \in [Conns -> SocketStates]
  <2>1. session' \in SessionRec
    BY <1>2 DEF KickPlayer, SessionRec
  <2> QED BY <1>1, <1>2, <2>1 DEF KickPlayer
<1>3. Message("transfer", None, None) \in Messages /\ Message("logoutComplete", None, None) \in Messages
  BY DEF Message, Messages
<1>4. ASSUME NEW t \in SessionRec, TeleportTo(t)
      PROVE  session' \in SessionRec /\ moves' \in 0..MaxMoves /\ toClient' \in Seq(Messages)
  <2>1. session' \in SessionRec
    BY <1>4 DEF TeleportTo, SessionRec
  <2>2. moves' \in 0..MaxMoves
    BY <1>0, <1>4 DEF TeleportTo
  <2>3. toClient' \in Seq(Messages)
    BY <1>3, <1>4, SentType DEF TeleportTo
  <2> QED BY <2>1, <2>2, <2>3
<1>5. ASSUME LogoutPlayer
      PROVE  /\ session' \in SessionRec /\ sock' \in [Conns -> SocketStates]
             /\ toClient' \in Seq(Messages)
  <2>1. LoggedOut(session) \in SessionRec
    BY <1>0, Zenon DEF LoggedOut, SessionRec
  <2> QED BY <1>1, <1>3, <1>5, <2>1, SentType DEF LogoutPlayer
<1> QED BY <1>1, <1>2, <1>4, <1>5

\* The current types, in one place.
LEMMA TypesNow ==
    ASSUME IndInv
    PROVE  /\ session \in SessionRec /\ sock \in [Conns -> SocketStates] /\ linkQueue \in Seq(Keys)
           /\ holders \subseteq [key : Keys, login : Logins]
           /\ recvQueue \in Seq(Packets) /\ requeue \in Seq(Packets)
           /\ processed \in 0..(Limit + 1)
           /\ pc \in {"links", "world", "worldCallbacks", "cleanup", "map", "mapCallbacks"}
           /\ client \in ClientRec /\ moves \in 0..MaxMoves /\ toClient \in Seq(Messages)
BY DEF IndInv, Types, TypeOK, SessionRec, ClientRec, Packets

\* The types of the next state follow from those of its parts.
LEMMA TypesThen ==
    ASSUME session' \in SessionRec, sock' \in [Conns -> SocketStates], linkQueue' \in Seq(Keys),
           holders' \subseteq [key : Keys, login : Logins],
           recvQueue' \in Seq(Packets), requeue' \in Seq(Packets),
           processed' \in 0..(Limit + 1),
           pc' \in {"links", "world", "worldCallbacks", "cleanup", "map", "mapCallbacks"},
           client' \in ClientRec, moves' \in 0..MaxMoves, toClient' \in Seq(Messages)
    PROVE  Types'
BY DEF Types, TypeOK, SessionRec, ClientRec, Packets

\* The packet loop.
LEMMA PacketTypes ==
    ASSUME IndInv, RequeuePacket \/ DropPacket \/ HandlePacket \/ RefusePacket
    PROVE  Types'
<1> DEFINE p == Head(recvQueue)
<1>0. /\ recvQueue # <<>> /\ recvQueue' = Tail(recvQueue) /\ processed <= Limit
      /\ UNCHANGED <<linkQueue, holders, pc, client>>
      /\ processed' = processed + 1 \/ processed' = Limit + 1
  BY DEF RequeuePacket, DropPacket, HandlePacket, RefusePacket, NextPacket, HasNext
<1>1. p \in Packets /\ Tail(recvQueue) \in Seq(Packets)
  BY <1>0, TypesNow, TailLogin
<1>2. processed' \in 0..(Limit + 1)
  BY <1>0, TypesNow, SessionLoginAssumption
<1>3. Append(requeue, p) \in Seq(Packets)
  BY <1>1, TypesNow, AppendProperties
<1>4. requeue' \in Seq(Packets)
  BY <1>3, TypesNow DEF RequeuePacket, DropPacket, HandlePacket, RefusePacket
<1>5. /\ session' \in SessionRec /\ sock' \in [Conns -> SocketStates]
      /\ toClient' \in Seq(Messages) /\ moves' \in 0..MaxMoves
  <2>1. CASE RequeuePacket \/ DropPacket
    BY <2>1, TypesNow DEF RequeuePacket, DropPacket
  <2>2. CASE RefusePacket
    <3>1. Dispatched(p.kind) \in SessionRec
      BY TypesNow DEF Dispatched, SessionRec
    <3> QED BY <2>2, <3>1, TypesNow, SharedTypes DEF RefusePacket
  <2>3. CASE HandlePacket
    <3>0. Handler(p) /\ p.kind \in Kinds /\ UNCHANGED requeue
      BY <1>1, <2>3 DEF HandlePacket, Packets
    <3> HIDE DEF p
    <3>1. CASE p.kind = "login"
      <4>1. HandlePlayerLoginOpcode(p.login) /\ UNCHANGED moves
        BY <3>0, <3>1 DEF Handler
      <4>2. session' \in SessionRec /\ toClient' \in Seq(Messages)
        BY <1>0, <3>0, <3>1, <4>1, LoginStep DEF p
      <4>3. sock' \in [Conns -> SocketStates]
        BY <4>1, TypesNow, SharedTypes DEF HandlePlayerLoginOpcode
      <4> QED BY <4>1, <4>2, <4>3, TypesNow
    <3>2. CASE p.kind = "logout"
      <4>1. HandleLogoutRequestOpcode /\ UNCHANGED moves
        BY <3>0, <3>2 DEF Handler
      <4>2. CASE LogoutPlayer
        BY <4>1, <4>2, TypesNow, SharedTypes
      <4>3. CASE \E b \in BOOLEAN : session' = [session EXCEPT !.leaving = b] /\ UNCHANGED <<sock, toClient>>
        BY <4>1, <4>3, TypesNow DEF SessionRec
      <4> QED BY <4>1, <4>2, <4>3 DEF HandleLogoutRequestOpcode
    <3>3. CASE p.kind = "worldport"
      <4>1. HandleMoveWorldportAck
        BY <3>0, <3>3 DEF Handler
      <4>2. CASE LogoutPlayer /\ UNCHANGED moves
        BY <4>2, TypesNow, SharedTypes
      <4>3. CASE TeleportTo(session) /\ UNCHANGED sock
        BY <4>3, TypesNow, SharedTypes
      <4>4. CASE session' = [session EXCEPT !.inWorld = TRUE] /\ UNCHANGED <<sock, toClient, moves>>
        BY <4>4, TypesNow DEF SessionRec
      <4> QED BY <4>1, <4>2, <4>3, <4>4 DEF HandleMoveWorldportAck
    <3>4. CASE p.kind \in {"cancel", "enum", "safe", "trade"}
      <4>1. /\ \/ session' = [session EXCEPT !.leaving = FALSE]
               \/ session' = [session EXCEPT !.recent = FALSE]
               \/ session' = session
            /\ UNCHANGED <<sock, toClient, moves>>
        BY <3>0, <3>4 DEF Handler, Dispatched
      <4> QED BY <4>1, TypesNow DEF SessionRec
    <3> QED BY <3>0, <3>1, <3>2, <3>3, <3>4, Opcodes
  <2> QED BY <2>1, <2>2, <2>3
<1> HIDE DEF p
<1> QED BY <1>0, <1>1, <1>2, <1>4, <1>5, TypesNow, TypesThen

\* The steps in which the session changes otherwise.
LEMMA SessionTypes ==
    ASSUME IndInv, \/ ProcessLinkInstanceSocket \/ HandlePlayerLogin
                   \/ LogoutWhenDue \/ DeleteSession \/ FarTeleport
    PROVE  Types'
<1>1. CASE ProcessLinkInstanceSocket
  <2> DEFINE k == Head(linkQueue)
  <2>0. /\ linkQueue # <<>> /\ linkQueue' = Tail(linkQueue)
        /\ UNCHANGED <<recvQueue, requeue, processed, pc, client, moves>>
        /\ \/ UNCHANGED <<session, sock, holders, toClient>>
           \/ sock' = Closed({k}) /\ UNCHANGED <<session, holders, toClient>>
           \/ HandleContinuePlayerLogin(k)
    BY <1>1 DEF ProcessLinkInstanceSocket, updateVars
  <2>1. k \in Keys /\ Tail(linkQueue) \in Seq(Keys) /\ k \in Conns
    <3>1. k \in Keys /\ Tail(linkQueue) \in Seq(Keys)
      BY <2>0, TypesNow, HeadTailProperties
    <3> QED BY <3>1 DEF Conns
  <2> HIDE DEF k
  <2>2. /\ session' \in SessionRec /\ sock' \in [Conns -> SocketStates] /\ toClient' \in Seq(Messages)
        /\ holders' \subseteq [key : Keys, login : Logins]
    <3>1. CASE UNCHANGED <<session, holders, toClient>> /\ (sock' = sock \/ sock' = Closed({k}))
      BY <3>1, TypesNow, SharedTypes
    <3>2. CASE HandleContinuePlayerLogin(k)
      <4>0. PICK t : t = [session EXCEPT !.inst = k]
        OBVIOUS
      <4>1. t \in SessionRec
        BY <2>1, <4>0, TypesNow DEF SessionRec
      <4>2. CASE session.loading = None \/ session.player # None
        <5>1. session' = [t EXCEPT !.force = TRUE] /\ sock' = Closed({Realm, k}) /\ UNCHANGED <<holders, toClient>>
          BY <3>2, <4>0, <4>2 DEF HandleContinuePlayerLogin
        <5>2. session' \in SessionRec
          BY <4>1, <5>1 DEF SessionRec
        <5> QED BY <5>1, <5>2, TypesNow, SharedTypes
      <4>3. CASE session.loading # None /\ session.player = None
        <5>1. /\ session' = t /\ sock' = [sock EXCEPT ![k] = "linked"]
              /\ holders' = holders \cup {[key |-> k, login |-> session.loading]}
              /\ toClient' = Sent(Message("resumeComms", k, None))
          BY <3>2, <4>0, <4>3 DEF HandleContinuePlayerLogin
        <5>2. session.loading \in Logins
          BY <4>3, TypesNow DEF SessionRec
        <5>3. sock' \in [Conns -> SocketStates]
          BY <2>1, <5>1, TypesNow DEF SocketStates
        <5>4. Message("resumeComms", k, None) \in Messages
          BY <2>1 DEF Message, Messages
        <5> QED BY <2>1, <4>1, <5>1, <5>2, <5>3, <5>4, TypesNow, SentType
      <4> QED BY <4>2, <4>3
    <3> QED BY <2>0, <3>1, <3>2
  <2> QED BY <2>0, <2>1, <2>2, TypesNow, TypesThen
<1>2. CASE HandlePlayerLogin
  <2>0. PICK h \in holders : holders' = holders \ {h} /\ (LoginFailed \/ LoginSucceeded(h))
    BY <1>2 DEF HandlePlayerLogin
  <2>1. UNCHANGED <<linkQueue, recvQueue, requeue, processed, pc, client>>
    BY <1>2 DEF HandlePlayerLogin, updateVars
  <2>2. h.login \in Logins /\ holders' \subseteq [key : Keys, login : Logins]
    BY <2>0, TypesNow
  <2>3. /\ session' \in SessionRec /\ sock' \in [Conns -> SocketStates]
        /\ toClient' \in Seq(Messages) /\ moves' \in 0..MaxMoves
    <3>1. CASE LoginFailed
      <4>1. [session EXCEPT !.player = None, !.loading = None] \in SessionRec
        BY TypesNow, Zenon DEF SessionRec
      <4> QED BY <3>1, <4>1, TypesNow, SharedTypes DEF LoginFailed
    <3>2. CASE LoginSucceeded(h)
      <4>0. PICK t : t = [session EXCEPT !.player = h.login, !.loading = None, !.inWorld = TRUE]
        OBVIOUS
      <4>1. t \in SessionRec
        BY <2>2, <4>0, TypesNow, Zenon DEF SessionRec
      <4>2. UNCHANGED sock /\ ((session' = t /\ UNCHANGED <<toClient, moves>>) \/ TeleportTo(t))
        BY <3>2, <4>0 DEF LoginSucceeded
      <4> QED BY <4>1, <4>2, TypesNow, SharedTypes
    <3> QED BY <2>0, <3>1, <3>2
  <2> QED BY <2>1, <2>2, <2>3, TypesNow, TypesThen
<1>3. CASE LogoutWhenDue
  <2>1. LogoutPlayer /\ UNCHANGED <<linkQueue, holders, recvQueue, requeue, processed, pc, client, moves>>
    BY <1>3 DEF LogoutWhenDue, updateVars
  <2> QED BY <2>1, TypesNow, SharedTypes, TypesThen
<1>4. CASE DeleteSession
  <2>1. /\ session' = [LoggedOut(session) EXCEPT !.alive = FALSE, !.loading = None]
        /\ sock' = Closed(BothSockets) /\ recvQueue' = <<>> /\ holders' = {} /\ pc' = "links"
        /\ UNCHANGED <<linkQueue, requeue, processed, toClient, client, moves>>
    BY <1>4 DEF DeleteSession
  <2>2. PICK t : t = LoggedOut(session)
    OBVIOUS
  <2>3. t \in SessionRec
    BY <2>2, TypesNow, Zenon DEF LoggedOut, SessionRec
  <2>4. session' \in SessionRec
    BY <2>1, <2>2, <2>3, Zenon DEF SessionRec
  <2>5. recvQueue' \in Seq(Packets) /\ holders' \subseteq [key : Keys, login : Logins]
    BY <2>1
  <2> QED BY <2>1, <2>4, <2>5, TypesNow, SharedTypes, TypesThen
<1>5. CASE FarTeleport
  <2>1. /\ TeleportTo(session)
        /\ UNCHANGED <<sock, linkQueue, holders, recvQueue, requeue, processed, pc, client>>
    BY <1>5 DEF FarTeleport, updateVars
  <2> QED BY <2>1, TypesNow, SharedTypes, TypesThen
<1> QED BY <1>1, <1>2, <1>3, <1>4, <1>5

\* The other steps of the world thread, and Disconnect.
LEMMA PlainTypes ==
    ASSUME IndInv,
           \/ \E isIdle \in BOOLEAN : BeginWorldUpdate(isIdle)
           \/ EndPackets \/ EndCallbacks \/ EndWorldUpdate
           \/ \E c \in Conns : Disconnect(c)
    PROVE  Types'
<1>1. UNCHANGED <<session, holders, toClient, client, linkQueue, moves>>
  BY DEF BeginWorldUpdate, EndPackets, EndCallbacks, EndWorldUpdate, Disconnect
<1>2. sock' \in [Conns -> SocketStates]
  <2>1. sock' = sock \/ \E S : sock' = Closed(S)
    BY DEF BeginWorldUpdate, EndPackets, EndCallbacks, EndWorldUpdate, Disconnect, BeginUpdate
  <2> QED BY <2>1, TypesNow, SharedTypes
<1>3. recvQueue' \in Seq(Packets) /\ requeue' \in Seq(Packets)
  <2>1. requeue \o recvQueue \in Seq(Packets)
    BY TypesNow, ConcatProperties
  <2>2. recvQueue' = recvQueue \/ recvQueue' = requeue \o recvQueue
    BY DEF BeginWorldUpdate, EndPackets, EndCallbacks, EndWorldUpdate, Disconnect, Readd
  <2>3. requeue' = requeue \/ requeue' = <<>>
    BY DEF BeginWorldUpdate, EndPackets, EndCallbacks, EndWorldUpdate, Disconnect, BeginUpdate, updateVars
  <2>4. recvQueue' \in Seq(Packets)
    BY <2>1, <2>2, TypesNow
  <2>5. <<>> \in Seq(Packets)
    OBVIOUS
  <2> QED BY <2>3, <2>4, <2>5, TypesNow
<1>4. processed' \in 0..(Limit + 1)
  <2>1. processed' = processed \/ processed' = 0
    BY DEF BeginWorldUpdate, EndPackets, EndCallbacks, EndWorldUpdate, Disconnect, BeginUpdate, updateVars
  <2> QED BY <2>1, TypesNow, SessionLoginAssumption
<1>5. pc' \in {"links", "world", "worldCallbacks", "cleanup", "map", "mapCallbacks"}
  BY TypesNow DEF BeginWorldUpdate, EndPackets, EndCallbacks, EndWorldUpdate, Disconnect, BeginUpdate, updateVars
<1> QED BY <1>1, <1>2, <1>3, <1>4, <1>5, TypesNow, TypesThen

\* The client.
LEMMA ClientTypes ==
    ASSUME Patient, IndInv, Client
    PROVE  Types'
<1>1. CASE Enumerate \/ ChooseCharacter \/ Play \/ CancelTrade
  <2>1. /\ UNCHANGED toClient
        /\ \E kind \in Kinds, c \in ClientRec : ClientSends(kind, c)
    <3>1. CASE Enumerate
      <4>0. client \in ClientRec
        BY TypesNow
      <4>1. [client EXCEPT !.at = "select"] \in ClientRec
        BY <4>0 DEF ClientRec
      <4> QED BY <3>1, <4>1, Opcodes DEF Enumerate
    <3>2. CASE ChooseCharacter
      <4>1. client.login + 1 \in Logins
        <5>1. client.login = 0 \/ client.login \in 1..MaxLogins
          BY Fields DEF IndInv, None, Logins
        <5> QED BY <3>2, <5>1, SessionLoginAssumption DEF ChooseCharacter, Logins
      <4>2. [client EXCEPT !.at = "login", !.login = @ + 1, !.key = None, !.serial = None] \in ClientRec
        BY <4>1, TypesNow, Zenon DEF ClientRec
      <4> QED BY <3>2, <4>2, Opcodes DEF ChooseCharacter
    <3>3. CASE Play \/ CancelTrade
      <4>0. client \in ClientRec
        BY TypesNow
      <4>1. [client EXCEPT !.sent = @ + 1] \in ClientRec
        BY <4>0 DEF ClientRec
      <4> QED BY <3>3, <4>1, Opcodes DEF Play, CancelTrade
    <3> QED BY <1>1, <3>1, <3>2, <3>3
  <2>2. PICK kind \in Kinds, c \in ClientRec : ClientSends(kind, c)
    BY <2>1
  <2>3. /\ client' = c /\ QueuePacket(kind, c)
        /\ UNCHANGED <<session, sock, linkQueue, holders, requeue, processed, pc, moves>>
    BY <2>2 DEF ClientSends, updateVars
  <2>4. recvQueue' \in Seq(Packets)
    BY <2>3, SendsPacket
  <2> QED BY <2>1, <2>3, <2>4, TypesNow, TypesThen
<1>2. CASE Receive
  <2>1. /\ UNCHANGED <<session, sock, linkQueue, holders, requeue>>
        /\ recvQueue' \in Seq(Packets) /\ client' \in ClientRec
        /\ toClient # <<>> /\ toClient' = Tail(toClient)
    BY <1>2, Received
  <2>2. UNCHANGED <<processed, pc, moves>>
    BY <1>2 DEF Receive, ClientSends, updateVars
  <2>3. toClient' \in Seq(Messages)
    BY <2>1, TypesNow, TailMessages
  <2> QED BY <2>1, <2>2, <2>3, TypesNow, TypesThen
<1>3. CASE ConnectInstance
  <2>1. /\ client.key # None /\ sock' = [sock EXCEPT ![client.key] = "open"]
        /\ linkQueue' = Append(linkQueue, client.key)
        /\ UNCHANGED <<session, holders, recvQueue, requeue, processed, pc, toClient, client, moves>>
    BY <1>3 DEF ConnectInstance, Connecting, updateVars
  <2>2. client.key \in Keys
    BY <2>1, Fields DEF IndInv
  <2>3. sock' \in [Conns -> SocketStates]
    BY <2>1, <2>2, TypesNow DEF Conns, SocketStates
  <2>4. linkQueue' \in Seq(Keys)
    BY <2>1, <2>2, TypesNow, AppendProperties
  <2> QED BY <2>1, <2>3, <2>4, TypesNow, TypesThen
<1>4. CASE GiveUp
  <2>1. /\ client' = [client EXCEPT !.key = None] /\ HandleConnectToFailed(client.serial)
        /\ UNCHANGED <<linkQueue, holders, recvQueue, requeue, processed, pc, moves>>
    BY <1>4 DEF GiveUp, updateVars
  <2>2. session' \in SessionRec /\ toClient' \in Seq(Messages)
    BY <1>4, GiveUpStep
  <2>3. sock' \in [Conns -> SocketStates]
    BY <2>1, TypesNow, SharedTypes DEF HandleConnectToFailed, SendConnectToInstance, AbortLogin
  <2>4. client' \in ClientRec
    BY <2>1, TypesNow DEF ClientRec
  <2> QED BY <2>1, <2>2, <2>3, <2>4, TypesNow, TypesThen
<1> QED BY <1>1, <1>2, <1>3, <1>4 DEF Client

-----------------------------------------------------------------------------
(* The theorems.                                                            *)

\* The first state: nobody has chosen anything, the realm connection is there.
LEMMA InitIndInv ==
    Init => IndInv
<1> SUFFICES ASSUME Init PROVE IndInv
  OBVIOUS
<1>0. /\ Attempts \in Nat \ {0} /\ Limit \in Nat /\ MaxLogins \in Nat /\ MaxMoves \in Nat
      /\ MaxLogins * Attempts \in Nat
  BY SessionLoginAssumption
<1>1. Types
  <2>1. session \in SessionRec /\ client \in ClientRec
    BY DEF Init, SessionRec, ClientRec
  <2>2. sock \in [Conns -> SocketStates]
    BY DEF Init, SocketStates
  <2>3. processed \in 0..(Limit + 1) /\ moves \in 0..MaxMoves
    BY <1>0 DEF Init
  <2>4. /\ linkQueue \in Seq(Keys) /\ holders \subseteq [key : Keys, login : Logins]
        /\ recvQueue \in Seq(Packets) /\ requeue \in Seq(Packets) /\ toClient \in Seq(Messages)
        /\ pc = "links"
    BY DEF Init
  <2> QED BY <2>1, <2>2, <2>3, <2>4 DEF Types, TypeOK, SessionRec, ClientRec, Packets
<1>2. /\ session.key = None /\ session.loading = None /\ session.player = None
      /\ session.alive = TRUE /\ session.leaving = FALSE /\ client.at = "left" /\ client.login = None
      /\ holders = {} /\ recvQueue = <<>> /\ requeue = <<>> /\ linkQueue = <<>> /\ toClient = <<>>
  BY DEF Init
<1>3. ServerInv
  BY <1>2 DEF ServerInv
<1>4. Realm \in Conns /\ Keys \subseteq Conns /\ Realm \notin Keys
  BY <1>1, Fields
<1>5. ConnInv
  <2>1. sock[Realm] = "linked" /\ \A k \in Keys : sock[k] = "none"
    BY <1>4 DEF Init
  <2> QED BY <1>2, <2>1 DEF ConnInv, Accepted
<1>6. CountInv
  <2>1. None <= None * Attempts
    BY <1>0 DEF None
  <2> QED BY <1>2, <2>1 DEF CountInv, NoLogin
<1>7. PhaseInv
  <2>1. Away
    BY <1>2 DEF Away, Idle, NoLogin
  <2> QED BY <2>1 DEF PhaseInv, Phase
<1> QED BY <1>1, <1>3, <1>5, <1>6, <1>7 DEF IndInv

\* Every step of the world thread, of the client and of the network.
LEMMA NextIndInv ==
    ASSUME Patient, IndInv, [Next]_vars
    PROVE  IndInv'
<1>1. CASE UNCHANGED vars
  BY SMTT(30), <1>1 DEF vars, updateVars, IndInv, Types, TypeOK, ServerInv, ConnInv, CountInv, PhaseInv, Phase,
              Accepted, Idle, Waiting, NoLogin, OneLogin, Away, Asked, Offered, Trying, Entering,
              Playing, Leaving, Aborted
<1>2. CASE Next
  <2>1. Types'
    BY <1>2, PacketTypes, SessionTypes, PlainTypes, ClientTypes DEF Next, WorldThread
  <2>2. LoginInv'
    BY <1>2, PlainSteps, KeepOrDrop, MapAndLogout, HandlePacketStep, RefusePacketStep,
       HandlePlayerLoginStep, DeleteSessionStep, LinkStep, ClientPackets, ChooseStep,
       ReceiveStep, ConnectStep, GiveUpStep DEF Next, WorldThread, Client
  <2> QED BY <2>1, <2>2 DEF LoginInv, IndInv
<1> QED BY <1>1, <1>2

\* Client and server stay in step through every login, retry, late connection,
\* logout and loss of a connection (WorldSession::Update, HandlePlayerLoginOpcode,
\* HandleConnectToFailed, HandleContinuePlayerLogin).
THEOREM LoginInStep ==
    ASSUME Patient
    PROVE  Spec => []IndInv
<1>1. Init => IndInv
  BY InitIndInv
<1>2. Patient /\ IndInv /\ [Next]_vars => IndInv'
  BY NextIndInv
<1>3. []Patient
  BY PTL
<1> QED BY <1>1, <1>2, <1>3, PTL DEF Spec

\* Every variable has its type; the server never runs out of keys.
THEOREM LoginTypeOK ==
    ASSUME Patient
    PROVE  Spec => []TypeOK
<1>1. IndInv => TypeOK
  BY DEF IndInv, Types
<1> QED BY <1>1, LoginInStep, PTL

\* One login query at most is under way, only while no character is there and for
\* the character chosen last; the character that is there is the one chosen last
\* (LogoutPlayer, HandlePlayerLoginOpcode, HandleContinuePlayerLogin).
THEOREM OneCharacter ==
    ASSUME Patient
    PROVE  Spec => []OneCharacterOnline
<1>1. ASSUME IndInv PROVE OneCharacterOnline
  <2>0. ServerInv
    BY <1>1 DEF IndInv
  <2>1. Cardinality(holders) <= 1
    <3>1. CASE holders = {}
      BY <3>1, FS_EmptySet
    <3>2. CASE holders # {}
      <4>1. PICK h : holders = {h}
        BY <2>0, <3>2 DEF ServerInv
      <4>2. Cardinality({h}) = 1
        BY FS_Singleton, Zenon
      <4> QED BY <4>1, <4>2
    <3> QED BY <3>1, <3>2
  <2> QED BY <2>0, <2>1 DEF ServerInv, OneCharacterOnline
<1>2. IndInv => OneCharacterOnline
  BY <1>1
<1> QED BY <1>2, LoginInStep, PTL

\* No open WorldSocket points to a deleted session, and the linked ones are the
\* session's own two (LogoutPlayer, KickPlayer, ~WorldSession, AddInstanceConnection).
THEOREM PointersAlive ==
    ASSUME Patient
    PROVE  Spec => []NoDanglingSessionPointer
<1>1. ASSUME IndInv PROVE NoDanglingSessionPointer
  <2> SUFFICES ASSUME NEW c \in Conns, sock[c] = "linked"
               PROVE  session.alive /\ c \in BothSockets
    BY DEF NoDanglingSessionPointer
  <2>0. ConnInv /\ Types
    BY <1>1 DEF IndInv
  <2>1. CASE c = Realm
    BY <2>0, <2>1 DEF ConnInv, BothSockets
  <2>2. CASE c \in Keys
    <3>1. session.alive /\ c = session.inst
      BY <2>0, <2>2 DEF ConnInv
    <3>2. c # None
      BY <2>0, <2>2, Fields DEF Realm, None
    <3> QED BY <3>1, <3>2 DEF BothSockets, InstanceSocket
  <2> QED BY <2>1, <2>2 DEF Conns
<1>2. IndInv => NoDanglingSessionPointer
  BY <1>1
<1> QED BY <1>2, LoginInStep, PTL

-----------------------------------------------------------------------------
(* The order of the packets.                                                *)

\* Packets for a character, which the client numbers.
Numbered(p) == Status[p.kind] \in {"loggedin", "transfer"}

\* The numbers of those in a queue; r is in front of q.
Ascending(q) == \A i, j \in 1..Len(q) :
    i < j /\ Numbered(q[i]) /\ Numbered(q[j]) => q[i].n < q[j].n
Within(q, low, high) == \A i \in 1..Len(q) : Numbered(q[i]) => low < q[i].n /\ q[i].n <= high
Before(r, q) == \A i \in 1..Len(r), j \in 1..Len(q) :
    Numbered(r[i]) /\ Numbered(q[j]) => r[i].n < q[j].n

\* CMSG_ENUM_CHARACTERS ends what was sent for one character: it is asked for
\* once, and before the next login.
NoEnum(q) == \A i \in 1..Len(q) : q[i].kind # "enum"
EnumFirst(q) == \A i, j \in 1..Len(q) :
    /\ q[i].kind = "enum" /\ q[j].kind = "enum" => i = j
    /\ q[i].kind = "enum" /\ q[j].kind = "login" => i < j
EnumBehind(q, i) == \E j \in 1..Len(q) : j > i /\ q[j].kind = "enum"

\* Whose packets there are; login is the client's last choice.
UpTo(q, login) == \A i \in 1..Len(q) : Numbered(q[i]) => q[i].login <= login
NoneOf(q, login) == \A i \in 1..Len(q) : Numbered(q[i]) => q[i].login # login
AllOf(r, login) == \A i \in 1..Len(r) : Numbered(r[i]) /\ r[i].login = login
NoneStale(q, login) == \A i \in 1..Len(q) : Numbered(q[i]) => q[i].login = login
StaleEnds(q, login) == \A i \in 1..Len(q) :
    Numbered(q[i]) /\ q[i].login # login => EnumBehind(q, i)
NoneNumbered(q) == \A i \in 1..Len(q) : ~Numbered(q[i])
NumberedEnds(q) == \A i \in 1..Len(q) : Numbered(q[i]) => EnumBehind(q, i)

\* The numbers of all that wait ascend, above the one handled last.
PacketsInOrder(q, r, low, high) ==
    /\ low \in Nat /\ low <= high
    /\ Ascending(r) /\ Ascending(q) /\ Before(r, q)
    /\ Within(r, low, high) /\ Within(q, low, high)

\* Packets of an earlier character are followed by CMSG_ENUM_CHARACTERS and are
\* dropped, because the session has just logged out; those put back are of the
\* character chosen last.
LoginsInOrder(q, r, login, recent, idle) ==
    /\ EnumFirst(q) /\ (NoEnum(q) \/ idle)
    /\ UpTo(q, login) /\ StaleEnds(q, login) /\ (NoneStale(q, login) \/ recent)
    /\ AllOf(r, login)

\* What the client has sent by the time it is there, as long as the realm
\* connection is: resumed and leaving are messages it has not read yet.
ClientInOrder(q, r, login, at, recent, resumed, leaving) ==
    /\ at = "select" => r = <<>> /\ NumberedEnds(q) /\ (NoneNumbered(q) \/ recent)
    /\ at = "left" => r = <<>> /\ NoEnum(q) /\ (NoneNumbered(q) \/ recent)
    /\ at = "login" /\ ~resumed => r = <<>> /\ NoneOf(q, login)
    /\ leaving => recent /\ r = <<>> /\ NoEnum(q)

\* A message of that type is on its way.
Told(s, type) == \E i \in 1..Len(s) : s[i].type = type

\* Packets are put back only while no character is there.
Held == requeue # <<>> => session.player = None /\ pc \in {"world", "map"}

OrderInv ==
    /\ PacketsInOrder(recvQueue, requeue, last.n, client.sent)
    /\ LoginsInOrder(recvQueue, requeue, client.login, session.recent, Idle)
    /\ Held
    /\ sock[Realm] = "linked" =>
          ClientInOrder(recvQueue, requeue, client.login, client.at, session.recent,
                        Told(toClient, "resumeComms"), Told(toClient, "logoutComplete"))

\* The invariant of the next state, spelled out.
LEMMA OrderThen ==
    ASSUME PacketsInOrder(recvQueue', requeue', last'.n, client'.sent),
           LoginsInOrder(recvQueue', requeue', client'.login, session'.recent, Idle'),
           Held',
           sock'[Realm] = "linked" =>
              ClientInOrder(recvQueue', requeue', client'.login, client'.at, session'.recent,
                            Told(toClient', "resumeComms"), Told(toClient', "logoutComplete"))
    PROVE  OrderInv'
BY DEF OrderInv, Told, PacketsInOrder, LoginsInOrder, ClientInOrder, Ascending, Within, Before, NoEnum,
       EnumFirst, EnumBehind, UpTo, NoneOf, AllOf, NoneStale, StaleEnds, NoneNumbered, NumberedEnds,
       Numbered

\* The opcodes that are numbered.
LEMMA NumberedKinds ==
    ASSUME NEW p \in Packets
    PROVE  Numbered(p) <=> p.kind \in {"safe", "logout", "cancel", "worldport"}
<1>1. p.kind \in {"enum", "login", "safe", "logout", "cancel", "trade", "worldport"}
  BY Opcodes DEF Packets
<1> QED BY <1>1 DEF Numbered, Status

\* The positions behind the first one.
LEMMA TailPositions ==
    ASSUME NEW q \in Seq(Packets), q # <<>>
    PROVE  /\ Len(q) \in Nat /\ 1 \in 1..Len(q) /\ Head(q) = q[1] /\ Head(q) \in Packets
           /\ Tail(q) \in Seq(Packets)
           /\ \A i \in 1..Len(Tail(q)) : /\ i \in Nat /\ i + 1 \in 1..Len(q) /\ 1 < i + 1
                                          /\ Tail(q)[i] = q[i + 1]
           /\ \A i \in 1..Len(q) : i > 1 => /\ i - 1 \in 1..Len(Tail(q)) /\ (i - 1) + 1 = i
                                             /\ Tail(q)[i - 1] = q[i]
<1>0. PICK t : t = Tail(q)
  OBVIOUS
<1>1. /\ Head(q) \in Packets /\ t \in Seq(Packets) /\ Head(q) = q[1]
      /\ Len(t) = Len(q) - 1 /\ \A i \in 1..(Len(q) - 1) : t[i] = q[i + 1]
  BY <1>0, HeadTailProperties
<1>2. Len(q) \in Nat /\ Len(q) # 0
  BY EmptySeq
<1>3. /\ 1 \in 1..Len(q)
      /\ \A i \in 1..Len(t) : i \in Nat /\ i + 1 \in 1..Len(q) /\ 1 < i + 1 /\ t[i] = q[i + 1]
      /\ \A i \in 1..Len(q) : i > 1 => i - 1 \in 1..Len(t) /\ (i - 1) + 1 = i
  BY <1>1, <1>2
<1>4. \A i \in 1..Len(q) : i > 1 => t[i - 1] = q[i]
  BY <1>3
<1> QED BY <1>0, <1>1, <1>2, <1>3, <1>4

\* The first packet is taken: the numbers.
LEMMA TailNumbers ==
    ASSUME NEW q \in Seq(Packets), q # <<>>, NEW low, NEW high, Ascending(q), Within(q, low, high)
    PROVE  /\ Ascending(Tail(q)) /\ Within(Tail(q), low, high)
           /\ Numbered(Head(q)) => /\ low < Head(q).n /\ Head(q).n <= high
                                   /\ Within(Tail(q), Head(q).n, high)
           /\ \A r : Before(r, q) => Before(r, Tail(q))
<1>0. PICK t, h : t = Tail(q) /\ h = Head(q)
  OBVIOUS
<1>1. /\ 1 \in 1..Len(q) /\ h = q[1]
      /\ \A i \in 1..Len(t) : i \in Nat /\ i + 1 \in 1..Len(q) /\ 1 < i + 1 /\ t[i] = q[i + 1]
  BY <1>0, TailPositions
<1>2. Ascending(t)
  <2> SUFFICES ASSUME NEW i \in 1..Len(t), NEW j \in 1..Len(t), i < j, Numbered(t[i]), Numbered(t[j])
               PROVE  t[i].n < t[j].n
    BY DEF Ascending
  <2>1. i + 1 < j + 1
    BY <1>1
  <2> QED BY <1>1, <2>1 DEF Ascending
<1>3. Within(t, low, high) /\ (Numbered(h) => low < h.n /\ h.n <= high)
  BY <1>1 DEF Within
<1>4. ASSUME Numbered(h) PROVE Within(t, h.n, high)
  BY <1>1, <1>4 DEF Within, Ascending
<1>5. \A r : Before(r, q) => Before(r, t)
  BY <1>1 DEF Before
<1> QED BY <1>0, <1>2, <1>3, <1>4, <1>5

\* The first packet is taken: whose they are, and what ends them.
LEMMA TailLogins ==
    ASSUME NEW q \in Seq(Packets), q # <<>>, NEW login
    PROVE  /\ EnumFirst(q) => EnumFirst(Tail(q))
           /\ NoEnum(q) => NoEnum(Tail(q)) /\ Head(q).kind # "enum"
           /\ UpTo(q, login) => UpTo(Tail(q), login)
           /\ NoneOf(q, login) => NoneOf(Tail(q), login)
           /\ NoneStale(q, login) => NoneStale(Tail(q), login)
           /\ NoneNumbered(q) => NoneNumbered(Tail(q)) /\ ~Numbered(Head(q))
           /\ StaleEnds(q, login) => StaleEnds(Tail(q), login)
           /\ NumberedEnds(q) => NumberedEnds(Tail(q))
           /\ EnumFirst(q) /\ Head(q).kind = "enum" =>
                 /\ NoEnum(Tail(q))
                 /\ StaleEnds(q, login) => NoneStale(Tail(q), login)
                 /\ NumberedEnds(q) => NoneNumbered(Tail(q))
           /\ EnumFirst(q) /\ Head(q).kind = "login" => NoEnum(Tail(q))
           /\ Numbered(Head(q)) => /\ NoneStale(q, login) => Head(q).login = login
                                   /\ NoneOf(q, login) => Head(q).login # login
                                   /\ StaleEnds(q, login) /\ NoEnum(q) => Head(q).login = login
<1>0. PICK t, h : t = Tail(q) /\ h = Head(q)
  OBVIOUS
<1>1. /\ 1 \in 1..Len(q) /\ h = q[1]
      /\ \A i \in 1..Len(t) : i \in Nat /\ i + 1 \in 1..Len(q) /\ 1 < i + 1 /\ t[i] = q[i + 1]
      /\ \A i \in 1..Len(q) : i > 1 => /\ i - 1 \in 1..Len(t) /\ (i - 1) + 1 = i /\ t[i - 1] = q[i]
  BY <1>0, TailPositions
<1>2. EnumFirst(q) => EnumFirst(t)
  <2> SUFFICES ASSUME EnumFirst(q), NEW i \in 1..Len(t), NEW j \in 1..Len(t)
               PROVE  /\ t[i].kind = "enum" /\ t[j].kind = "enum" => i = j
                      /\ t[i].kind = "enum" /\ t[j].kind = "login" => i < j
    BY DEF EnumFirst
  <2>0. /\ i \in Nat /\ j \in Nat /\ i + 1 \in 1..Len(q) /\ j + 1 \in 1..Len(q)
        /\ t[i] = q[i + 1] /\ t[j] = q[j + 1]
    BY <1>1
  <2>1. /\ q[i + 1].kind = "enum" /\ q[j + 1].kind = "enum" => i + 1 = j + 1
        /\ q[i + 1].kind = "enum" /\ q[j + 1].kind = "login" => i + 1 < j + 1
    BY <2>0 DEF EnumFirst
  <2>2. (i + 1 = j + 1 => i = j) /\ (i + 1 < j + 1 => i < j)
    BY <2>0
  <2> QED BY <2>0, <2>1, <2>2
<1>3. /\ NoEnum(q) => NoEnum(t) /\ h.kind # "enum"
      /\ UpTo(q, login) => UpTo(t, login)
      /\ NoneOf(q, login) => NoneOf(t, login)
      /\ NoneStale(q, login) => NoneStale(t, login)
      /\ NoneNumbered(q) => NoneNumbered(t) /\ ~Numbered(h)
  <2>1. NoEnum(q) => NoEnum(t) /\ h.kind # "enum"
    BY <1>1 DEF NoEnum
  <2>2. NoneNumbered(q) => NoneNumbered(t) /\ ~Numbered(h)
    BY <1>1 DEF NoneNumbered
  <2>3. UpTo(q, login) => UpTo(t, login)
    BY <1>1 DEF UpTo
  <2>4. NoneOf(q, login) => NoneOf(t, login)
    BY ZenonT(40), <1>1 DEF NoneOf
  <2>5. NoneStale(q, login) => NoneStale(t, login)
    <3> SUFFICES ASSUME NoneStale(q, login), NEW i \in 1..Len(t), Numbered(t[i])
                 PROVE  t[i].login = login
      BY DEF NoneStale
    <3>1. i + 1 \in 1..Len(q) /\ t[i] = q[i + 1]
      BY <1>1
    <3> QED BY <3>1 DEF NoneStale
  <2> QED BY <2>1, <2>2, <2>3, <2>4, <2>5
<1>4. ASSUME NEW i \in 1..Len(t), EnumBehind(q, i + 1) PROVE EnumBehind(t, i)
  <2>1. PICK j \in 1..Len(q) : j > i + 1 /\ q[j].kind = "enum"
    BY <1>4 DEF EnumBehind
  <2>2. i \in Nat /\ j \in Int
    BY <1>1
  <2>3. j > 1 /\ j - 1 > i
    BY <2>1, <2>2
  <2>4. j - 1 \in 1..Len(t) /\ t[j - 1].kind = "enum"
    BY <1>1, <2>1, <2>3
  <2> QED BY <2>3, <2>4 DEF EnumBehind
<1>5. /\ StaleEnds(q, login) => StaleEnds(t, login)
      /\ NumberedEnds(q) => NumberedEnds(t)
  <2>1. \A i \in 1..Len(t) : EnumBehind(q, i + 1) => EnumBehind(t, i)
    BY <1>4
  <2> QED BY <1>1, <2>1 DEF StaleEnds, NumberedEnds
<1>6. ASSUME EnumFirst(q), h.kind = "enum"
      PROVE  NoEnum(t) /\ \A i \in 1..Len(t) : ~EnumBehind(q, i + 1)
  <2>1. \A j \in 1..Len(q) : j > 1 => q[j].kind # "enum"
    BY <1>1, <1>6 DEF EnumFirst
  <2>2. NoEnum(t)
    BY <1>1, <2>1 DEF NoEnum
  <2>3. ASSUME NEW i \in 1..Len(t), NEW j \in 1..Len(q), j > i + 1 PROVE j > 1
    BY <1>1, <2>3
  <2> QED BY <2>1, <2>2, <2>3 DEF EnumBehind
<1>7. EnumFirst(q) /\ h.kind = "enum" =>
         /\ NoEnum(t)
         /\ StaleEnds(q, login) => NoneStale(t, login)
         /\ NumberedEnds(q) => NoneNumbered(t)
  BY <1>1, <1>6 DEF StaleEnds, NumberedEnds, NoneStale, NoneNumbered
<1>8. EnumFirst(q) /\ h.kind = "login" => NoEnum(t)
  <2> SUFFICES ASSUME EnumFirst(q), h.kind = "login", NEW i \in 1..Len(t), t[i].kind = "enum"
               PROVE  FALSE
    BY DEF NoEnum
  <2>1. i + 1 < 1
    BY <1>1 DEF EnumFirst
  <2> QED BY <1>1, <2>1
<1>9. Numbered(h) => /\ NoneStale(q, login) => h.login = login
                     /\ NoneOf(q, login) => h.login # login
                     /\ StaleEnds(q, login) /\ NoEnum(q) => h.login = login
  BY <1>1 DEF NoneStale, NoneOf, StaleEnds, NoEnum, EnumBehind
<1> QED BY <1>0, <1>2, <1>3, <1>5, <1>7, <1>8, <1>9

\* One packet more: the positions.
LEMMA AppendPositions ==
    ASSUME NEW q \in Seq(Packets), NEW m \in Packets
    PROVE  LET a == Append(q, m)
           IN  /\ Len(q) \in Nat /\ a \in Seq(Packets) /\ a[Len(q) + 1] = m
               /\ Len(q) + 1 \in 1..Len(a)
               /\ \A i \in 1..Len(q) : i \in 1..Len(a) /\ a[i] = q[i] /\ i < Len(q) + 1
               /\ \A i \in 1..Len(a) : i \in 1..Len(q) \/ i = Len(q) + 1
<1>0. PICK a : a = Append(q, m)
  OBVIOUS
<1>1. /\ a \in Seq(Packets) /\ Len(a) = Len(q) + 1 /\ Len(q) \in Nat /\ a[Len(q) + 1] = m
      /\ \A i \in 1..Len(q) : a[i] = q[i]
  BY <1>0, AppendProperties
<1>2. /\ Len(q) + 1 \in 1..Len(a) /\ \A i \in 1..Len(q) : i \in 1..Len(a) /\ i < Len(q) + 1
      /\ \A i \in 1..Len(a) : i \in 1..Len(q) \/ i = Len(q) + 1
  BY <1>1
<1> QED BY <1>0, <1>1, <1>2

\* One packet more: the numbers.
LEMMA AppendNumbers ==
    ASSUME NEW q \in Seq(Packets), NEW m \in Packets, NEW low \in Nat, NEW high \in Nat,
           NEW new \in Nat, low <= high, high <= new,
           Ascending(q), Within(q, low, high), Numbered(m) => high < m.n /\ m.n <= new
    PROVE  /\ Ascending(Append(q, m)) /\ Within(Append(q, m), low, new)
           /\ \A r \in Seq(Packets) : Within(r, low, high) /\ Before(r, q) =>
                 Before(r, Append(q, m)) /\ Within(r, low, new)
<1>0. PICK a : a = Append(q, m)
  OBVIOUS
<1>1. /\ Len(q) \in Nat /\ a \in Seq(Packets) /\ a[Len(q) + 1] = m
      /\ Len(q) + 1 \in 1..Len(a)
      /\ \A i \in 1..Len(q) : i \in 1..Len(a) /\ a[i] = q[i] /\ i < Len(q) + 1
      /\ \A i \in 1..Len(a) : i \in 1..Len(q) \/ i = Len(q) + 1
  BY <1>0, AppendPositions
<1>2. \A p \in Packets : p.n \in Nat
  BY DEF Packets
<1>3. /\ m.n \in Nat /\ \A i \in 1..Len(q) : q[i].n \in Nat
      /\ \A r \in Seq(Packets) : \A i \in 1..Len(r) : r[i].n \in Nat
  BY <1>2, ElementOfSeq
<1>4. ASSUME NEW r \in Seq(Packets), Within(r, low, high)
      PROVE  Within(r, low, new) /\ (Numbered(m) => \A i \in 1..Len(r) : Numbered(r[i]) => r[i].n < m.n)
  BY <1>3, <1>4 DEF Within
<1>5. Within(a, low, new)
  BY SMTT(30), <1>1, <1>3, <1>4 DEF Within
<1>6. Ascending(a)
  <2> SUFFICES ASSUME NEW i \in 1..Len(a), NEW j \in 1..Len(a), i < j, Numbered(a[i]), Numbered(a[j])
               PROVE  a[i].n < a[j].n
    BY DEF Ascending
  <2>1. CASE j \in 1..Len(q)
    <3>1. i \in 1..Len(q)
      BY <1>1, <2>1
    <3> QED BY <1>1, <2>1, <3>1 DEF Ascending
  <2>2. CASE j = Len(q) + 1
    <3>1. i \in 1..Len(q)
      BY <1>1, <2>2
    <3> QED BY <1>1, <1>4, <2>2, <3>1
  <2> QED BY <1>1, <2>1, <2>2
<1>7. ASSUME NEW r \in Seq(Packets), Within(r, low, high), Before(r, q) PROVE Before(r, a)
  <2> SUFFICES ASSUME NEW i \in 1..Len(r), NEW j \in 1..Len(a), Numbered(r[i]), Numbered(a[j])
               PROVE  r[i].n < a[j].n
    BY DEF Before
  <2>1. CASE j \in 1..Len(q)
    BY <1>1, <1>7, <2>1 DEF Before
  <2>2. CASE j = Len(q) + 1
    BY <1>1, <1>4, <1>7, <2>2
  <2> QED BY <1>1, <2>1, <2>2
<1> QED BY <1>0, <1>4, <1>5, <1>6, <1>7

\* One packet more: whose it is.
LEMMA AppendLogins ==
    ASSUME NEW q \in Seq(Packets), NEW m \in Packets, NEW login
    PROVE  LET a == Append(q, m)
           IN  /\ NoEnum(q) /\ m.kind # "enum" => NoEnum(a)
               /\ EnumFirst(q) /\ m.kind # "enum" => EnumFirst(a)
               /\ NoEnum(q) /\ NoLogin(q) /\ m.kind # "login" => EnumFirst(a)
               /\ UpTo(q, login) /\ (Numbered(m) => m.login <= login) => UpTo(a, login)
               /\ NoneOf(q, login) /\ (Numbered(m) => m.login # login) => NoneOf(a, login)
               /\ NoneStale(q, login) /\ (Numbered(m) => m.login = login) => NoneStale(a, login)
               /\ StaleEnds(q, login) /\ (Numbered(m) => m.login = login) => StaleEnds(a, login)
               /\ NoneNumbered(q) /\ ~Numbered(m) => NoneNumbered(a)
               /\ NumberedEnds(q) /\ ~Numbered(m) => NumberedEnds(a)
               /\ m.kind = "enum" /\ ~Numbered(m) => NumberedEnds(a)
<1>0. PICK a : a = Append(q, m)
  OBVIOUS
<1>1. /\ Len(q) \in Nat /\ a \in Seq(Packets) /\ a[Len(q) + 1] = m
      /\ Len(q) + 1 \in 1..Len(a)
      /\ \A i \in 1..Len(q) : i \in 1..Len(a) /\ a[i] = q[i] /\ i < Len(q) + 1
      /\ \A i \in 1..Len(a) : i \in 1..Len(q) \/ i = Len(q) + 1
  BY <1>0, AppendPositions
<1>2. NoEnum(q) /\ m.kind # "enum" => NoEnum(a)
  BY <1>1 DEF NoEnum
<1>3. EnumFirst(q) /\ m.kind # "enum" => EnumFirst(a)
  <2> SUFFICES ASSUME EnumFirst(q), m.kind # "enum", NEW i \in 1..Len(a), NEW j \in 1..Len(a),
                      a[i].kind = "enum"
               PROVE  /\ a[j].kind = "enum" => i = j
                      /\ a[j].kind = "login" => i < j
    BY DEF EnumFirst
  <2>1. i \in 1..Len(q) /\ a[i] = q[i]
    BY <1>1
  <2>2. CASE j \in 1..Len(q)
    BY <1>1, <2>1, <2>2 DEF EnumFirst
  <2>3. CASE j = Len(q) + 1
    BY <1>1, <2>1, <2>3
  <2> QED BY <1>1, <2>2, <2>3
<1>4. NoEnum(q) /\ NoLogin(q) /\ m.kind # "login" => EnumFirst(a)
  BY <1>1 DEF NoEnum, NoLogin, EnumFirst
<1>5. /\ UpTo(q, login) /\ (Numbered(m) => m.login <= login) => UpTo(a, login)
      /\ NoneOf(q, login) /\ (Numbered(m) => m.login # login) => NoneOf(a, login)
      /\ NoneNumbered(q) /\ ~Numbered(m) => NoneNumbered(a)
  BY <1>1 DEF UpTo, NoneOf, NoneNumbered
<1>6. NoneStale(q, login) /\ (Numbered(m) => m.login = login) => NoneStale(a, login)
  <2> SUFFICES ASSUME NoneStale(q, login), Numbered(m) => m.login = login,
                      NEW i \in 1..Len(a), Numbered(a[i])
               PROVE  a[i].login = login
    BY DEF NoneStale
  <2>1. CASE i \in 1..Len(q)
    BY <1>1, <2>1 DEF NoneStale
  <2>2. CASE i = Len(q) + 1
    BY <1>1, <2>2
  <2> QED BY <1>1, <2>1, <2>2
<1>7. ASSUME NEW i \in 1..Len(q), EnumBehind(q, i) PROVE EnumBehind(a, i)
  BY <1>1, <1>7 DEF EnumBehind
<1>8. StaleEnds(q, login) /\ (Numbered(m) => m.login = login) => StaleEnds(a, login)
  <2> SUFFICES ASSUME StaleEnds(q, login), Numbered(m) => m.login = login,
                      NEW i \in 1..Len(a), Numbered(a[i]), a[i].login # login
               PROVE  EnumBehind(a, i)
    BY DEF StaleEnds
  <2>1. i \in 1..Len(q) /\ a[i] = q[i]
    BY <1>1
  <2>2. EnumBehind(q, i)
    BY <2>1 DEF StaleEnds
  <2> QED BY <1>7, <2>1, <2>2
<1>9. NumberedEnds(q) /\ ~Numbered(m) => NumberedEnds(a)
  <2> SUFFICES ASSUME NumberedEnds(q), ~Numbered(m), NEW i \in 1..Len(a), Numbered(a[i])
               PROVE  EnumBehind(a, i)
    BY DEF NumberedEnds
  <2>1. i \in 1..Len(q) /\ a[i] = q[i]
    BY <1>1
  <2>2. EnumBehind(q, i)
    BY <2>1 DEF NumberedEnds
  <2> QED BY <1>7, <2>1, <2>2
<1>10. m.kind = "enum" /\ ~Numbered(m) => NumberedEnds(a)
  <2> SUFFICES ASSUME m.kind = "enum", ~Numbered(m), NEW i \in 1..Len(a), Numbered(a[i])
               PROVE  EnumBehind(a, i)
    BY DEF NumberedEnds
  <2>1. i \in 1..Len(q) /\ Len(q) + 1 > i
    BY <1>1
  <2> QED BY <1>1, <2>1 DEF EnumBehind
<1> QED BY <1>0, <1>2, <1>3, <1>4, <1>5, <1>6, <1>8, <1>9, <1>10

\* A packet is put back behind the others.
LEMMA RequeueOrder ==
    ASSUME NEW q \in Seq(Packets), q # <<>>, NEW r \in Seq(Packets), NEW low, NEW high, NEW login,
           PacketsInOrder(q, r, low, high), AllOf(r, login),
           Numbered(Head(q)), Head(q).login = login
    PROVE  /\ PacketsInOrder(Tail(q), Append(r, Head(q)), low, high)
           /\ AllOf(Append(r, Head(q)), login)
<1>0. PICK t, h, a : t = Tail(q) /\ h = Head(q) /\ a = Append(r, h)
  OBVIOUS
<1>1. /\ 1 \in 1..Len(q) /\ h = q[1] /\ h \in Packets
      /\ \A i \in 1..Len(t) : i \in Nat /\ i + 1 \in 1..Len(q) /\ 1 < i + 1 /\ t[i] = q[i + 1]
  BY <1>0, TailPositions
<1>2. /\ Len(r) \in Nat /\ a[Len(r) + 1] = h /\ Len(r) + 1 \in 1..Len(a)
      /\ \A i \in 1..Len(r) : i \in 1..Len(a) /\ a[i] = r[i] /\ i < Len(r) + 1
      /\ \A i \in 1..Len(a) : i \in 1..Len(r) \/ i = Len(r) + 1
  BY <1>0, <1>1, AppendPositions
<1>3. /\ low \in Nat /\ low <= high /\ Ascending(r) /\ Ascending(q) /\ Before(r, q)
      /\ Within(r, low, high) /\ Within(q, low, high)
  BY DEF PacketsInOrder
<1>4. /\ Ascending(t) /\ Within(t, low, high) /\ Before(r, t)
      /\ low < h.n /\ h.n <= high /\ Within(t, h.n, high)
  BY <1>0, <1>3, TailNumbers
<1>5. \A i \in 1..Len(r) : Numbered(r[i]) => r[i].n < h.n
  BY <1>0, <1>1, <1>3 DEF Before
<1>6. Ascending(a)
  <2> SUFFICES ASSUME NEW i \in 1..Len(a), NEW j \in 1..Len(a), i < j, Numbered(a[i]), Numbered(a[j])
               PROVE  a[i].n < a[j].n
    BY DEF Ascending
  <2>1. CASE j \in 1..Len(r)
    <3>1. i \in 1..Len(r)
      BY <1>2, <2>1
    <3> QED BY <1>2, <1>3, <2>1, <3>1 DEF Ascending
  <2>2. CASE j = Len(r) + 1
    <3>1. i \in 1..Len(r)
      BY <1>2, <2>2
    <3> QED BY <1>2, <1>5, <2>2, <3>1
  <2> QED BY <1>2, <2>1, <2>2
<1>7. Within(a, low, high)
  BY <1>2, <1>3, <1>4 DEF Within
<1>8. Before(a, t)
  <2> SUFFICES ASSUME NEW i \in 1..Len(a), NEW j \in 1..Len(t), Numbered(a[i]), Numbered(t[j])
               PROVE  a[i].n < t[j].n
    BY DEF Before
  <2>1. CASE i \in 1..Len(r)
    BY <1>2, <1>4, <2>1 DEF Before
  <2>2. CASE i = Len(r) + 1
    BY <1>2, <1>4, <2>2 DEF Within
  <2> QED BY <1>2, <2>1, <2>2
<1>9. AllOf(a, login)
  <2> SUFFICES ASSUME NEW i \in 1..Len(a) PROVE Numbered(a[i]) /\ a[i].login = login
    BY DEF AllOf
  <2>1. CASE i \in 1..Len(r)
    BY <1>2, <2>1 DEF AllOf
  <2>2. CASE i = Len(r) + 1
    BY <1>0, <1>2, <2>2
  <2> QED BY <1>2, <2>1, <2>2
<1> QED BY <1>0, <1>3, <1>4, <1>6, <1>7, <1>8, <1>9 DEF PacketsInOrder

\* What was put back returns to the front of the queue.
LEMMA ReaddOrder ==
    ASSUME NEW q \in Seq(Packets), NEW r \in Seq(Packets), NEW low, NEW high,
           NEW login \in Nat, NEW recent, NEW idle,
           PacketsInOrder(q, r, low, high), LoginsInOrder(q, r, login, recent, idle)
    PROVE  /\ PacketsInOrder(r \o q, <<>>, low, high)
           /\ LoginsInOrder(r \o q, <<>>, login, recent, idle)
<1>0. PICK a, e : a = r \o q /\ e = <<>>
  OBVIOUS
<1>1. /\ a \in Seq(Packets) /\ Len(a) = Len(r) + Len(q) /\ Len(r) \in Nat /\ Len(q) \in Nat
      /\ \A i \in 1..(Len(r) + Len(q)) : a[i] = IF i <= Len(r) THEN r[i] ELSE q[i - Len(r)]
  BY <1>0, ConcatProperties
<1>2. ASSUME NEW i \in 1..Len(a)
      PROVE  /\ i \in Int
             /\ \/ i \in 1..Len(r) /\ i <= Len(r) /\ a[i] = r[i]
                \/ i > Len(r) /\ i - Len(r) \in 1..Len(q) /\ a[i] = q[i - Len(r)]
  BY <1>1
<1>3. \A k \in 1..Len(q) : k + Len(r) \in 1..Len(a) /\ a[k + Len(r)] = q[k]
  <2> SUFFICES ASSUME NEW k \in 1..Len(q)
               PROVE  k + Len(r) \in 1..Len(a) /\ a[k + Len(r)] = q[k]
    OBVIOUS
  <2>1. k + Len(r) \in 1..Len(a) /\ ~(k + Len(r) <= Len(r)) /\ (k + Len(r)) - Len(r) = k
    BY <1>1
  <2> QED BY <1>1, <2>1
<1>4. ASSUME NEW i \in 1..Len(r) PROVE Numbered(r[i]) /\ r[i].login = login /\ r[i].kind \notin {"enum", "login"}
  <2>1. Numbered(r[i]) /\ r[i].login = login /\ r[i] \in Packets
    BY <1>4, ElementOfSeq DEF LoginsInOrder, AllOf
  <2> QED BY <2>1, NumberedKinds
<1>5. Len(e) = 0 /\ 1..Len(e) = {}
  <2>1. Len(e) = 0
    BY <1>0, EmptySeq
  <2> QED BY <2>1
<1>6. /\ low \in Nat /\ low <= high /\ Ascending(r) /\ Ascending(q) /\ Before(r, q)
      /\ Within(r, low, high) /\ Within(q, low, high)
  BY DEF PacketsInOrder
<1>7. /\ EnumFirst(q) /\ (NoEnum(q) \/ idle)
      /\ UpTo(q, login) /\ StaleEnds(q, login) /\ (NoneStale(q, login) \/ recent)
  BY DEF LoginsInOrder
<1>8. Ascending(a)
  <2> SUFFICES ASSUME NEW i \in 1..Len(a), NEW j \in 1..Len(a), i < j, Numbered(a[i]), Numbered(a[j])
               PROVE  a[i].n < a[j].n
    BY DEF Ascending
  <2>1. CASE j \in 1..Len(r) /\ a[j] = r[j]
    <3>1. i \in 1..Len(r) /\ a[i] = r[i]
      BY <1>1, <1>2, <2>1
    <3> QED BY <1>6, <2>1, <3>1 DEF Ascending
  <2>2. CASE j > Len(r) /\ j - Len(r) \in 1..Len(q) /\ a[j] = q[j - Len(r)]
    <3>1. CASE i \in 1..Len(r) /\ a[i] = r[i]
      BY <1>6, <2>2, <3>1 DEF Before
    <3>2. CASE i > Len(r) /\ i - Len(r) \in 1..Len(q) /\ a[i] = q[i - Len(r)]
      <4>1. i - Len(r) < j - Len(r)
        BY <1>1, <1>2
      <4> QED BY <1>6, <2>2, <3>2, <4>1 DEF Ascending
    <3> QED BY <1>2, <3>1, <3>2
  <2> QED BY <1>2, <2>1, <2>2
<1>9. Within(a, low, high)
  BY <1>2, <1>6 DEF Within
<1>10. ASSUME NEW i \in 1..Len(a), a[i].kind \in {"enum", "login"}
       PROVE  i \in Int /\ i > Len(r) /\ i - Len(r) \in 1..Len(q) /\ a[i] = q[i - Len(r)]
  BY <1>2, <1>4, <1>10
<1>11. EnumFirst(a)
  <2> SUFFICES ASSUME NEW i \in 1..Len(a), NEW j \in 1..Len(a),
                      a[i].kind = "enum", a[j].kind \in {"enum", "login"}
               PROVE  (a[j].kind = "enum" => i = j) /\ (a[j].kind = "login" => i < j)
    BY DEF EnumFirst
  <2>1. /\ i \in Int /\ i - Len(r) \in 1..Len(q) /\ a[i] = q[i - Len(r)]
        /\ j \in Int /\ j - Len(r) \in 1..Len(q) /\ a[j] = q[j - Len(r)]
    BY <1>10
  <2>2. /\ a[j].kind = "enum" => i - Len(r) = j - Len(r)
        /\ a[j].kind = "login" => i - Len(r) < j - Len(r)
    BY <1>7, <2>1 DEF EnumFirst
  <2>3. (i - Len(r) = j - Len(r) => i = j) /\ (i - Len(r) < j - Len(r) => i < j)
    BY <1>1, <2>1
  <2> QED BY <2>2, <2>3
<1>12. NoEnum(a) \/ idle
  BY <1>7, <1>10 DEF NoEnum
<1>13. UpTo(a, login)
  <2> SUFFICES ASSUME NEW i \in 1..Len(a), Numbered(a[i]) PROVE a[i].login <= login
    BY DEF UpTo
  <2>1. CASE i \in 1..Len(r) /\ a[i] = r[i]
    BY <1>4, <2>1
  <2>2. CASE i - Len(r) \in 1..Len(q) /\ a[i] = q[i - Len(r)]
    BY <1>7, <2>2 DEF UpTo
  <2> QED BY <1>2, <2>1, <2>2
<1>14. StaleEnds(a, login)
  <2> SUFFICES ASSUME NEW i \in 1..Len(a), Numbered(a[i]), a[i].login # login PROVE EnumBehind(a, i)
    BY DEF StaleEnds
  <2>1. i \in Int /\ i - Len(r) \in 1..Len(q) /\ a[i] = q[i - Len(r)]
    BY <1>2, <1>4
  <2>2. PICK k \in 1..Len(q) : k > i - Len(r) /\ q[k].kind = "enum"
    BY <1>7, <2>1 DEF StaleEnds, EnumBehind
  <2>3. k + Len(r) > i
    BY <1>1, <2>1, <2>2
  <2> QED BY <1>3, <2>2, <2>3 DEF EnumBehind
<1>15. NoneStale(a, login) \/ recent
  <2> SUFFICES ASSUME NoneStale(q, login), NEW i \in 1..Len(a), Numbered(a[i]) PROVE a[i].login = login
    BY <1>7 DEF NoneStale
  <2>1. CASE i \in 1..Len(r) /\ a[i] = r[i]
    BY <1>4, <2>1
  <2>2. CASE i - Len(r) \in 1..Len(q) /\ a[i] = q[i - Len(r)]
    BY <2>2 DEF NoneStale
  <2> QED BY <1>2, <2>1, <2>2
<1>16. Ascending(e) /\ Before(e, a) /\ Within(e, low, high) /\ AllOf(e, login)
  BY <1>5 DEF Ascending, Before, Within, AllOf
<1> QED BY <1>0, <1>6, <1>8, <1>9, <1>11, <1>12, <1>13, <1>14, <1>15, <1>16
        DEF PacketsInOrder, LoginsInOrder

-----------------------------------------------------------------------------
(* Steps that leave the packets in order.                                   *)

\* A message is sent.
LEMMA SentTold ==
    ASSUME IndInv, NEW m \in Messages, NEW type
    PROVE  /\ Told(toClient, type) => Told(Sent(m), type)
           /\ m.type # type => (Told(Sent(m), type) => Told(toClient, type))
<1>1. CASE sock[Realm] # "linked"
  BY <1>1, Sending
<1>2. CASE sock[Realm] = "linked"
  <2>0. PICK s : s = Sent(m)
    OBVIOUS
  <2>1. /\ Len(s) = Len(toClient) + 1 /\ Len(toClient) \in Nat /\ s[Len(toClient) + 1] = m
        /\ \A i \in 1..Len(toClient) : s[i] = toClient[i]
    BY <1>2, <2>0, Sending
  <2>2. /\ \A i \in 1..Len(toClient) : i \in 1..Len(s)
        /\ \A i \in 1..Len(s) : i \in 1..Len(toClient) \/ i = Len(toClient) + 1
    BY <2>1
  <2>3. Told(toClient, type) => Told(s, type)
    BY <2>1, <2>2 DEF Told
  <2>4. m.type # type => (Told(s, type) => Told(toClient, type))
    BY <2>1, <2>2 DEF Told
  <2> QED BY <2>0, <2>3, <2>4
<1> QED BY <1>1, <1>2

\* The first message is read.
LEMMA TailTold ==
    ASSUME NEW s \in Seq(Messages), s # <<>>, NEW type
    PROVE  /\ Told(Tail(s), type) => Told(s, type)
           /\ Head(s).type # type => (Told(s, type) => Told(Tail(s), type))
<1>0. PICK t : t = Tail(s)
  OBVIOUS
<1>1. /\ Head(s) = s[1] /\ Len(s) \in Nat /\ Len(s) # 0 /\ Len(t) = Len(s) - 1
      /\ \A i \in 1..Len(t) : i \in Nat /\ i + 1 \in 1..Len(s) /\ t[i] = s[i + 1]
  BY <1>0, TailMessages
<1>2. Told(t, type) => Told(s, type)
  BY <1>1 DEF Told
<1>3. ASSUME Head(s).type # type, NEW i \in 1..Len(s), s[i].type = type PROVE Told(t, type)
  <2>1. i # 1
    BY <1>1, <1>3
  <2>2. i - 1 \in 1..Len(t) /\ (i - 1) + 1 = i
    BY <1>1, <2>1
  <2>3. t[i - 1] = s[i]
    BY <1>1, <2>2
  <2> QED BY <1>3, <2>2, <2>3 DEF Told
<1> QED BY <1>0, <1>2, <1>3 DEF Told

\* Nothing is put back any more.
LEMMA NothingHeld ==
    ASSUME NEW q, NEW r, NEW low, NEW high, NEW login, NEW recent, NEW idle
    PROVE  /\ PacketsInOrder(q, r, low, high) => PacketsInOrder(q, <<>>, low, high)
           /\ LoginsInOrder(q, r, login, recent, idle) => LoginsInOrder(q, <<>>, login, recent, idle)
<1>0. PICK e : e = <<>>
  OBVIOUS
<1>1. 1..Len(e) = {}
  <2>1. Len(e) = 0
    BY <1>0, EmptySeq
  <2> QED BY <2>1
<1>2. Ascending(e) /\ Before(e, q) /\ Within(e, low, high) /\ AllOf(e, login)
  BY <1>1 DEF Ascending, Before, Within, AllOf
<1> QED BY <1>0, <1>2 DEF PacketsInOrder, LoginsInOrder

\* The queues of the invariant.
LEMMA OrderTypes ==
    ASSUME IndInv, OrderInv
    PROVE  /\ recvQueue \in Seq(Packets) /\ requeue \in Seq(Packets) /\ toClient \in Seq(Messages)
           /\ client.sent \in Nat /\ client.login \in Nat /\ last.n \in Nat
           /\ session \in SessionRec /\ client \in ClientRec
<1>1. /\ recvQueue \in Seq(Packets) /\ requeue \in Seq(Packets) /\ toClient \in Seq(Messages)
      /\ session \in SessionRec /\ client \in ClientRec
  BY DEF IndInv, Types, TypeOK, Packets, SessionRec, ClientRec
<1>2. client.sent \in Nat /\ client.login \in {None} \cup Logins
  BY <1>1 DEF ClientRec
<1>3. client.login \in Nat
  BY <1>2, SessionLoginAssumption DEF None, Logins
<1>4. last.n \in Nat
  BY DEF OrderInv, PacketsInOrder
<1> QED BY <1>1, <1>2, <1>3, <1>4

\* What a step that takes no packet leaves alone: an idle session stays idle, and
\* the client is told of a logout only when there was a character.
Calm ==
    /\ recvQueue' = recvQueue /\ last' = last
    /\ requeue' = <<>> \/ (requeue' = requeue /\ pc' = pc /\ session'.player = session.player)
    /\ client'.at = client.at /\ client'.login = client.login /\ client'.sent = client.sent
    /\ session.recent => session'.recent
    /\ Idle => Idle'
    /\ sock'[Realm] = "linked" => sock[Realm] = "linked"
    /\ Told(toClient, "resumeComms") => Told(toClient', "resumeComms")
    /\ Told(toClient', "logoutComplete") =>
          Told(toClient, "logoutComplete") \/ (session'.recent /\ session.player # None)

\* Such a step keeps the order.
LEMMA CalmStep ==
    ASSUME IndInv, OrderInv, Calm
    PROVE  OrderInv'
<1>1. /\ PacketsInOrder(recvQueue, requeue, last.n, client.sent)
      /\ LoginsInOrder(recvQueue, requeue, client.login, session.recent, Idle)
      /\ Held
      /\ sock[Realm] = "linked" =>
            ClientInOrder(recvQueue, requeue, client.login, client.at, session.recent,
                          Told(toClient, "resumeComms"), Told(toClient, "logoutComplete"))
  BY DEF OrderInv
<1>2. session.player # None => requeue = <<>> /\ NoEnum(recvQueue)
  BY <1>1 DEF Held, LoginsInOrder, Idle
<1>3. requeue = <<>> => requeue' = <<>>
  BY DEF Calm
<1>4. LoginsInOrder(recvQueue, requeue, client.login, session'.recent, Idle')
  BY <1>1 DEF LoginsInOrder, Calm
<1>5. /\ PacketsInOrder(recvQueue', requeue', last'.n, client'.sent)
      /\ LoginsInOrder(recvQueue', requeue', client'.login, session'.recent, Idle')
  <2>1. CASE requeue' = requeue
    BY <1>1, <1>4, <2>1 DEF Calm
  <2>2. CASE requeue' = <<>>
    BY <1>1, <1>4, <2>2, NothingHeld DEF Calm
  <2> QED BY <2>1, <2>2 DEF Calm
<1>6. Held'
  BY <1>1 DEF Held, Calm
<1>7. sock'[Realm] = "linked" =>
         ClientInOrder(recvQueue', requeue', client'.login, client'.at, session'.recent,
                       Told(toClient', "resumeComms"), Told(toClient', "logoutComplete"))
  BY <1>1, <1>2, <1>3 DEF ClientInOrder, Calm
<1> QED BY <1>5, <1>6, <1>7, OrderThen

\* The messages of the model are messages.
LEMMA MessageTypes ==
    /\ \A k \in Keys : Message("resumeComms", k, None) \in Messages
    /\ \A k \in Keys, s \in Serials : Message("connectTo", k, s) \in Messages
    /\ Message("transfer", None, None) \in Messages
    /\ Message("logoutComplete", None, None) \in Messages
    /\ Message("loginFailed", None, None) \in Messages
BY DEF Message, Messages

\* What a message changes in what the client will have been told.
LEMMA ToldThen ==
    ASSUME IndInv,
           \/ toClient' = toClient
           \/ \E m \in Messages : m.type # "logoutComplete" /\ toClient' = Sent(m)
    PROVE  /\ Told(toClient, "resumeComms") => Told(toClient', "resumeComms")
           /\ Told(toClient', "logoutComplete") => Told(toClient, "logoutComplete")
BY SentTold

\* Steps that only move the world thread on, or close connections.
LEMMA CalmPlain ==
    ASSUME IndInv, OrderInv,
           \/ \E isIdle \in BOOLEAN : BeginWorldUpdate(isIdle)
           \/ EndCallbacks \/ EndWorldUpdate \/ UNCHANGED vars
           \/ \E c \in Conns : Disconnect(c)
    PROVE  Calm
<1>1. UNCHANGED <<session, recvQueue, toClient, client, last>>
  BY DEF BeginWorldUpdate, EndCallbacks, EndWorldUpdate, Disconnect, vars
<1>2. requeue' = <<>> \/ (requeue' = requeue /\ pc' = pc)
  <2>1. requeue' = requeue /\ pc \notin {"world", "map"} => requeue' = <<>>
    BY DEF OrderInv, Held
  <2> QED BY <2>1 DEF BeginWorldUpdate, EndCallbacks, EndWorldUpdate, Disconnect, BeginUpdate, vars, updateVars
<1>3. sock'[Realm] = "linked" => sock[Realm] = "linked"
  <2>1. \/ \E S : sock' = Closed(S)
        \/ sock' = sock
    BY DEF BeginWorldUpdate, EndCallbacks, EndWorldUpdate, Disconnect, BeginUpdate, vars
  <2>2. Realm \in Conns /\ Types
    BY Fields DEF IndInv
  <2> QED BY <2>1, <2>2, ClosedCloses DEF OnlyCloses
<1>4. Idle => Idle'
  BY <1>1 DEF Idle
<1> QED BY <1>1, <1>2, <1>3, <1>4 DEF Calm

\* A connection is linked to the session.
LEMMA CalmLink ==
    ASSUME IndInv, OrderInv, ProcessLinkInstanceSocket
    PROVE  Calm
<1>0. PICK k : k = Head(linkQueue)
  OBVIOUS
<1>1. /\ pc = "links" /\ linkQueue # <<>> /\ UNCHANGED <<recvQueue, requeue, client, last>>
      /\ IF ~IsOpen(k) THEN UNCHANGED <<session, sock, holders, toClient>>
         ELSE IF ~KeyIsCurrent(k)
         THEN sock' = Closed({k}) /\ UNCHANGED <<session, holders, toClient>>
         ELSE HandleContinuePlayerLogin(k)
  BY <1>0 DEF ProcessLinkInstanceSocket, updateVars
<1>2. /\ session \in SessionRec /\ Types /\ Realm \in Conns /\ Realm \notin Keys /\ k \in Keys
      /\ sock \in [Conns -> SocketStates]
  <2>1. linkQueue \in Seq(Keys)
    BY DEF IndInv, Types, TypeOK
  <2> QED BY <1>0, <1>1, <2>1, Fields, HeadTailProperties DEF IndInv, Types, TypeOK, SessionRec
<1>3. requeue' = <<>>
  BY <1>1 DEF OrderInv, Held
<1>4. \/ session' = session
      \/ session' = [session EXCEPT !.inst = k]
      \/ session' = [[session EXCEPT !.inst = k] EXCEPT !.force = TRUE]
  BY <1>1 DEF HandleContinuePlayerLogin
<1>5. UNCHANGED <<session.recent, session.loading, session.player>>
  BY <1>2, <1>4 DEF SessionRec
<1>6. (\E S : sock' = Closed(S)) \/ sock' = sock \/ sock' = [sock EXCEPT ![k] = "linked"]
  BY <1>1 DEF HandleContinuePlayerLogin
<1>7. sock'[Realm] = "linked" => sock[Realm] = "linked"
  <2>1. CASE \E S : sock' = Closed(S)
    BY <1>2, <2>1, ClosedCloses DEF OnlyCloses
  <2>2. CASE sock' = [sock EXCEPT ![k] = "linked"]
    BY <1>2, <2>2
  <2> QED BY <1>6, <2>1, <2>2
<1>8. toClient' = toClient \/ toClient' = Sent(Message("resumeComms", k, None))
  BY <1>1 DEF HandleContinuePlayerLogin
<1>9. Message("resumeComms", k, None) \in Messages /\ Message("resumeComms", k, None).type # "logoutComplete"
  BY <1>2, MessageTypes DEF Message
<1>10. /\ Told(toClient, "resumeComms") => Told(toClient', "resumeComms")
       /\ Told(toClient', "logoutComplete") => Told(toClient, "logoutComplete")
  BY <1>8, <1>9, ToldThen
<1>11. Idle => Idle'
  BY <1>5 DEF Idle
<1> QED BY <1>1, <1>3, <1>5, <1>7, <1>10, <1>11 DEF Calm

\* The login query is answered.
LEMMA CalmLogin ==
    ASSUME IndInv, OrderInv, HandlePlayerLogin
    PROVE  Calm
<1>0. PICK h \in holders : LoginFailed \/ LoginSucceeded(h)
  BY DEF HandlePlayerLogin
<1>1. /\ pc \notin {"world", "map"} /\ UNCHANGED <<recvQueue, requeue, client, last>>
      /\ session \in SessionRec
  BY DEF HandlePlayerLogin, updateVars, IndInv, Types, TypeOK, SessionRec
<1>2. requeue' = <<>>
  BY <1>1 DEF OrderInv, Held
<1>3. ~Idle
  <2>1. Accepted
    BY <1>0 DEF Accepted
  <2> QED BY <2>1, AcceptedPhase
<1>4. session'.recent = session.recent
  <2>1. CASE LoginFailed
    BY <1>1, <2>1 DEF LoginFailed, KickPlayer, SessionRec
  <2>2. CASE LoginSucceeded(h)
    BY <1>1, <2>2 DEF LoginSucceeded, TeleportTo, SessionRec
  <2> QED BY <1>0, <2>1, <2>2
<1>5. sock'[Realm] = "linked" => sock[Realm] = "linked"
  <2>1. (\E S : sock' = Closed(S)) \/ sock' = sock
    BY <1>0 DEF LoginFailed, KickPlayer, LoginSucceeded
  <2>2. Realm \in Conns /\ Types
    BY Fields DEF IndInv
  <2> QED BY <2>1, <2>2, ClosedCloses DEF OnlyCloses
<1>6. toClient' = toClient \/ toClient' = Sent(Message("transfer", None, None))
  BY <1>0 DEF LoginFailed, LoginSucceeded, TeleportTo
<1>7. /\ Told(toClient, "resumeComms") => Told(toClient', "resumeComms")
      /\ Told(toClient', "logoutComplete") => Told(toClient, "logoutComplete")
  <2>1. Message("transfer", None, None).type # "logoutComplete"
    BY DEF Message
  <2> QED BY <1>6, <2>1, MessageTypes, ToldThen
<1> QED BY <1>1, <1>2, <1>3, <1>4, <1>5, <1>7 DEF Calm

\* What LogoutPlayer leaves.
LEMMA LogoutOrder ==
    ASSUME IndInv, LogoutPlayer
    PROVE  /\ session'.recent /\ session'.player = None /\ session'.loading = session.loading
           /\ sock'[Realm] = "linked" => sock[Realm] = "linked"
           /\ Told(toClient, "resumeComms") => Told(toClient', "resumeComms")
<1>1. /\ session' = LoggedOut(session) /\ sock' = Closed(LogoutCloses)
      /\ toClient' = Sent(Message("logoutComplete", None, None))
  BY DEF LogoutPlayer
<1>2. session \in SessionRec /\ Types /\ Realm \in Conns
  BY Fields DEF IndInv, Types, TypeOK, SessionRec
<1>3. session'.recent /\ session'.player = None /\ session'.loading = session.loading
  BY <1>1, <1>2 DEF LoggedOut, SessionRec
<1>4. sock'[Realm] = "linked" => sock[Realm] = "linked"
  BY <1>1, <1>2, ClosedCloses DEF OnlyCloses
<1>5. Told(toClient, "resumeComms") => Told(toClient', "resumeComms")
  BY <1>1, MessageTypes, SentTold
<1> QED BY <1>3, <1>4, <1>5

\* What TeleportTo leaves.
LEMMA TeleportOrder ==
    ASSUME IndInv, TeleportTo(session)
    PROVE  /\ UNCHANGED <<session.recent, session.player, session.loading>>
           /\ Told(toClient, "resumeComms") => Told(toClient', "resumeComms")
           /\ Told(toClient', "logoutComplete") => Told(toClient, "logoutComplete")
<1>1. /\ session' = [session EXCEPT !.inWorld = FALSE]
      /\ toClient' = Sent(Message("transfer", None, None))
  BY DEF TeleportTo
<1>2. session \in SessionRec
  BY DEF IndInv, Types, TypeOK, SessionRec
<1>3. UNCHANGED <<session.recent, session.player, session.loading>>
  BY <1>1, <1>2 DEF SessionRec
<1>4. Message("transfer", None, None).type # "logoutComplete"
  BY DEF Message
<1> QED BY <1>1, <1>3, <1>4, MessageTypes, ToldThen

\* The 20 seconds are over; the map moves the character elsewhere.
LEMMA CalmLogout ==
    ASSUME IndInv, OrderInv, LogoutWhenDue \/ FarTeleport
    PROVE  Calm
<1>1. CASE LogoutWhenDue
  <2>1. /\ pc = "cleanup" /\ session.leaving /\ session.loading = None /\ LogoutPlayer
        /\ UNCHANGED <<recvQueue, requeue, client, last>>
    BY <1>1 DEF LogoutWhenDue, updateVars
  <2>2. requeue' = <<>>
    BY <2>1 DEF OrderInv, Held
  <2>3. session.player # None
    BY <2>1 DEF IndInv, ServerInv
  <2>4. ~Idle
    BY <2>3 DEF Idle
  <2> QED BY <2>1, <2>2, <2>3, <2>4, LogoutOrder DEF Calm
<1>2. CASE FarTeleport
  <2>1. /\ session.player # None /\ TeleportTo(session)
        /\ UNCHANGED <<sock, recvQueue, requeue, pc, client, last>>
    BY <1>2 DEF FarTeleport, updateVars, InWorld
  <2>2. ~Idle
    BY <2>1 DEF Idle
  <2> QED BY <2>1, <2>2, TeleportOrder DEF Calm
<1> QED BY <1>1, <1>2

\* The client connects, or gives up.
LEMMA CalmClient ==
    ASSUME Patient, IndInv, OrderInv, ConnectInstance \/ GiveUp
    PROVE  Calm
<1>0. /\ session \in SessionRec /\ client \in ClientRec /\ Types /\ Realm \in Conns /\ Realm \notin Keys
      /\ sock \in [Conns -> SocketStates] /\ client.key \in {None} \cup Keys
      /\ client.serial \in {None} \cup Serials
  BY OrderTypes, Fields DEF IndInv, Types, TypeOK
<1>1. CASE ConnectInstance
  <2>1. /\ client.key # None /\ sock' = [sock EXCEPT ![client.key] = "open"]
        /\ UNCHANGED <<session, recvQueue, requeue, pc, toClient, client, last>>
    BY <1>1 DEF ConnectInstance, Connecting, updateVars
  <2>2. sock'[Realm] = "linked" => sock[Realm] = "linked"
    BY <1>0, <2>1
  <2>3. Idle => Idle'
    BY <2>1 DEF Idle
  <2> QED BY <2>1, <2>2, <2>3 DEF Calm
<1>2. CASE GiveUp
  <2>1. /\ client' = [client EXCEPT !.key = None] /\ HandleConnectToFailed(client.serial)
        /\ UNCHANGED <<recvQueue, requeue, pc, last>>
    BY <1>2 DEF GiveUp, updateVars
  <2>2. client'.at = client.at /\ client'.login = client.login /\ client'.sent = client.sent
    BY <1>0, <2>1 DEF ClientRec
  <2>3. \/ UNCHANGED <<session, sock, toClient>>
        \/ /\ SendConnectToInstance(session, client.serial + 1) /\ UNCHANGED sock
           /\ client.serial < Attempts
        \/ KickPlayer(session) /\ UNCHANGED toClient
        \/ /\ session' = [session EXCEPT !.loading = None] /\ UNCHANGED sock
           /\ toClient' = Sent(Message("loginFailed", None, None))
    BY <2>1 DEF HandleConnectToFailed, AbortLogin
  <2>4. /\ session'.recent = session.recent /\ session'.player = session.player
        /\ session.loading = None => session'.loading = None
    BY <1>0, <2>3 DEF SendConnectToInstance, KickPlayer, SessionRec
  <2>5. sock'[Realm] = "linked" => sock[Realm] = "linked"
    BY <1>0, <2>3, ClosedCloses DEF KickPlayer, OnlyCloses
  <2>6. /\ Told(toClient, "resumeComms") => Told(toClient', "resumeComms")
        /\ Told(toClient', "logoutComplete") => Told(toClient, "logoutComplete")
    <3>0. PICK m, n : /\ m = Message("connectTo", session.key + 1, client.serial + 1)
                      /\ n = Message("loginFailed", None, None)
      OBVIOUS
    <3>1. toClient' = toClient \/ toClient' = Sent(m) \/ toClient' = Sent(n)
      BY <2>3, <3>0 DEF SendConnectToInstance
    <3>2. n \in Messages /\ n.type # "logoutComplete" /\ m.type # "logoutComplete"
      BY <3>0, MessageTypes DEF Message
    <3>3. CASE SendConnectToInstance(session, client.serial + 1) /\ client.serial < Attempts
      <4>1. /\ session' \in SessionRec /\ session'.key = session.key + 1 /\ session.key \in Nat
            /\ toClient' = Sent(m)
        BY <1>0, <1>2, <3>0, <3>3, GiveUpStep, Fields DEF SendConnectToInstance, SessionRec
      <4>2. session.key + 1 \in Keys
        BY <4>1 DEF SessionRec, None
      <4>3. client.serial + 1 \in Serials
        BY <1>0, <3>3, SessionLoginAssumption DEF Serials, None
      <4> QED BY <3>0, <3>2, <4>1, <4>2, <4>3, MessageTypes, ToldThen
    <3>4. CASE ~(SendConnectToInstance(session, client.serial + 1) /\ client.serial < Attempts)
      BY <2>3, <3>0, <3>2, <3>4, ToldThen
    <3> QED BY <3>3, <3>4
  <2>7. Idle => Idle'
    BY <2>4 DEF Idle
  <2> QED BY <2>1, <2>2, <2>4, <2>5, <2>6, <2>7 DEF Calm
<1> QED BY <1>1, <1>2

\* What a packet that is taken from the queue may change.  The answer to
\* CMSG_ENUM_CHARACTERS ends a logout, CMSG_PLAYER_LOGIN ends idleness; a packet
\* for a character finds one.
Takes ==
    LET h == Head(recvQueue)
    IN  /\ recvQueue # <<>> /\ recvQueue' = Tail(recvQueue)
        /\ requeue' = requeue /\ pc' = pc /\ client' = client
        /\ \/ last' = last /\ session'.player = session.player
           \/ Numbered(h) /\ session.player # None /\ last'.n = h.n
        /\ session.recent => session'.recent \/ h.kind = "enum"
        /\ Idle => Idle' \/ h.kind = "login"
        /\ sock'[Realm] = "linked" => sock[Realm] = "linked"
        /\ Told(toClient, "resumeComms") => Told(toClient', "resumeComms")
        /\ Told(toClient', "logoutComplete") =>
              Told(toClient, "logoutComplete") \/ (session'.recent /\ session.player # None)

\* Such a packet leaves the others in order.
LEMMA TakeStep ==
    ASSUME IndInv, OrderInv, Takes
    PROVE  OrderInv'
<1>0. PICK q, t, h : q = recvQueue /\ t = Tail(recvQueue) /\ h = Head(recvQueue)
  OBVIOUS
<1>1. /\ PacketsInOrder(q, requeue, last.n, client.sent)
      /\ LoginsInOrder(q, requeue, client.login, session.recent, Idle)
      /\ Held
      /\ sock[Realm] = "linked" =>
            ClientInOrder(q, requeue, client.login, client.at, session.recent,
                          Told(toClient, "resumeComms"), Told(toClient, "logoutComplete"))
  BY <1>0 DEF OrderInv
<1>2. /\ q # <<>> /\ recvQueue' = t
      /\ requeue' = requeue /\ pc' = pc /\ client' = client
      /\ \/ last' = last /\ session'.player = session.player
         \/ Numbered(h) /\ session.player # None /\ last'.n = h.n
      /\ session.recent => session'.recent \/ h.kind = "enum"
      /\ Idle => Idle' \/ h.kind = "login"
      /\ sock'[Realm] = "linked" => sock[Realm] = "linked"
      /\ Told(toClient, "resumeComms") => Told(toClient', "resumeComms")
      /\ Told(toClient', "logoutComplete") =>
            Told(toClient, "logoutComplete") \/ (session'.recent /\ session.player # None)
  BY <1>0 DEF Takes
<1>3. /\ q \in Seq(Packets) /\ requeue \in Seq(Packets) /\ client.sent \in Nat /\ last.n \in Nat
      /\ h \in Packets /\ h.n \in Nat
  <2>1. q \in Seq(Packets) /\ requeue \in Seq(Packets) /\ client.sent \in Nat /\ last.n \in Nat
    BY <1>0, OrderTypes
  <2>2. h \in Packets
    BY <1>0, <1>2, <2>1, TailPositions
  <2> QED BY <2>1, <2>2 DEF Packets
<1>4. session.player # None => requeue = <<>> /\ NoEnum(q)
  BY <1>1 DEF Held, LoginsInOrder, Idle
<1>5. /\ Ascending(t) /\ Within(t, last.n, client.sent) /\ Before(requeue, t)
      /\ Numbered(h) => last.n < h.n /\ h.n <= client.sent /\ Within(t, h.n, client.sent)
  BY <1>0, <1>1, <1>2, <1>3, TailNumbers DEF PacketsInOrder
<1>6. PacketsInOrder(t, requeue', last'.n, client'.sent)
  <2>1. CASE last' = last
    BY <1>1, <1>2, <1>5, <2>1 DEF PacketsInOrder
  <2>2. CASE Numbered(h) /\ session.player # None /\ last'.n = h.n
    <3>1. PacketsInOrder(t, requeue, last.n, client.sent)
      BY <1>1, <1>5 DEF PacketsInOrder
    <3>2. PacketsInOrder(t, <<>>, last.n, client.sent) /\ requeue' = <<>>
      BY <1>2, <1>4, <2>2, <3>1, NothingHeld
    <3>3. Within(<<>>, h.n, client.sent)
      BY DEF Within
    <3> QED BY <1>2, <1>3, <1>5, <2>2, <3>2, <3>3 DEF PacketsInOrder
  <2> QED BY <1>2, <2>1, <2>2
<1>7. PICK login : login = client.login
  OBVIOUS
<1>8. /\ EnumFirst(q) => EnumFirst(t)
      /\ NoEnum(q) => NoEnum(t) /\ h.kind # "enum"
      /\ UpTo(q, login) => UpTo(t, login)
      /\ NoneOf(q, login) => NoneOf(t, login)
      /\ NoneStale(q, login) => NoneStale(t, login)
      /\ NoneNumbered(q) => NoneNumbered(t)
      /\ StaleEnds(q, login) => StaleEnds(t, login)
      /\ NumberedEnds(q) => NumberedEnds(t)
      /\ EnumFirst(q) /\ h.kind = "enum" =>
            /\ StaleEnds(q, login) => NoneStale(t, login)
            /\ NumberedEnds(q) => NoneNumbered(t)
      /\ EnumFirst(q) /\ h.kind = "login" => NoEnum(t)
  BY <1>0, <1>2, <1>3, TailLogins
<1>9. LoginsInOrder(t, requeue', client'.login, session'.recent, Idle')
  BY <1>1, <1>2, <1>7, <1>8 DEF LoginsInOrder
<1>10. Held'
  BY <1>1, <1>2, <1>4 DEF Held
<1>11. sock'[Realm] = "linked" =>
         ClientInOrder(t, requeue', client'.login, client'.at, session'.recent,
                       Told(toClient', "resumeComms"), Told(toClient', "logoutComplete"))
  <2> SUFFICES ASSUME sock[Realm] = "linked"
               PROVE  ClientInOrder(t, requeue, login, client.at, session'.recent,
                                    Told(toClient', "resumeComms"), Told(toClient', "logoutComplete"))
    BY <1>2, <1>7
  <2>1. EnumFirst(q)
    BY <1>1 DEF LoginsInOrder
  <2>2. ClientInOrder(q, requeue, login, client.at, session.recent,
                      Told(toClient, "resumeComms"), Told(toClient, "logoutComplete"))
    BY <1>1, <1>7
  <2>3. client.at = "select" => /\ requeue = <<>> /\ NumberedEnds(t)
                                /\ (NoneNumbered(t) \/ session'.recent)
    BY <1>2, <1>8, <2>1, <2>2 DEF ClientInOrder
  <2>4. client.at = "left" => requeue = <<>> /\ NoEnum(t) /\ (NoneNumbered(t) \/ session'.recent)
    BY <1>2, <1>8, <2>2 DEF ClientInOrder
  <2>5. client.at = "login" /\ ~Told(toClient', "resumeComms") => requeue = <<>> /\ NoneOf(t, login)
    BY <1>2, <1>8, <2>2 DEF ClientInOrder
  <2>6. Told(toClient', "logoutComplete") => session'.recent /\ requeue = <<>> /\ NoEnum(t)
    BY <1>2, <1>4, <1>8, <2>2 DEF ClientInOrder
  <2> QED BY <2>3, <2>4, <2>5, <2>6 DEF ClientInOrder
<1> QED BY <1>2, <1>6, <1>9, <1>10, <1>11, OrderThen

\* A packet for a character that is not there yet is put back: it is none that an
\* earlier character left behind, because the session has not just logged out.
LEMMA RequeueStep ==
    ASSUME IndInv, OrderInv, RequeuePacket
    PROVE  OrderInv'
<1>0. PICK q, t, h : q = recvQueue /\ t = Tail(recvQueue) /\ h = Head(recvQueue)
  OBVIOUS
<1>1. /\ q # <<>> /\ recvQueue' = t /\ requeue' = Append(requeue, h) /\ IsEarly(h)
      /\ pc' = pc /\ pc \in {"world", "map"} /\ UNCHANGED <<session, sock, toClient, client, last>>
  BY <1>0 DEF RequeuePacket, NextPacket, HasNext
<1>2. Numbered(h) /\ session.player = None /\ ~session.recent
  BY <1>1 DEF IsEarly, Numbered
<1>3. q \in Seq(Packets) /\ requeue \in Seq(Packets)
  BY <1>0, OrderTypes
<1>4. /\ PacketsInOrder(q, requeue, last.n, client.sent)
      /\ LoginsInOrder(q, requeue, client.login, session.recent, Idle)
      /\ sock[Realm] = "linked" =>
            ClientInOrder(q, requeue, client.login, client.at, session.recent,
                          Told(toClient, "resumeComms"), Told(toClient, "logoutComplete"))
  BY <1>0 DEF OrderInv
<1>5. PICK login : login = client.login
  OBVIOUS
<1>6. NoneStale(q, login)
  BY <1>2, <1>4, <1>5 DEF LoginsInOrder
<1>7. /\ EnumFirst(q) => EnumFirst(t)
      /\ NoEnum(q) => NoEnum(t)
      /\ UpTo(q, login) => UpTo(t, login)
      /\ NoneStale(t, login)
      /\ StaleEnds(q, login) => StaleEnds(t, login)
      /\ ~NoneNumbered(q) /\ h.login = login /\ ~NoneOf(q, login)
  BY <1>0, <1>1, <1>2, <1>3, <1>6, TailLogins
<1>8. PacketsInOrder(t, requeue', last.n, client.sent) /\ AllOf(requeue', login)
  BY <1>0, <1>1, <1>2, <1>3, <1>4, <1>5, <1>7, RequeueOrder DEF LoginsInOrder
<1>9. LoginsInOrder(t, requeue', login, session.recent, Idle)
  BY <1>4, <1>5, <1>7, <1>8 DEF LoginsInOrder
<1>10. Held'
  BY <1>1, <1>2 DEF Held
<1>11. sock[Realm] = "linked" =>
         ClientInOrder(t, requeue', login, client.at, session.recent,
                       Told(toClient, "resumeComms"), Told(toClient, "logoutComplete"))
  BY <1>2, <1>4, <1>5, <1>7 DEF ClientInOrder
<1>12. Idle' = Idle
  BY <1>1 DEF Idle
<1> QED BY <1>1, <1>5, <1>8, <1>9, <1>10, <1>11, <1>12, OrderThen

\* A packet that comes late or unexpected is dropped.
LEMMA DropStep ==
    ASSUME IndInv, OrderInv, DropPacket
    PROVE  OrderInv'
<1>1. /\ recvQueue # <<>> /\ recvQueue' = Tail(recvQueue)
      /\ UNCHANGED <<session, sock, toClient, client, last, requeue, pc>>
  BY DEF DropPacket, NextPacket, HasNext
<1>2. Idle => Idle'
  BY <1>1 DEF Idle
<1>3. Takes
  BY <1>1, <1>2 DEF Takes
<1> QED BY <1>3, TakeStep

\* The session is kicked instead.
LEMMA RefuseStep ==
    ASSUME IndInv, OrderInv, RefusePacket
    PROVE  OrderInv'
<1>0. PICK h : h = Head(recvQueue)
  OBVIOUS
<1>1. /\ recvQueue # <<>> /\ recvQueue' = Tail(recvQueue) /\ KickPlayer(Dispatched(h.kind))
      /\ UNCHANGED <<toClient, client, last, requeue, pc>>
  BY <1>0 DEF RefusePacket, NextPacket, HasNext
<1>2. session \in SessionRec
  BY OrderTypes
<1>3. /\ session'.player = session.player /\ session'.loading = session.loading
      /\ session.recent => session'.recent \/ h.kind = "enum"
  BY <1>1, <1>2 DEF KickPlayer, Dispatched, SessionRec
<1>4. Idle => Idle'
  BY <1>3 DEF Idle
<1>5. sock'[Realm] = "linked" => sock[Realm] = "linked"
  <2>1. Types /\ Realm \in Conns /\ sock' = Closed(BothSockets)
    BY <1>1, Fields DEF IndInv, KickPlayer
  <2> QED BY <2>1, ClosedCloses DEF OnlyCloses
<1>6. Takes
  BY <1>0, <1>1, <1>3, <1>4, <1>5 DEF Takes
<1> QED BY <1>6, TakeStep

\* What a handler does with the session of a character, or without one.
LEMMA HandledTakes ==
    ASSUME IndInv, OrderInv, HandlePacket
    PROVE  Takes
<1>0. PICK h : h = Head(recvQueue)
  OBVIOUS
<1>1. /\ recvQueue # <<>> /\ recvQueue' = Tail(recvQueue) /\ IsCallable(h) /\ Handler(h)
      /\ UNCHANGED <<client, requeue, pc>>
      /\ last' = IF Status[h.kind] \in {"authed", "recently"} THEN last
                 ELSE [n |-> h.n, login |-> h.login, player |-> session.player]
  BY <1>0 DEF HandlePacket, NextPacket, HasNext
<1>2. /\ session \in SessionRec /\ h \in Packets /\ Types /\ Realm \in Conns
      /\ h.kind \in {"enum", "login", "safe", "logout", "cancel", "trade", "worldport"}
  <2>1. h \in Packets
    BY <1>0, <1>1, OrderTypes, TailPositions
  <2> QED BY <2>1, OrderTypes, Opcodes, Fields DEF Packets, IndInv
<1>3. CASE h.kind \in {"safe", "logout", "cancel", "worldport"}
  <2>1. Numbered(h) /\ session.player # None /\ last'.n = h.n
    <3>1. Numbered(h) /\ Status[h.kind] \in {"loggedin", "transfer"}
      BY <1>3 DEF Status, Numbered
    <3>2. session.player # None
      BY <1>1, <3>1 DEF IsCallable, InWorld
    <3>3. last' = [n |-> h.n, login |-> h.login, player |-> session.player]
      BY <1>1, <3>1
    <3> QED BY <3>1, <3>2, <3>3
  <2>2. ~Idle
    BY <2>1 DEF Idle
  <2>3. \/ LogoutPlayer
        \/ TeleportTo(session) /\ UNCHANGED sock
        \/ /\ UNCHANGED <<sock, toClient>>
           /\ \/ session' = session
              \/ \E b \in BOOLEAN : session' = [session EXCEPT !.leaving = b]
              \/ session' = [session EXCEPT !.inWorld = TRUE]
    BY <1>1, <1>3 DEF Handler, HandleLogoutRequestOpcode, HandleMoveWorldportAck, Dispatched
  <2>4. CASE LogoutPlayer
    BY <1>0, <1>1, <2>1, <2>2, <2>4, LogoutOrder DEF Takes
  <2>5. CASE TeleportTo(session) /\ UNCHANGED sock
    BY <1>0, <1>1, <2>1, <2>2, <2>5, TeleportOrder DEF Takes
  <2>6. CASE /\ UNCHANGED <<sock, toClient>>
             /\ \/ session' = session
                \/ \E b \in BOOLEAN : session' = [session EXCEPT !.leaving = b]
                \/ session' = [session EXCEPT !.inWorld = TRUE]
    <3>1. session'.recent = session.recent
      BY <1>2, <2>6 DEF SessionRec
    <3> QED BY <1>0, <1>1, <2>1, <2>2, <2>6, <3>1 DEF Takes
  <2> QED BY <2>3, <2>4, <2>5, <2>6
<1>4. CASE h.kind \in {"enum", "trade"}
  <2>1. session' = Dispatched(h.kind) /\ UNCHANGED <<sock, toClient>> /\ last' = last
    <3>1. session' = Dispatched(h.kind) /\ UNCHANGED <<sock, toClient>>
      BY <1>1, <1>4 DEF Handler
    <3>2. Status[h.kind] \in {"authed", "recently"}
      BY <1>4 DEF Status
    <3> QED BY <1>1, <3>1, <3>2
  <2>2. /\ session'.player = session.player /\ session'.loading = session.loading
        /\ session.recent => session'.recent \/ h.kind = "enum"
    BY <1>2, <2>1 DEF Dispatched, SessionRec
  <2>3. Idle => Idle'
    BY <2>2 DEF Idle
  <2> QED BY <1>0, <1>1, <2>1, <2>2, <2>3 DEF Takes
<1>5. CASE h.kind = "login"
  <2>1. HandlePlayerLoginOpcode(h.login) /\ last' = last
    BY <1>1, <1>5 DEF Handler, Status
  <2>2. session'.player = session.player /\ session'.recent = session.recent
    BY <1>2, <2>1 DEF HandlePlayerLoginOpcode, KickPlayer, SendConnectToInstance, SessionRec
  <2>3. sock'[Realm] = "linked" => sock[Realm] = "linked"
    BY <1>2, <2>1, ClosedCloses DEF HandlePlayerLoginOpcode, KickPlayer, OnlyCloses
  <2>4. /\ Told(toClient, "resumeComms") => Told(toClient', "resumeComms")
        /\ Told(toClient', "logoutComplete") => Told(toClient, "logoutComplete")
    <3>1. CASE toClient' = toClient
      BY <3>1
    <3>2. CASE toClient' # toClient
      <4>0. PICK m : m = Message("connectTo", session.key + 1, 1)
        OBVIOUS
      <4>1. /\ session' = [[session EXCEPT !.loading = h.login] EXCEPT !.key = @ + 1]
            /\ toClient' = Sent(m)
        BY <2>1, <3>2, <4>0 DEF HandlePlayerLoginOpcode, SendConnectToInstance
      <4>2. session'.key = session.key + 1 /\ session.key \in Nat
        BY <1>2, <4>1, Fields DEF SessionRec
      <4>3. session.key + 1 \in Keys
        <5>1. session' \in SessionRec
          BY <1>0, <1>1, PacketTypes DEF TypesThen, Types, TypeOK, SessionRec
        <5> QED BY <4>2, <5>1 DEF SessionRec, None
      <4>4. 1 \in Serials
        BY SessionLoginAssumption DEF Serials
      <4>5. m \in Messages /\ m.type # "logoutComplete"
        BY <4>0, <4>3, <4>4, MessageTypes DEF Message
      <4> QED BY <4>1, <4>5, ToldThen
    <3> QED BY <3>1, <3>2
  <2> QED BY <1>0, <1>1, <1>5, <2>1, <2>2, <2>3, <2>4 DEF Takes
<1> QED BY <1>2, <1>3, <1>4, <1>5

\* The packets that were put back return to the front of the queue.
LEMMA EndPacketsStep ==
    ASSUME IndInv, OrderInv, EndPackets
    PROVE  OrderInv'
<1>1. /\ recvQueue' = requeue \o recvQueue /\ requeue' = <<>>
      /\ UNCHANGED <<session, sock, toClient, client, last>>
  BY DEF EndPackets, Readd
<1>2. recvQueue \in Seq(Packets) /\ requeue \in Seq(Packets) /\ client.login \in Nat
  BY OrderTypes
<1>3. /\ PacketsInOrder(recvQueue, requeue, last.n, client.sent)
      /\ LoginsInOrder(recvQueue, requeue, client.login, session.recent, Idle)
      /\ sock[Realm] = "linked" =>
            ClientInOrder(recvQueue, requeue, client.login, client.at, session.recent,
                          Told(toClient, "resumeComms"), Told(toClient, "logoutComplete"))
  BY DEF OrderInv
<1>4. /\ PacketsInOrder(recvQueue', <<>>, last.n, client.sent)
      /\ LoginsInOrder(recvQueue', <<>>, client.login, session.recent, Idle)
  BY <1>1, <1>2, <1>3, ReaddOrder
<1>5. requeue = <<>> => recvQueue' = recvQueue
  BY <1>1, <1>2, ConcatEmptySeq
<1>6. sock[Realm] = "linked" =>
         ClientInOrder(recvQueue', <<>>, client.login, client.at, session.recent,
                       Told(toClient, "resumeComms"), Told(toClient, "logoutComplete"))
  BY <1>3, <1>5 DEF ClientInOrder
<1>7. Idle' = Idle /\ Held'
  BY <1>1 DEF Idle, Held
<1> QED BY <1>1, <1>4, <1>6, <1>7, OrderThen

\* The session goes with all that waits.
LEMMA DeleteOrder ==
    ASSUME IndInv, OrderInv, DeleteSession
    PROVE  OrderInv'
<1>0. PICK e : e = <<>>
  OBVIOUS
<1>1. /\ pc = "cleanup" /\ sock' = Closed(BothSockets) /\ recvQueue' = <<>>
      /\ UNCHANGED <<requeue, client, last>>
  BY DEF DeleteSession
<1>2. requeue' = <<>>
  BY <1>1 DEF OrderInv, Held
<1>3. last.n \in Nat /\ last.n <= client.sent
  BY DEF OrderInv, PacketsInOrder
<1>4. 1..Len(e) = {}
  <2>1. Len(e) = 0
    BY <1>0, EmptySeq
  <2> QED BY <2>1
<1>5. \A n, m : PacketsInOrder(e, e, n, m) <=> n \in Nat /\ n <= m
  BY <1>4 DEF PacketsInOrder, Ascending, Before, Within
<1>6. \A login, recent, idle : LoginsInOrder(e, e, login, recent, idle)
  BY <1>4 DEF LoginsInOrder, EnumFirst, NoEnum, UpTo, StaleEnds, NoneStale, AllOf
<1>7. sock'[Realm] # "linked"
  <2>1. Types /\ Realm \in Conns /\ Realm \in BothSockets
    BY Fields DEF IndInv, BothSockets
  <2> QED BY <1>1, <2>1, ClosedCloses
<1>8. Held'
  BY <1>2 DEF Held
<1> QED BY <1>0, <1>1, <1>2, <1>3, <1>5, <1>6, <1>7, <1>8, OrderThen

-----------------------------------------------------------------------------
(* The client keeps the order.                                              *)

\* A packet of the client's: its number is the highest so far.
LEMMA SentNumbers ==
    ASSUME IndInv, OrderInv, NEW kind \in Kinds, NEW c \in ClientRec, ClientSends(kind, c),
           client.sent <= c.sent,
           kind \in {"safe", "logout", "cancel", "worldport"} => c.sent = client.sent + 1
    PROVE  LET m == [kind |-> kind, login |-> c.login, n |-> c.sent]
           IN  /\ m \in Packets /\ m.kind = kind /\ m.login = c.login
               /\ Numbered(m) <=> kind \in {"safe", "logout", "cancel", "worldport"}
               /\ recvQueue' = Append(recvQueue, m) /\ client' = c
               /\ UNCHANGED <<session, sock, requeue, pc, last>>
               /\ PacketsInOrder(recvQueue', requeue', last'.n, client'.sent)
               /\ Held' /\ Idle' = Idle
<1>0. PICK m : m = [kind |-> kind, login |-> c.login, n |-> c.sent]
  OBVIOUS
<1>1. recvQueue' = Append(recvQueue, m) /\ client' = c /\ UNCHANGED <<session, sock, requeue, pc, last>>
  BY <1>0 DEF ClientSends, QueuePacket, updateVars
<1>2. m \in Packets /\ m.kind = kind /\ m.login = c.login /\ m.n = c.sent /\ c.sent \in Nat
  BY <1>0 DEF Packets, ClientRec
<1>3. Numbered(m) <=> kind \in {"safe", "logout", "cancel", "worldport"}
  BY <1>2, NumberedKinds
<1>4. recvQueue \in Seq(Packets) /\ requeue \in Seq(Packets) /\ client.sent \in Nat /\ last.n \in Nat
  BY OrderTypes
<1>5. PacketsInOrder(recvQueue, requeue, last.n, client.sent)
  BY DEF OrderInv
<1>6. Numbered(m) => client.sent < m.n /\ m.n <= c.sent
  BY <1>2, <1>3, <1>4
<1>7. PICK low, high, new, q, r : /\ low = last.n /\ high = client.sent /\ new = c.sent
                                  /\ q = recvQueue /\ r = requeue
  OBVIOUS
<1>8. /\ low \in Nat /\ high \in Nat /\ new \in Nat /\ low <= high /\ high <= new
      /\ q \in Seq(Packets) /\ r \in Seq(Packets) /\ Ascending(r)
      /\ Ascending(q) /\ Within(q, low, high) /\ Within(r, low, high) /\ Before(r, q)
      /\ Numbered(m) => high < m.n /\ m.n <= new
  BY <1>2, <1>4, <1>5, <1>6, <1>7 DEF PacketsInOrder
<1>9. /\ Ascending(Append(q, m)) /\ Within(Append(q, m), low, new)
      /\ Before(r, Append(q, m)) /\ Within(r, low, new)
  BY <1>2, <1>8, AppendNumbers
<1>10. PacketsInOrder(Append(q, m), r, low, new)
  BY <1>8, <1>9 DEF PacketsInOrder
<1>11. Held' /\ Idle' = Idle
  BY <1>1 DEF OrderInv, Held, Idle
<1> QED BY <1>0, <1>1, <1>2, <1>3, <1>7, <1>10, <1>11

\* CMSG_ENUM_CHARACTERS ends what was sent for the character that left.
LEMMA EnumerateStep ==
    ASSUME IndInv, OrderInv, Enumerate
    PROVE  OrderInv'
<1>0. client \in ClientRec /\ recvQueue \in Seq(Packets) /\ client.sent \in Nat
  BY OrderTypes
<1>1. PICK c : c = [client EXCEPT !.at = "select"]
  OBVIOUS
<1>2. /\ sock[Realm] = "linked" /\ client.at = "left" /\ ClientSends("enum", c) /\ UNCHANGED toClient
  BY <1>1 DEF Enumerate, Online
<1>3. c \in ClientRec /\ c.at = "select" /\ c.login = client.login /\ c.sent = client.sent
  BY <1>0, <1>1 DEF ClientRec
<1>4. PICK m : m = [kind |-> "enum", login |-> c.login, n |-> c.sent]
  OBVIOUS
<1>5. /\ m \in Packets /\ m.kind = "enum" /\ ~Numbered(m)
      /\ recvQueue' = Append(recvQueue, m) /\ client' = c
      /\ UNCHANGED <<session, sock, requeue, pc, last>>
      /\ PacketsInOrder(recvQueue', requeue', last'.n, client'.sent)
      /\ Held' /\ Idle' = Idle
  <2>1. "enum" \in Kinds /\ client.sent <= c.sent
    BY <1>0, <1>3, Opcodes
  <2> QED BY <1>2, <1>3, <1>4, <2>1, SentNumbers
<1>6. Away
  BY <1>2 DEF IndInv, PhaseInv, Phase, Asked, Offered, Trying, Entering, Playing, Leaving, Aborted
<1>7. PICK q, a, login : q = recvQueue /\ a = Append(q, m) /\ login = client.login
  OBVIOUS
<1>8. /\ LoginsInOrder(q, requeue, login, session.recent, Idle)
      /\ requeue = <<>> /\ NoEnum(q) /\ (NoneNumbered(q) \/ session.recent)
      /\ Idle /\ NoLogin(q) /\ toClient = <<>>
  BY <1>2, <1>6, <1>7 DEF OrderInv, ClientInOrder, Away
<1>9. /\ NoEnum(q) /\ NoLogin(q) /\ m.kind # "login" => EnumFirst(a)
      /\ UpTo(q, login) /\ (Numbered(m) => m.login <= login) => UpTo(a, login)
      /\ NoneStale(q, login) /\ (Numbered(m) => m.login = login) => NoneStale(a, login)
      /\ StaleEnds(q, login) /\ (Numbered(m) => m.login = login) => StaleEnds(a, login)
      /\ NoneNumbered(q) /\ ~Numbered(m) => NoneNumbered(a)
      /\ m.kind = "enum" /\ ~Numbered(m) => NumberedEnds(a)
  BY <1>0, <1>5, <1>7, AppendLogins
<1>10. LoginsInOrder(a, requeue, login, session.recent, Idle)
  BY <1>5, <1>8, <1>9 DEF LoginsInOrder
<1>11. ~Told(toClient, "logoutComplete")
  <2>1. Len(toClient) = 0
    BY <1>8, EmptySeq
  <2> QED BY <2>1 DEF Told
<1>12. ClientInOrder(a, requeue, login, "select", session.recent,
                     Told(toClient, "resumeComms"), Told(toClient, "logoutComplete"))
  BY <1>5, <1>8, <1>9, <1>11 DEF ClientInOrder
<1> QED BY <1>2, <1>3, <1>5, <1>7, <1>10, <1>12, OrderThen

\* The next choice: nothing has been sent for it yet, and what was sent for the
\* earlier ones is ended by CMSG_ENUM_CHARACTERS.
LEMMA ChooseOrder ==
    ASSUME IndInv, OrderInv, ChooseCharacter
    PROVE  OrderInv'
<1>0. /\ client \in ClientRec /\ recvQueue \in Seq(Packets) /\ client.sent \in Nat
      /\ client.login \in Nat
  BY OrderTypes
<1>1. PICK c : c = [client EXCEPT !.at = "login", !.login = @ + 1, !.key = None, !.serial = None]
  OBVIOUS
<1>2. /\ sock[Realm] = "linked" /\ client.at = "select" /\ ClientSends("login", c) /\ UNCHANGED toClient
      /\ client.login < MaxLogins
  BY <1>1 DEF ChooseCharacter, Online
<1>3. c \in ClientRec /\ c.at = "login" /\ c.login = client.login + 1 /\ c.sent = client.sent
  <2>1. client.login + 1 \in Logins
    BY <1>0, <1>2, SessionLoginAssumption DEF Logins
  <2>2. c.at = "login" /\ c.login = client.login + 1 /\ c.sent = client.sent
    BY <1>0, <1>1, Zenon DEF ClientRec
  <2>3. c \in ClientRec
    BY <1>0, <1>1, <2>1, Zenon DEF ClientRec
  <2> QED BY <2>2, <2>3
<1>4. PICK m : m = [kind |-> "login", login |-> c.login, n |-> c.sent]
  OBVIOUS
<1>5. /\ m \in Packets /\ m.kind = "login" /\ ~Numbered(m)
      /\ recvQueue' = Append(recvQueue, m) /\ client' = c
      /\ UNCHANGED <<session, sock, requeue, pc, last>>
      /\ PacketsInOrder(recvQueue', requeue', last'.n, client'.sent)
      /\ Held' /\ Idle' = Idle
  <2>1. "login" \in Kinds /\ client.sent <= c.sent
    BY <1>0, <1>3, Opcodes
  <2> QED BY <1>2, <1>3, <1>4, <2>1, SentNumbers
<1>6. Away
  BY <1>2 DEF IndInv, PhaseInv, Phase, Asked, Offered, Trying, Entering, Playing, Leaving, Aborted
<1>7. PICK q, a, login, new : /\ q = recvQueue /\ a = Append(q, m)
                              /\ login = client.login /\ new = login + 1
  OBVIOUS
<1>8. /\ LoginsInOrder(q, requeue, login, session.recent, Idle)
      /\ requeue = <<>> /\ NumberedEnds(q) /\ (NoneNumbered(q) \/ session.recent)
      /\ Idle /\ toClient = <<>>
  BY <1>2, <1>6, <1>7 DEF OrderInv, ClientInOrder, Away
<1>9. /\ UpTo(q, new) /\ NoneOf(q, new) /\ StaleEnds(q, new)
      /\ NoneStale(q, new) \/ session.recent
  <2>1. ASSUME NEW i \in 1..Len(q), Numbered(q[i])
        PROVE  q[i].login <= new /\ q[i].login # new /\ EnumBehind(q, i)
    <3>1. q[i].login <= login /\ EnumBehind(q, i)
      BY <1>8, <2>1 DEF LoginsInOrder, UpTo, NumberedEnds
    <3>2. q[i].login \in Nat
      <4>1. q[i] \in Packets
        BY <1>0, <1>7, <2>1, ElementOfSeq
      <4> QED BY <4>1, SessionLoginAssumption DEF Packets, None, Logins
    <3> QED BY <1>0, <1>7, <3>1, <3>2
  <2>2. NoneNumbered(q) => NoneStale(q, new)
    BY DEF NoneNumbered, NoneStale
  <2> QED BY <1>8, <2>1, <2>2 DEF UpTo, NoneOf, StaleEnds
<1>10. /\ EnumFirst(q) /\ m.kind # "enum" => EnumFirst(a)
       /\ UpTo(q, new) /\ (Numbered(m) => m.login <= new) => UpTo(a, new)
       /\ NoneOf(q, new) /\ (Numbered(m) => m.login # new) => NoneOf(a, new)
       /\ NoneStale(q, new) /\ (Numbered(m) => m.login = new) => NoneStale(a, new)
       /\ StaleEnds(q, new) /\ (Numbered(m) => m.login = new) => StaleEnds(a, new)
  BY <1>0, <1>5, <1>7, AppendLogins
<1>11. LoginsInOrder(a, requeue, new, session.recent, Idle)
  <2>1. AllOf(requeue, new)
    BY <1>8 DEF AllOf
  <2> QED BY <1>5, <1>8, <1>9, <1>10, <2>1 DEF LoginsInOrder
<1>12. ~Told(toClient, "logoutComplete")
  <2>1. Len(toClient) = 0
    BY <1>8, EmptySeq
  <2> QED BY <2>1 DEF Told
<1>13. ClientInOrder(a, requeue, new, "login", session.recent,
                     Told(toClient, "resumeComms"), Told(toClient, "logoutComplete"))
  BY <1>5, <1>8, <1>9, <1>10, <1>12 DEF ClientInOrder
<1> QED BY <1>2, <1>3, <1>5, <1>7, <1>11, <1>13, OrderThen

\* While the client can send for a character, no CMSG_ENUM_CHARACTERS waits.
LEMMA NoEnumWaits ==
    ASSUME IndInv, OrderInv, sock[client.key] = "linked",
           sock[Realm] = "linked" => Playing \/ Leaving
    PROVE  NoEnum(recvQueue)
<1>1. LoginsInOrder(recvQueue, requeue, client.login, session.recent, Idle)
  BY DEF OrderInv
<1>2. Accepted => NoEnum(recvQueue)
  BY <1>1, AcceptedPhase DEF LoginsInOrder
<1>3. CASE sock[Realm] = "linked"
  <2>1. Playing => Accepted
    BY DEF Playing
  <2>2. Leaving => Told(toClient, "logoutComplete")
    <3>1. toClient \in Seq(Messages)
      BY OrderTypes
    <3>2. toClient # <<>> => Len(toClient) \in 1..Len(toClient)
      BY <3>1, EmptySeq
    <3> QED BY <3>2 DEF Leaving, Told
  <2>3. Told(toClient, "logoutComplete") => NoEnum(recvQueue)
    BY <1>3 DEF OrderInv, ClientInOrder
  <2> QED BY <1>2, <1>3, <2>1, <2>2, <2>3
<1>4. CASE sock[Realm] # "linked"
  <2>1. client.key \in Keys
    BY <1>4, Fields DEF IndInv, None, Realm
  <2>2. Accepted
    BY <2>1 DEF IndInv, ConnInv
  <2> QED BY <1>2, <2>2
<1> QED BY <1>3, <1>4

\* A packet for the character that was chosen last.
LEMMA SendNumbered ==
    ASSUME IndInv, OrderInv, NEW kind \in {"safe", "logout", "cancel", "worldport"},
           ClientSends(kind, [client EXCEPT !.sent = @ + 1]), sock[client.key] = "linked",
           sock[Realm] = "linked" => client.at = "in" /\ (Playing \/ Leaving),
           Told(toClient', "logoutComplete") => Told(toClient, "logoutComplete")
    PROVE  OrderInv'
<1>0. /\ client \in ClientRec /\ recvQueue \in Seq(Packets) /\ client.sent \in Nat
      /\ client.login \in Nat
  BY OrderTypes
<1>1. PICK c : c = [client EXCEPT !.sent = @ + 1]
  OBVIOUS
<1>2. c \in ClientRec /\ c.at = client.at /\ c.login = client.login /\ c.sent = client.sent + 1
  BY <1>0, <1>1 DEF ClientRec
<1>3. PICK m : m = [kind |-> kind, login |-> c.login, n |-> c.sent]
  OBVIOUS
<1>4. /\ m \in Packets /\ m.kind = kind /\ m.login = c.login
      /\ recvQueue' = Append(recvQueue, m) /\ client' = c
      /\ UNCHANGED <<session, sock, requeue, pc, last>>
      /\ PacketsInOrder(recvQueue', requeue', last'.n, client'.sent)
      /\ Held' /\ Idle' = Idle
  <2>1. kind \in Kinds /\ client.sent <= c.sent
    BY <1>0, <1>2, Opcodes
  <2>2. ClientSends(kind, c)
    BY <1>1
  <2>3. PICK k \in Kinds : k = kind
    BY <2>1
  <2> QED BY <1>2, <1>3, <2>1, <2>2, <2>3, SentNumbers
<1>5. PICK q, a, login : q = recvQueue /\ a = Append(q, m) /\ login = client.login
  OBVIOUS
<1>6. NoEnum(q) /\ LoginsInOrder(q, requeue, login, session.recent, Idle)
  BY <1>5, NoEnumWaits DEF OrderInv
<1>7. m.login = login /\ m.login <= login
  BY <1>0, <1>2, <1>4, <1>5
<1>8. /\ NoEnum(q) /\ m.kind # "enum" => NoEnum(a)
      /\ EnumFirst(q) /\ m.kind # "enum" => EnumFirst(a)
      /\ UpTo(q, login) /\ (Numbered(m) => m.login <= login) => UpTo(a, login)
      /\ NoneStale(q, login) /\ (Numbered(m) => m.login = login) => NoneStale(a, login)
      /\ StaleEnds(q, login) /\ (Numbered(m) => m.login = login) => StaleEnds(a, login)
  BY <1>0, <1>4, <1>5, AppendLogins
<1>9. NoEnum(a) /\ LoginsInOrder(a, requeue, login, session.recent, Idle)
  BY <1>4, <1>6, <1>7, <1>8 DEF LoginsInOrder
<1>10. sock[Realm] = "linked" =>
          ClientInOrder(a, requeue, login, client.at, session.recent,
                        Told(toClient', "resumeComms"), Told(toClient', "logoutComplete"))
  BY <1>9 DEF ClientInOrder, OrderInv
<1> QED BY <1>2, <1>4, <1>5, <1>9, <1>10, OrderThen

\* Play: on the instance connection.
LEMMA PlayOrder ==
    ASSUME IndInv, OrderInv, Play
    PROVE  OrderInv'
<1>1. /\ client.at = "in" /\ sock[client.key] = "linked" /\ UNCHANGED toClient
      /\ \E kind \in {"safe", "logout", "cancel"} : ClientSends(kind, [client EXCEPT !.sent = @ + 1])
  BY DEF Play
<1>2. sock[Realm] = "linked" => Playing \/ Leaving
  BY <1>1 DEF IndInv, PhaseInv, Phase, Away, Asked, Offered, Trying, Entering, Aborted
<1> QED BY <1>1, <1>2, SendNumbered

\* CMSG_CANCEL_TRADE is for no character.
LEMMA TradeOrder ==
    ASSUME IndInv, OrderInv, CancelTrade
    PROVE  OrderInv'
<1>0. client \in ClientRec /\ recvQueue \in Seq(Packets) /\ client.sent \in Nat
  BY OrderTypes
<1>1. PICK c : c = [client EXCEPT !.sent = @ + 1]
  OBVIOUS
<1>2. /\ sock[Realm] = "linked" /\ client.at = "left" /\ ClientSends("trade", c) /\ UNCHANGED toClient
  BY <1>1 DEF CancelTrade, Online
<1>3. c \in ClientRec /\ c.at = "left" /\ c.login = client.login /\ c.sent = client.sent + 1
  BY <1>0, <1>1, <1>2 DEF ClientRec
<1>4. PICK m : m = [kind |-> "trade", login |-> c.login, n |-> c.sent]
  OBVIOUS
<1>5. /\ m \in Packets /\ m.kind = "trade" /\ ~Numbered(m)
      /\ recvQueue' = Append(recvQueue, m) /\ client' = c
      /\ UNCHANGED <<session, sock, requeue, pc, last>>
      /\ PacketsInOrder(recvQueue', requeue', last'.n, client'.sent)
      /\ Held' /\ Idle' = Idle
  <2>1. "trade" \in Kinds /\ client.sent <= c.sent
    BY <1>0, <1>3, Opcodes
  <2> QED BY <1>2, <1>3, <1>4, <2>1, SentNumbers
<1>6. PICK q, a, login : q = recvQueue /\ a = Append(q, m) /\ login = client.login
  OBVIOUS
<1>7. /\ LoginsInOrder(q, requeue, login, session.recent, Idle)
      /\ requeue = <<>> /\ NoEnum(q) /\ (NoneNumbered(q) \/ session.recent)
      /\ Told(toClient, "logoutComplete") => session.recent
  BY <1>2, <1>6 DEF OrderInv, ClientInOrder
<1>8. /\ NoEnum(q) /\ m.kind # "enum" => NoEnum(a)
      /\ EnumFirst(q) /\ m.kind # "enum" => EnumFirst(a)
      /\ UpTo(q, login) /\ (Numbered(m) => m.login <= login) => UpTo(a, login)
      /\ NoneStale(q, login) /\ (Numbered(m) => m.login = login) => NoneStale(a, login)
      /\ StaleEnds(q, login) /\ (Numbered(m) => m.login = login) => StaleEnds(a, login)
      /\ NoneNumbered(q) /\ ~Numbered(m) => NoneNumbered(a)
  BY <1>0, <1>5, <1>6, AppendLogins
<1>9. LoginsInOrder(a, requeue, login, session.recent, Idle)
  BY <1>5, <1>7, <1>8 DEF LoginsInOrder
<1>10. ClientInOrder(a, requeue, login, "left", session.recent,
                     Told(toClient, "resumeComms"), Told(toClient, "logoutComplete"))
  BY <1>5, <1>7, <1>8 DEF ClientInOrder
<1> QED BY <1>2, <1>3, <1>5, <1>6, <1>9, <1>10, OrderThen

\* The client has counted on without sending.
LEMMA MoreSent ==
    ASSUME NEW q \in Seq(Packets), NEW r \in Seq(Packets), NEW low, NEW high \in Nat, NEW new \in Nat,
           high <= new, PacketsInOrder(q, r, low, high)
    PROVE  PacketsInOrder(q, r, low, new)
<1>1. ASSUME NEW s \in Seq(Packets), Within(s, low, high) PROVE Within(s, low, new)
  <2> SUFFICES ASSUME NEW i \in 1..Len(s), Numbered(s[i]) PROVE low < s[i].n /\ s[i].n <= new
    BY DEF Within
  <2>1. low < s[i].n /\ s[i].n <= high
    BY <1>1 DEF Within
  <2>2. s[i] \in Packets
    BY ElementOfSeq
  <2>3. s[i].n \in Nat
    BY <2>2 DEF Packets
  <2> QED BY <2>1, <2>3
<1>2. low <= new
  BY DEF PacketsInOrder
<1> QED BY <1>1, <1>2 DEF PacketsInOrder

\* The client reads a message.
LEMMA ReceiveOrder ==
    ASSUME IndInv, OrderInv, Receive
    PROVE  OrderInv'
<1>0. /\ client \in ClientRec /\ recvQueue \in Seq(Packets) /\ requeue \in Seq(Packets)
      /\ toClient \in Seq(Messages) /\ client.sent \in Nat
  BY OrderTypes
<1>1. PICK m : m = Head(toClient)
  OBVIOUS
<1>2. PICK c : c = CASE m.type = "connectTo"      -> [client EXCEPT !.key = m.key, !.serial = m.serial]
                     [] m.type = "resumeComms"    -> [client EXCEPT !.at = "in"]
                     [] m.type = "loginFailed"    -> [client EXCEPT !.at = "select"]
                     [] m.type = "logoutComplete" -> [client EXCEPT !.at = "left"]
                     [] m.type = "transfer"       -> [client EXCEPT !.sent = @ + 1]
  OBVIOUS
<1>3. /\ toClient # <<>> /\ toClient' = Tail(toClient)
      /\ IF m.type = "transfer" /\ sock[client.key] = "linked"
         THEN ClientSends("worldport", c)
         ELSE /\ client' = c
              /\ UNCHANGED <<session, sock, linkQueue, holders, recvQueue, updateVars, moves, last>>
  BY <1>1, <1>2 DEF Receive
<1>4. /\ m.type \in {"connectTo", "resumeComms", "loginFailed", "logoutComplete", "transfer"}
      /\ m = toClient[1] /\ Len(toClient) \in Nat /\ 1 \in 1..Len(toClient)
      /\ Len(toClient) = 1 => Tail(toClient) = <<>>
  <2>1. /\ m \in Messages /\ m = toClient[1] /\ Len(toClient) \in Nat /\ Len(toClient) # 0
        /\ Len(toClient) = 1 => Tail(toClient) = <<>>
    BY <1>0, <1>1, <1>3, TailMessages
  <2> QED BY <2>1 DEF Messages
<1>5. /\ Told(toClient', "logoutComplete") => Told(toClient, "logoutComplete")
      /\ m.type # "resumeComms" => (Told(toClient, "resumeComms") => Told(toClient', "resumeComms"))
  BY <1>0, <1>1, <1>3, TailTold
<1>6. CASE m.type = "transfer" /\ sock[client.key] = "linked"
  <2>1. ClientSends("worldport", [client EXCEPT !.sent = @ + 1])
    BY <1>2, <1>3, <1>6
  <2>2. sock[Realm] = "linked" => client.at = "in" /\ (Playing \/ Leaving)
    <3>1. Message("connectTo", session.key, 1).type = "connectTo"
          /\ \A k, s : Message("connectTo", k, s).type = "connectTo"
          /\ Message("loginFailed", None, None).type = "loginFailed"
      BY DEF Message
    <3>2. ~Away /\ ~Asked /\ ~Trying
      BY <1>3 DEF Away, Asked, Trying
    <3>3. ~Offered /\ ~Aborted
      BY <1>4, <1>6, <3>1 DEF Offered, Aborted
    <3>4. ~Entering /\ (Leaving => client.at = "in") /\ (Playing => client.at = "in")
      BY <1>4, <1>6 DEF Entering, Leaving, Playing
    <3> QED BY <3>2, <3>3, <3>4 DEF IndInv, PhaseInv, Phase
  <2> QED BY <1>5, <1>6, <2>1, <2>2, SendNumbered
<1>7. CASE ~(m.type = "transfer" /\ sock[client.key] = "linked")
  <2>1. client' = c /\ UNCHANGED <<session, sock, recvQueue, requeue, pc, last>>
    BY <1>3, <1>7 DEF updateVars
  <2>2. /\ c.login = client.login /\ c.sent \in Nat /\ client.sent <= c.sent
        /\ m.type = "resumeComms" => c.at = "in"
        /\ m.type = "loginFailed" => c.at = "select"
        /\ m.type = "logoutComplete" => c.at = "left"
        /\ m.type \in {"connectTo", "transfer"} => c.at = client.at
    <3>1. CASE m.type = "connectTo"
      <4>1. c = [client EXCEPT !.key = m.key, !.serial = m.serial]
        BY <1>2, <3>1
      <4>2. c.at = client.at /\ c.login = client.login /\ c.sent = client.sent
        BY <1>0, <4>1, Zenon DEF ClientRec
      <4> QED BY <1>0, <3>1, <4>2
    <3>2. CASE m.type \in {"resumeComms", "loginFailed", "logoutComplete"}
      <4>1. PICK w \in {"in", "select", "left"} :
               /\ c = [client EXCEPT !.at = w]
               /\ m.type = "resumeComms" => w = "in"
               /\ m.type = "loginFailed" => w = "select"
               /\ m.type = "logoutComplete" => w = "left"
        BY <1>2, <3>2
      <4>2. c.at = w /\ c.login = client.login /\ c.sent = client.sent
        BY <1>0, <4>1 DEF ClientRec
      <4> QED BY <1>0, <3>2, <4>1, <4>2
    <3>3. CASE m.type = "transfer"
      <4>1. c = [client EXCEPT !.sent = @ + 1]
        BY <1>2, <3>3
      <4>2. c.at = client.at /\ c.login = client.login /\ c.sent = client.sent + 1
        BY <1>0, <4>1 DEF ClientRec
      <4> QED BY <1>0, <3>3, <4>2
    <3> QED BY <1>4, <3>1, <3>2, <3>3
  <2>3. PacketsInOrder(recvQueue, requeue, last.n, c.sent)
    <3>1. PacketsInOrder(recvQueue, requeue, last.n, client.sent)
      BY DEF OrderInv
    <3> QED BY <1>0, <2>2, <3>1, MoreSent
  <2>4. LoginsInOrder(recvQueue, requeue, client.login, session.recent, Idle)
    BY DEF OrderInv
  <2>5. Held' /\ Idle' = Idle
    BY <2>1 DEF OrderInv, Held, Idle
  <2>6. PICK q, login : q = recvQueue /\ login = client.login
    OBVIOUS
  <2>7. ASSUME sock[Realm] = "linked"
        PROVE  ClientInOrder(q, requeue, login, c.at, session.recent,
                             Told(toClient', "resumeComms"), Told(toClient', "logoutComplete"))
    <3>1. ClientInOrder(q, requeue, login, client.at, session.recent,
                        Told(toClient, "resumeComms"), Told(toClient, "logoutComplete"))
      BY <2>6, <2>7 DEF OrderInv
    <3>2. Told(toClient', "logoutComplete") => session.recent /\ requeue = <<>> /\ NoEnum(q)
      BY <1>5, <3>1 DEF ClientInOrder
    <3>3. CASE m.type \in {"connectTo", "transfer"}
      BY <1>5, <2>2, <3>1, <3>2, <3>3 DEF ClientInOrder
    <3>4. CASE m.type = "resumeComms"
      BY <2>2, <3>2, <3>4 DEF ClientInOrder
    <3>5. CASE m.type = "logoutComplete"
      <4>1. Told(toClient, "logoutComplete")
        BY <1>4, <3>5 DEF Told
      <4>2. session.recent /\ requeue = <<>> /\ NoEnum(q)
        BY <3>1, <4>1 DEF ClientInOrder
      <4> QED BY <2>2, <3>2, <3>5, <4>2 DEF ClientInOrder
    <3>6. CASE m.type = "loginFailed"
      <4>1. Aborted
        <5>1. /\ \A k, s : Message("connectTo", k, s).type = "connectTo"
              /\ \A k, s : <<Message("connectTo", k, s)>>[1] = Message("connectTo", k, s)
          BY DEF Message
        <5>2. ~Away /\ ~Asked /\ ~Trying
          BY <1>3 DEF Away, Asked, Trying
        <5>3. ~Offered
          BY <1>4, <3>6, <5>1 DEF Offered
        <5>4. ~Entering /\ ~Playing
          BY <1>4, <3>6 DEF Entering, Playing
        <5>5. ~Leaving
          <6> SUFFICES ASSUME Leaving PROVE FALSE
            OBVIOUS
          <6>1. CASE Len(toClient) = 1
            BY <1>4, <3>6, <6>1 DEF Leaving
          <6>2. CASE Len(toClient) # 1
            BY <1>4, <3>6, <6>2 DEF Leaving
          <6> QED BY <6>1, <6>2
        <5> QED BY <2>7, <5>2, <5>3, <5>4, <5>5 DEF IndInv, PhaseInv, Phase
      <4>2. client.at = "login" /\ ~Told(toClient, "resumeComms")
        <5>1. toClient = <<Message("loginFailed", None, None)>> /\ client.at = "login"
          BY <4>1 DEF Aborted
        <5>2. \A i \in 1..Len(toClient) : toClient[i] = m
          <6>1. Len(toClient) = 1
            BY <5>1
          <6> QED BY <1>4, <6>1
        <5> QED BY <3>6, <5>1, <5>2 DEF Told
      <4>3. requeue = <<>> /\ NoneOf(q, login)
        BY <3>1, <4>2 DEF ClientInOrder
      <4>4. StaleEnds(q, login) /\ (NoneStale(q, login) \/ session.recent)
        BY <2>4, <2>6 DEF LoginsInOrder
      <4>5. NumberedEnds(q) /\ (NoneNumbered(q) \/ session.recent)
        BY <4>3, <4>4 DEF NoneOf, StaleEnds, NoneStale, NumberedEnds, NoneNumbered
      <4> QED BY <2>2, <3>2, <3>6, <4>3, <4>5 DEF ClientInOrder
    <3> QED BY <1>4, <3>3, <3>4, <3>5, <3>6
  <2> QED BY <2>1, <2>2, <2>3, <2>4, <2>5, <2>6, <2>7, OrderThen
<1> QED BY <1>6, <1>7

-----------------------------------------------------------------------------
(* The theorem.                                                             *)

\* At first nothing waits.
LEMMA InitOrder ==
    Init => OrderInv
<1> SUFFICES ASSUME Init PROVE OrderInv
  OBVIOUS
<1>1. /\ recvQueue = <<>> /\ requeue = <<>> /\ toClient = <<>> /\ last.n = 0 /\ client.sent = 0
      /\ client.at = "left"
  BY DEF Init
<1>2. PICK e : e = <<>>
  OBVIOUS
<1>3. 1..Len(e) = {}
  <2>1. Len(e) = 0
    BY <1>2, EmptySeq
  <2> QED BY <2>1
<1>4. PacketsInOrder(e, e, 0, 0)
  BY <1>3 DEF PacketsInOrder, Ascending, Before, Within
<1>5. \A login, recent, idle : LoginsInOrder(e, e, login, recent, idle)
  BY <1>3 DEF LoginsInOrder, EnumFirst, NoEnum, UpTo, StaleEnds, NoneStale, AllOf
<1>6. ~Told(e, "logoutComplete") /\ NoEnum(e) /\ NoneNumbered(e)
  BY <1>3 DEF Told, NoEnum, NoneNumbered
<1>7. ClientInOrder(e, e, client.login, "left", session.recent,
                    Told(e, "resumeComms"), Told(e, "logoutComplete"))
  BY <1>2, <1>6 DEF ClientInOrder
<1>8. Held
  BY <1>1 DEF Held
<1>9. PacketsInOrder(recvQueue, requeue, last.n, client.sent)
  BY <1>1, <1>2, <1>4
<1>10. LoginsInOrder(recvQueue, requeue, client.login, session.recent, Idle)
  BY <1>1, <1>2, <1>5
<1>11. ClientInOrder(recvQueue, requeue, client.login, client.at, session.recent,
                     Told(toClient, "resumeComms"), Told(toClient, "logoutComplete"))
  BY <1>1, <1>2, <1>7
<1> QED BY <1>8, <1>9, <1>10, <1>11 DEF OrderInv

\* Every step keeps the packets in order.
LEMMA NextOrder ==
    ASSUME Patient, IndInv, OrderInv, [Next]_vars
    PROVE  OrderInv'
<1>1. CASE Calm
  BY <1>1, CalmStep
<1>2. CASE HandlePacket
  BY <1>2, HandledTakes, TakeStep
<1>3. CASE ~Calm /\ ~HandlePacket
  BY <1>3, CalmPlain, CalmLink, CalmLogin, CalmLogout, CalmClient, RequeueStep, DropStep, RefuseStep,
     EndPacketsStep, DeleteOrder, EnumerateStep, ChooseOrder, PlayOrder, TradeOrder, ReceiveOrder
     DEF Next, WorldThread, Client
<1> QED BY <1>1, <1>2, <1>3

\* Only a handled packet is remembered, and it is the next one, for the character
\* that is there.
LEMMA HandledNext ==
    ASSUME Patient, IndInv, OrderInv, [Next]_vars, last' # last
    PROVE  last'.n > last.n /\ last'.login = last'.player
<1>1. HandlePacket
  <2>1. ~Calm /\ ~UNCHANGED last
    BY DEF Calm
  <2>2. /\ ~RequeuePacket /\ ~DropPacket /\ ~RefusePacket /\ ~EndPackets /\ ~DeleteSession
    BY <2>1 DEF RequeuePacket, DropPacket, RefusePacket, EndPackets, DeleteSession
  <2>3. \A kind, c : ~ClientSends(kind, c)
    BY <2>1 DEF ClientSends
  <2>4. ~Enumerate /\ ~ChooseCharacter /\ ~Play /\ ~CancelTrade
    BY <2>3 DEF Enumerate, ChooseCharacter, Play, CancelTrade
  <2>5. ~Receive
    BY <2>1, <2>3 DEF Receive
  <2> QED BY <2>1, <2>2, <2>4, <2>5, CalmPlain, CalmLink, CalmLogin, CalmLogout, CalmClient
          DEF Next, WorldThread, Client
<1>2. PICK h : h = Head(recvQueue)
  OBVIOUS
<1>3. /\ recvQueue # <<>> /\ IsCallable(h)
      /\ last' = IF Status[h.kind] \in {"authed", "recently"} THEN last
                 ELSE [n |-> h.n, login |-> h.login, player |-> session.player]
  BY <1>1, <1>2 DEF HandlePacket, NextPacket, HasNext
<1>4. recvQueue \in Seq(Packets) /\ h \in Packets
  BY <1>2, <1>3, OrderTypes, TailPositions
<1>5. /\ Status[h.kind] \notin {"authed", "recently"}
      /\ last'.n = h.n /\ last'.login = h.login /\ last'.player = session.player
  BY <1>3
<1>6. Numbered(h) /\ session.player # None
  <2>1. h.kind \in {"enum", "login", "safe", "logout", "cancel", "trade", "worldport"}
    BY <1>4, Opcodes DEF Packets
  <2>2. Status[h.kind] \in {"loggedin", "transfer"}
    BY <1>5, <2>1 DEF Status
  <2> QED BY <1>3, <2>2 DEF Numbered, IsCallable, InWorld
<1>7. last.n < h.n
  BY <1>2, <1>3, <1>4, <1>6, TailNumbers DEF OrderInv, PacketsInOrder
<1>8. h.login = session.player
  <2>1. session.player = client.login
    BY <1>6 DEF IndInv, ServerInv
  <2>2. NoEnum(recvQueue) /\ StaleEnds(recvQueue, client.login)
    BY <1>6 DEF OrderInv, LoginsInOrder, Idle
  <2>3. h.login = client.login
    BY <1>2, <1>3, <1>4, <1>6, <2>2, TailLogins
  <2> QED BY <2>1, <2>3
<1>9. last.n \in Nat /\ h.n \in Nat
  BY <1>4, OrderTypes DEF Packets
<1> QED BY <1>5, <1>7, <1>8, <1>9

\* Packets are handled in the order in which they were sent and for the character
\* for which they were sent, whatever was put back, dropped or left behind by an
\* earlier character (WorldSession::Update, LockedQueue::readd).
THEOREM PacketsHandledInOrder ==
    ASSUME Patient
    PROVE  Spec => HandledInOrder
<1>1. Init => OrderInv
  BY InitOrder
<1>2. Patient /\ IndInv /\ OrderInv /\ [Next]_vars => OrderInv'
  BY NextOrder
<1>3. Patient /\ IndInv /\ OrderInv /\ [Next]_vars =>
         [last' # last => last'.n > last.n /\ last'.login = last'.player]_last
  BY HandledNext
<1>4. []Patient
  BY PTL
<1>5. Spec => []IndInv
  BY LoginInStep
<1> QED BY <1>1, <1>2, <1>3, <1>4, <1>5, PTL DEF Spec, HandledInOrder
=============================================================================
