--------------------------- MODULE InstanceLocks ----------------------------
(***************************************************************************)
(* Instance ids, instance locks and the instance maps that use them:        *)
(* InstanceLockMgr, MapManager::CreateMap for dungeons and DestroyMap, the  *)
(* parts of InstanceMap that read and write locks, and the two tables       *)
(* character_instance_lock and instance across crashes and restarts.        *)
(*                                                                         *)
(* InstanceLock objects have addresses, because an InstanceMap keeps a raw  *)
(* pointer to one and unique_ptrs elsewhere decide when it is deleted.  A   *)
(* SharedInstanceLockData object bears the address of the lock created with *)
(* it and lives as long as some lock refers to it.                          *)
(*                                                                         *)
(* Database writes take effect at once: they are executed in order, so what *)
(* a crash leaves behind is what an earlier crash would have left; the one  *)
(* extra case is a crash between a delete executed on its own and the       *)
(* transaction that follows it (Interrupted).                               *)
(***************************************************************************)
EXTENDS InstanceIds, FiniteSets, Sequences, SequencesExt, TLC

CONSTANTS Players,
          Dungeons,
          Cases,          \* the instances to check: the kinds of the dungeons that are
                          \* open and the bounds on entries and events
          Leader,         \* who leads the group of all players, when there is one
          RowOrder,       \* primary key order of character_instance_lock
          Encounters,
          NoLock,         \* null
          Outside         \* not in a dungeon

\* "normal" has no reset schedule; the others have one and lock their players
\* to an instance id ("raid"), to single bosses ("encounter") or to neither
\* ("flex": IsFlexLocking).
DungeonKinds == {"normal", "raid", "encounter", "flex"}
Ids == 1..OverflowId
Addresses == Nat \ {0}

ASSUME InstanceLocksAssumption ==
    /\ IsFiniteSet(Players) /\ IsFiniteSet(Dungeons) /\ IsFiniteSet(Encounters)
    /\ \A c \in Cases : /\ c.kind \in UNION {[D -> DungeonKinds] : D \in SUBSET Dungeons}
                         /\ c.entries \in Nat /\ c.events \in Nat
    /\ Leader \in Players
    /\ RowOrder \in Seq(Players \X Dungeons)
    /\ IsInjective(RowOrder) /\ ToSet(RowOrder) = Players \X Dungeons
    /\ NoLock \notin Addresses
    /\ Outside \notin Dungeons \X Ids

VARIABLES
    kind,         \* the kinds of the dungeons, fixed
    up,           \* "running", "stopping" (World::StopNow), "aborted", "down"
    ids,          \* the allocator of InstanceIds
    mgr,          \* InstanceLockMgr, see MgrType
    maps,         \* MapManager::i_maps: <<dungeon, id>> -> InstanceMap
    at,           \* where each player is
    pending,      \* Player::_pendingBindId
    recent,       \* Player::m_recentInstances, <<player, dungeon>> -> id
    grouped,      \* whether the players are in a group
    groupRecent,  \* Group::m_recentInstances, dungeon -> [owner, id]
    db,           \* the two tables, see TypeOK
    entries,      \* bound: how many more attempts to enter a dungeon there may be
    events,       \* bound: how many more expiries, extensions, resets, changes of
                  \* the group and ends of the process, all together
    defect        \* history: the first of the known defects that was met

memory == <<ids, mgr, maps, at, pending, recent, grouped, groupRecent>>
bounds == <<kind, entries, events>>
vars == <<up, memory, db, bounds, defect>>

HasResetSchedule(d) == kind[d] # "normal"
IsUsingEncounterLocks(d) == kind[d] = "encounter"
IsFlexLocking(d) == kind[d] = "flex"
IsInstanceIdBound(d) == ~IsFlexLocking(d) /\ ~IsUsingEncounterLocks(d)

LockType == [id: Ids, shared: Addresses \cup {NoLock}, mask: SUBSET Encounters,
             expired: BOOLEAN, extended: BOOLEAN, isNew: BOOLEAN, inUse: BOOLEAN]

NewLock(id, shared) ==
    [id |-> id, shared |-> shared, mask |-> {}, expired |-> FALSE,
     extended |-> FALSE, isNew |-> FALSE, inUse |-> FALSE]

\* Maps: insert_or_assign, the union in which f's entries win, erase.
Empty == [x \in {} |-> x]
Put(f, x, y) == [z \in DOMAIN f \cup {x} |-> IF z = x THEN y ELSE f[z]]
Overlay(f, g) == [z \in DOMAIN f \cup DOMAIN g |-> IF z \in DOMAIN f THEN f[z] ELSE g[z]]
Without(f, x) == Restrict(f, DOMAIN f \ {x})

EmptyMgr == [locks   |-> Empty,   \* the InstanceLock objects: address -> LockType
             shared  |-> Empty,   \* the SharedInstanceLockData objects
             perm    |-> Empty,   \* _instanceLocksByPlayer: <<player, dungeon>> -> address
             temp    |-> Empty,   \* _temporaryInstanceLocksByPlayer
             byId    |-> Empty]   \* _instanceLockDataById: id -> weak pointer

Init ==
    /\ \E c \in Cases : kind = c.kind /\ entries = c.entries /\ events = c.events
    /\ up = "running"
    /\ ids = InitInstanceIds(0)
    /\ mgr = EmptyMgr
    /\ maps = Empty
    /\ at = [p \in Players |-> Outside]
    /\ pending = [p \in Players |-> 0]
    /\ recent = Empty
    /\ grouped = FALSE
    /\ groupRecent = Empty
    /\ db = [lock |-> Empty, instance |-> Empty]
    /\ defect = "none"

-----------------------------------------------------------------------------
(* InstanceLockMgr.  Its operations take the manager m and return it.       *)

IsActive_IgnoresExtension(lock) == ~lock.expired
IsActive(lock) == ~lock.expired \/ lock.extended

FindInstanceLock(store, p, d) ==
    IF <<p, d>> \in DOMAIN store THEN store[<<p, d>>] ELSE NoLock

FindActiveInstanceLock(m, p, d, ignoreTemporary) ==
    LET lock == FindInstanceLock(m.perm, p, d) IN
    IF lock # NoLock /\ IsActive(m.locks[lock]) THEN lock
    ELSE IF ignoreTemporary THEN NoLock
    ELSE FindInstanceLock(m.temp, p, d)

\* The address of a new lock: one nobody refers to any more.
FirstUnused(used) == Lowest((1..(Cardinality(used) + 1)) \ used)
FreshAddress(m) ==
    FirstUnused(DOMAIN m.locks \cup DOMAIN m.shared \cup {maps[i].lock : i \in DOMAIN maps})

IsExpiredWeak(m, id) == m.byId[id] \notin DOMAIN m.shared

\* The instance ids whose data dies with the locks "dead":
\* ~SharedInstanceLockData, OnSharedInstanceLockDataDelete.
SharedDeleted_WithFirstLock(m, dead) == {m.locks[l].shared : l \in dead} \ {NoLock}
SharedDeleted(m, dead) ==
    LET left == {m.locks[l].shared : l \in DOMAIN m.locks \ dead}
    IN  {m.locks[l].shared : l \in dead} \ (left \cup {NoLock})

\* Locks are deleted.  "erased" are the rows of instance deleted with them.
DeleteLocks(m, dead) ==
    LET gone == SharedDeleted(m, dead)
        rest == [m EXCEPT !.locks  = Restrict(@, DOMAIN @ \ dead),
                          !.shared = Restrict(@, DOMAIN @ \ gone)]
        erased == {id \in DOMAIN m.byId :
                      /\ \E x \in gone : m.shared[x].instanceId = id
                      /\ IsExpiredWeak(rest, id)}
    IN  [mgr |-> [rest EXCEPT !.byId = Restrict(@, DOMAIN @ \ erased)],
         erased |-> erased]

CreateInstanceLockForNewInstance(m, p, d, id) ==
    LET l    == FreshAddress(m)
        data == IF IsInstanceIdBound(d) THEN l ELSE NoLock
        lock == [NewLock(id, data) EXCEPT !.isNew = TRUE]
    IN  [locks  |-> Put(m.locks, l, lock),
         shared |-> IF data = NoLock THEN m.shared
                    ELSE Put(m.shared, l, [instanceId |-> 0, mask |-> {}]),
         perm   |-> m.perm,
         temp   |-> Put(m.temp, <<p, d>>, l),
         byId   |-> IF data = NoLock THEN m.byId ELSE Put(m.byId, id, l)]

(***************************************************************************)
(* A transaction being put together: the manager as it is by now, the rows  *)
(* of instance already deleted on their own, the rows appended, and whether *)
(* the ASSERTs held.                                                        *)
(***************************************************************************)
Begin == [mgr |-> mgr, erased |-> {}, lock |-> Empty, instance |-> Empty, ok |-> TRUE]

UpdateSharedInstanceLock(t, id, done) ==
    LET m == t.mgr
        x == m.byId[id]
        data == [instanceId |-> id, mask |-> m.shared[x].mask \cup done]
    IN  IF /\ id \in DOMAIN m.byId /\ x \in DOMAIN m.shared
           /\ m.shared[x].instanceId \in {0, id}
        THEN [t EXCEPT !.mgr = [m EXCEPT !.shared[x] = data],
                       !.instance = Put(@, id, data.mask)]
        ELSE [t EXCEPT !.ok = FALSE]

\* What the completed encounters of a player's lock become.
GainedEncounters(d, done, instanceMask) ==
    done \cup (IF IsUsingEncounterLocks(d) THEN {} ELSE instanceMask)

Row(lock) == [id |-> lock.id, mask |-> lock.mask, expired |-> lock.expired,
              extended |-> lock.extended]

\* UpdateInstanceLockForPlayer: the active lock, else the temporary one, which
\* becomes permanent, else a new one; a lock it replaces is deleted.
UpdateInstanceLockForPlayer(t, p, d, id, done, instanceMask) ==
    LET m      == t.mgr
        key    == <<p, d>>
        active == FindActiveInstanceLock(m, p, d, TRUE)
        promote == active = NoLock /\ key \in DOMAIN m.temp
        create == active = NoLock /\ ~promote
        l      == CASE active # NoLock -> active
                    [] promote -> m.temp[key]
                    [] create  -> FreshAddress(m)
        assert == IsInstanceIdBound(d) =>
                    /\ id \in DOMAIN m.byId
                    /\ create => /\ ~IsExpiredWeak(m, id)
                                 /\ m.shared[m.byId[id]].instanceId = id
                    /\ ~create => /\ m.locks[l].id = id
                                  /\ m.byId[id] = m.locks[l].shared
        old    == IF create THEN NewLock(id, IF IsInstanceIdBound(d) THEN m.byId[id] ELSE NoLock)
                  ELSE m.locks[l]
        lock   == [old EXCEPT !.id = id, !.isNew = FALSE,
                              !.mask = @ \cup GainedEncounters(d, done, instanceMask),
                              !.extended = @ /\ ~old.expired, !.expired = FALSE]
        moved  == [locks |-> Put(m.locks, l, lock), shared |-> m.shared,
                   perm  |-> Put(m.perm, key, l),
                   temp  |-> IF promote THEN Without(m.temp, key) ELSE m.temp,
                   byId  |-> m.byId]
        left   == DeleteLocks(moved, {FindInstanceLock(m.perm, p, d)} \ {NoLock, l})
    IN  IF ~t.ok \/ (create /\ ~assert) THEN [t EXCEPT !.ok = FALSE]
        ELSE [mgr |-> left.mgr, erased |-> t.erased \cup left.erased,
              lock |-> Put(t.lock, key, Row(lock)), instance |-> t.instance, ok |-> assert]

-----------------------------------------------------------------------------
(* The database.                                                            *)

EraseInstances(tables, erased) ==
    [tables EXCEPT !.instance = Restrict(@, DOMAIN @ \ erased)]

\* UNIQUE KEY (guid, instanceId): one duplicate and the transaction is rolled back.
HasDuplicate(lock) == \E p \in Players, d, e \in Dungeons :
    /\ d # e /\ <<p, d>> \in DOMAIN lock /\ <<p, e>> \in DOMAIN lock
    /\ lock[<<p, d>>].id = lock[<<p, e>>].id

CommitTransaction(t) ==
    LET lock == Overlay(t.lock, db.lock) IN
    IF HasDuplicate(lock) THEN EraseInstances(db, t.erased)
    ELSE [lock |-> lock, instance |-> Overlay(t.instance, EraseInstances(db, t.erased).instance)]

Event ==
    /\ events > 0
    /\ events' = events - 1
    /\ UNCHANGED <<kind, entries>>

\* The process is gone, however it ended, and its memory with it.
Die(state, tables) ==
    /\ Event
    /\ up' = state
    /\ ids' = InitInstanceIds(0)
    /\ mgr' = EmptyMgr
    /\ maps' = Empty
    /\ at' = [p \in Players |-> Outside]
    /\ pending' = [p \in Players |-> 0]
    /\ recent' = Empty
    /\ groupRecent' = Empty
    /\ db' = tables
    /\ UNCHANGED <<grouped, defect>>

\* What becomes of a transaction put together in one step.
Interrupted(t) ==
    \E state \in {"aborted", "down"}, erased \in {{}, t.erased} :
        /\ IF state = "aborted" THEN ~t.ok ELSE erased # {}
        /\ Die(state, EraseInstances(db, erased))
Commit(t) ==
    /\ t.ok
    /\ mgr' = t.mgr
    /\ db' = CommitTransaction(t)

-----------------------------------------------------------------------------
(* Instance maps.                                                           *)

Running == up = "running"
Inside(i) == {p \in Players : at[p] = i}
Dangling(i) == maps[i].lock # NoLock /\ maps[i].lock \notin DOMAIN mgr.locks

\* Anything that looks at a lock that was deleted is undefined; the model does
\* not follow it any further.
UseDeletedLock(i) ==
    /\ Running
    /\ i \in DOMAIN maps /\ Dangling(i)
    /\ defect' = "dangling"
    /\ UNCHANGED <<up, memory, db, bounds>>

\* InstanceLockMgr::CanJoinInstanceLock gives a reason to refuse.
IsLockedOut(m, p, d, lock) ==
    LET own == FindActiveInstanceLock(m, p, d, FALSE) IN
    /\ HasResetSchedule(d)
    /\ own # NoLock
    /\ IF IsFlexLocking(d)
       THEN ~(m.locks[own].mask \subseteq m.locks[lock].mask)
       ELSE /\ ~IsUsingEncounterLocks(d)
            /\ ~m.locks[own].isNew
            /\ m.locks[own].id # m.locks[lock].id

\* InstanceMap::AddPlayerToMap: the player is asked to accept the lock.
NeedsBind(m, p, d, lock) ==
    LET own == FindActiveInstanceLock(m, p, d, FALSE) IN
    /\ HasResetSchedule(d) /\ lock # NoLock
    /\ ~m.locks[lock].isNew
    /\ ~IsUsingEncounterLocks(d) /\ ~IsFlexLocking(d)
    /\ \/ own = NoLock
       \/ m.locks[own].expired /\ m.locks[own].extended
       \/ m.locks[own].mask # m.locks[lock].mask

Value(f, x, default) == IF x \in DOMAIN f THEN f[x] ELSE default
OwnerOf(p, d) == IF grouped THEN Value(groupRecent, d, [owner |-> Leader, id |-> 0]).owner ELSE p
RecentInstanceId(p, d) ==
    IF grouped THEN Value(groupRecent, d, [owner |-> Leader, id |-> 0]).id
    ELSE Value(recent, <<p, d>>, 0)

\* CreateMap, first half: the lock of the owner and the id to use, a new one if
\* there is none.
FindOrCreateLock(p, d) ==
    LET owner == OwnerOf(p, d)
        found == FindActiveInstanceLock(mgr, owner, d, FALSE)
        known == IF found # NoLock THEN mgr.locks[found].id
                 ELSE IF HasResetSchedule(d) THEN 0 ELSE RecentInstanceId(p, d)
        id    == IF known # 0 THEN known ELSE ids.next
        new   == found = NoLock /\ HasResetSchedule(d)
        m     == IF new THEN CreateInstanceLockForNewInstance(mgr, owner, d, id) ELSE mgr
    IN  [id   |-> id,
         lock |-> IF new THEN m.temp[<<owner, d>>] ELSE found,
         mgr  |-> m,
         ids  |-> IF known # 0 THEN ids ELSE GenerateInstanceId(ids),
         generated |-> IF known # 0 THEN {} ELSE {id}]

\* Second half: the id of a lock that is not bound to it may be in use by the
\* map of another lock.
CreateMap_SharesId(p, d) == FindOrCreateLock(p, d)
CreateMap(p, d) ==
    LET f == FindOrCreateLock(p, d)
        clash == /\ ~IsInstanceIdBound(d) /\ f.lock # NoLock
                 /\ <<d, f.id>> \in DOMAIN maps
                 /\ maps[<<d, f.id>>].lock # f.lock
    IN  IF ~clash THEN f
        ELSE [id   |-> f.ids.next,
              lock |-> f.lock,
              mgr  |-> [f.mgr EXCEPT !.locks[f.lock].id = f.ids.next],
              ids  |-> GenerateInstanceId(f.ids),
              generated |-> f.generated \cup {f.ids.next}]

IdInUse(id) ==
    \/ \E i \in DOMAIN maps : i[2] = id
    \/ \E l \in DOMAIN mgr.locks : mgr.locks[l].id = id

\* A generated id is somebody's already, or the id of a normal dungeon, freed
\* when that was unloaded, is used once more without being marked.
TakesForeignId(c, isNew) ==
    \/ \E id \in c.generated : IdInUse(id)
    \/ isNew /\ c.generated = {} /\ c.lock = NoLock

(***************************************************************************)
(* A player goes to a dungeon: CreateMap, CannotEnter, AddPlayerToMap.  Who *)
(* is refused (a locked instance, a full one, a fight in progress) stays    *)
(* outside; the map exists all the same.                                    *)
(***************************************************************************)
Enter(p, d) ==
    /\ Running
    /\ at[p] = Outside /\ d \in DOMAIN kind
    /\ entries > 0
    /\ entries' = entries - 1
    /\ \E c \in {CreateMap(p, d)} :
       LET i     == <<d, c.id>>
           isNew == i \notin DOMAIN maps
           map   == IF isNew THEN [lock |-> c.lock, owned |-> grouped,
                                   due |-> c.lock # NoLock /\ c.mgr.locks[c.lock].expired]
                    ELSE maps[i]
           lockedOut == map.lock # NoLock /\ IsLockedOut(c.mgr, p, d, map.lock)
       IN
       /\ ~isNew => ~Dangling(i)
       /\ ids' = c.ids
       /\ mgr' = IF isNew /\ c.lock # NoLock THEN [c.mgr EXCEPT !.locks[c.lock].inUse = TRUE] ELSE c.mgr
       /\ maps' = Put(maps, i, map)
       /\ recent' = IF isNew /\ ~grouped /\ ~HasResetSchedule(d) THEN Put(recent, <<p, d>>, c.id) ELSE recent
       /\ groupRecent' = IF isNew /\ grouped
                         THEN Put(groupRecent, d, [owner |-> OwnerOf(p, d), id |-> c.id])
                         ELSE groupRecent
       /\ \/ UNCHANGED <<at, pending>>                                \* refused
          \/ /\ ~lockedOut
             /\ at' = [at EXCEPT ![p] = i]
             /\ pending' = IF NeedsBind(c.mgr, p, d, map.lock) THEN [pending EXCEPT ![p] = c.id]
                           ELSE pending
       /\ up' = IF OverflowId \in c.generated THEN "stopping" ELSE up
       /\ defect' = IF TakesForeignId(c, isNew) THEN "foreignId" ELSE defect
    /\ UNCHANGED <<grouped, db, kind, events>>

LeaveInstance(p) ==
    /\ Running
    /\ at[p] # Outside
    /\ at' = [at EXCEPT ![p] = Outside]
    /\ UNCHANGED <<up, ids, mgr, maps, pending, recent, grouped, groupRecent, db, bounds, defect>>

\* Map::CanUnload: the unload timer of an empty map has run out.
CanUnload_Occupied(i) == TRUE
CanUnload(i) == Inside(i) = {}

\* MapManager::DestroyMap and ~InstanceMap.
UnloadMap(i) ==
    /\ Running
    /\ i \in DOMAIN maps /\ CanUnload(i)
    /\ ~Dangling(i)
    /\ maps' = Without(maps, i)
    /\ mgr' = IF maps[i].lock = NoLock THEN mgr
              ELSE [mgr EXCEPT !.locks[maps[i].lock].inUse = FALSE]
    /\ ids' = IF HasResetSchedule(i[1]) THEN ids ELSE FreeInstanceId(ids, i[2])
    /\ UNCHANGED <<up, at, pending, recent, grouped, groupRecent, db, bounds, defect>>

\* InstanceMap::UpdateInstanceLock: a boss dies, or other state is saved (done
\* is empty): the shared data first, then every player inside.
Saved_PlayersOnly(i, done) ==
    FoldSet(LAMBDA p, tr : UpdateInstanceLockForPlayer(tr, p, i[1], i[2], done,
                                                       mgr.locks[maps[i].lock].mask \cup done),
            Begin, Inside(i))
Saved(i, done) ==
    LET d    == i[1]
        mask == mgr.locks[maps[i].lock].mask \cup done
        t    == IF IsInstanceIdBound(d) THEN UpdateSharedInstanceLock(Begin, i[2], done) ELSE Begin
    IN  FoldSet(LAMBDA p, tr : UpdateInstanceLockForPlayer(tr, p, d, i[2], done, mask), t, Inside(i))

UpdateInstanceLock(i, done) ==
    /\ Running
    /\ i \in DOMAIN maps /\ Inside(i) # {}
    /\ maps[i].lock # NoLock /\ ~Dangling(i)
    /\ \E t \in {Saved(i, done)} :
          \/ Interrupted(t)
          \/ /\ Commit(t)
             /\ UNCHANGED <<up, ids, maps, at, pending, recent, grouped, groupRecent, bounds, defect>>

\* Player::ConfirmPendingBind, when the player accepts or the minute is over.
Bound(p) ==
    LET i == at[p] IN
    UpdateInstanceLockForPlayer(Begin, p, i[1], i[2], {}, mgr.locks[maps[i].lock].mask)

ConfirmPendingBind(p) ==
    /\ Running
    /\ pending[p] # 0
    /\ pending' = [pending EXCEPT ![p] = 0]
    /\ IF at[p] = Outside \/ at[p][2] # pending[p]
       THEN UNCHANGED <<up, mgr, db>>
       ELSE /\ maps[at[p]].lock # NoLock /\ ~Dangling(at[p])
            /\ \E t \in {Bound(p)} : Commit(t) /\ UNCHANGED up
    /\ UNCHANGED <<ids, maps, at, recent, grouped, groupRecent, bounds, defect>>

\* ... or the server dies of it.
BindAborts(p) ==
    /\ Running
    /\ pending[p] # 0 /\ at[p] # Outside /\ at[p][2] = pending[p]
    /\ maps[at[p]].lock # NoLock /\ ~Dangling(at[p])
    /\ Interrupted(Bound(p))

\* HandleInstanceLockResponse: the player declines and is sent to a graveyard.
DeclinePendingBind(p) ==
    /\ Running
    /\ pending[p] # 0
    /\ pending' = [pending EXCEPT ![p] = 0]
    /\ at' = [at EXCEPT ![p] = Outside]
    /\ UNCHANGED <<up, ids, mgr, maps, recent, grouped, groupRecent, db, bounds, defect>>

\* The hour of GetNextResetTime: every lock has expired.
ScheduledReset ==
    /\ Running
    /\ Event
    /\ mgr' = [mgr EXCEPT !.locks = [l \in DOMAIN @ |-> [@[l] EXCEPT !.expired = TRUE]]]
    /\ maps' = [i \in DOMAIN maps |-> [maps[i] EXCEPT !.due = maps[i].lock # NoLock]]
    /\ db' = [db EXCEPT !.lock = [k \in DOMAIN @ |-> [@[k] EXCEPT !.expired = TRUE]]]
    /\ UNCHANGED <<up, ids, at, pending, recent, grouped, groupRecent, defect>>

\* InstanceMap::Update finds i_instanceExpireEvent in the past: Reset(Expire)
\* asks those inside to accept the lock for another period.
ExpireInstance(i) ==
    /\ Running
    /\ i \in DOMAIN maps /\ maps[i].due /\ ~Dangling(i)
    /\ maps' = [maps EXCEPT ![i].due = FALSE]
    /\ pending' = IF IsFlexLocking(i[1]) THEN pending
                  ELSE [p \in Players |-> IF p \in Inside(i) THEN i[2] ELSE pending[p]]
    /\ UNCHANGED <<up, ids, mgr, at, recent, grouped, groupRecent, db, bounds, defect>>

-----------------------------------------------------------------------------
(* Resets asked for by players, extensions, groups, GM commands.            *)

\* InstanceMap::Reset for a player's request or a change of difficulty.
ResetResult(i) ==
    IF maps[i].lock # NoLock /\ ~mgr.locks[maps[i].lock].isNew THEN "CannotReset"
    ELSE IF Inside(i) # {} THEN "NotEmpty" ELSE "Success"

Forgets(i, changesDifficulty) ==
    \/ ResetResult(i) = "Success"
    \/ ResetResult(i) = "NotEmpty" /\ changesDifficulty

\* Player::ResetInstances.
ResetInstances(p, changesDifficulty) ==
    LET of == {k \in DOMAIN recent : k[1] = p /\ <<k[2], recent[k]>> \in DOMAIN maps} IN
    /\ Running /\ Event
    /\ ~grouped
    /\ \A k \in of : ~Dangling(<<k[2], recent[k]>>)
    /\ recent' = Restrict(recent, DOMAIN recent \
                    {k \in of : Forgets(<<k[2], recent[k]>>, changesDifficulty)})
    /\ UNCHANGED <<up, ids, mgr, maps, at, pending, grouped, groupRecent, db, defect>>

\* Group::ResetInstances, by the leader.
GroupResetInstances(changesDifficulty) ==
    LET of == {i \in DOMAIN maps : maps[i].owned} IN
    /\ Running /\ Event
    /\ grouped
    /\ \A i \in of : ~Dangling(i)
    /\ groupRecent' = Restrict(groupRecent, DOMAIN groupRecent \
            {i[1] : i \in {j \in of : \/ Forgets(j, changesDifficulty)
                                      \/ ResetResult(j) = "CannotReset"}})
    /\ UNCHANGED <<up, ids, mgr, maps, at, pending, recent, grouped, db, defect>>

FormGroup ==
    /\ Running /\ Event
    /\ ~grouped
    /\ grouped' = TRUE
    /\ UNCHANGED <<up, ids, mgr, maps, at, pending, recent, groupRecent, db, defect>>

DisbandGroup ==
    /\ Running /\ Event
    /\ grouped
    /\ grouped' = FALSE
    /\ groupRecent' = Empty
    /\ maps' = [i \in DOMAIN maps |-> [maps[i] EXCEPT !.owned = FALSE]]
    /\ UNCHANGED <<up, ids, mgr, at, pending, recent, db, defect>>

\* Permanent locks change in memory and in their rows.
SetFlags(x, expired, extended) == [x EXCEPT !.expired = @ \/ expired, !.extended = extended]
SetLocks(keys, expired, extended) ==
    LET of == {mgr.perm[k] : k \in keys} IN
    /\ mgr' = [mgr EXCEPT !.locks = [l \in DOMAIN @ |->
                  IF l \in of THEN SetFlags(@[l], expired, extended)
                  ELSE @[l]]]
    /\ db' = [db EXCEPT !.lock = [k \in DOMAIN @ |->
                  IF k \in keys THEN SetFlags(@[k], expired, extended)
                  ELSE @[k]]]
    /\ UNCHANGED <<up, ids, maps, at, pending, recent, grouped, groupRecent, defect>>

\* HandleSetSavedInstanceExtend, UpdateInstanceLockExtensionForPlayer.
ExtendLock(p, d, extended) ==
    /\ Running /\ Event
    /\ \A id \in Ids : at[p] # <<d, id>>
    /\ <<p, d>> \in DOMAIN mgr.perm
    /\ SetLocks({<<p, d>>}, FALSE, extended)

\* ResetInstanceLocksForPlayer (.instance unbind): locks in use are left alone.
UnbindLocks(p) ==
    LET keys == {k \in DOMAIN mgr.perm :
                    LET lock == mgr.locks[mgr.perm[k]] IN
                    k[1] = p /\ ~lock.inUse /\ ~lock.expired}
    IN  /\ Running /\ Event
        /\ keys # {}
        /\ SetLocks(keys, TRUE, FALSE)

-----------------------------------------------------------------------------
(* The end of the process and the next start.                               *)

\* A crash, or the shutdown: InstanceLockMgr::Unload writes nothing.
Stop ==
    /\ up \in {"running", "stopping"}
    /\ Die("down", db)

\* InstanceLockMgr::Load for one row, if there is one with this key.
LoadRow(acc, key) ==
    LET m    == acc.mgr
        row  == db.lock[key]
        l    == FirstUnused(DOMAIN m.locks)
        bound == IsInstanceIdBound(key[2])
        data == IF ~bound THEN NoLock ELSE Value(m.byId, row.id, l)
        lock == [NewLock(row.id, data) EXCEPT !.mask = row.mask, !.expired = row.expired,
                                              !.extended = row.extended]
        ids1 == RegisterInstanceId(acc.ids, row.id)
    IN  IF key \notin DOMAIN db.lock THEN acc
        ELSE IF bound /\ row.id \notin DOMAIN db.instance
        THEN [ids |-> ids1, mgr |-> m, missing |-> acc.missing \cup {row.id}]
        ELSE [ids |-> ids1,
              mgr |-> [locks  |-> Put(m.locks, l, lock),
                       shared |-> IF data # l THEN m.shared
                                  ELSE Put(m.shared, l, [instanceId |-> row.id,
                                                         mask |-> db.instance[row.id]]),
                       perm   |-> Put(m.perm, key, l),
                       temp   |-> m.temp,
                       byId   |-> IF bound THEN Put(m.byId, row.id, data) ELSE m.byId],
              missing |-> acc.missing]

Load ==
    LET stored == DOMAIN db.instance \cup {db.lock[k].id : k \in DOMAIN db.lock}
    IN  FoldLeft(LoadRow, [ids |-> InitInstanceIds(IF stored = {} THEN 0 ELSE Max(stored)),
                           mgr |-> EmptyMgr, missing |-> {}], RowOrder)

Restart ==
    /\ up \in {"down", "aborted"}
    /\ up' = "running"
    /\ \E loaded \in {Load} :
          /\ ids' = loaded.ids
          /\ mgr' = loaded.mgr
          /\ db' = [db EXCEPT !.lock = RestrictValues(@, LAMBDA row : row.id \notin loaded.missing)]
          /\ defect' = IF HintFree(loaded.ids) THEN defect ELSE "unordered"
    /\ UNCHANGED <<maps, at, pending, recent, grouped, groupRecent, bounds>>

Next ==
    \/ \E p \in Players :
          \/ \E d \in Dungeons : Enter(p, d) \/ ExtendLock(p, d, TRUE) \/ ExtendLock(p, d, FALSE)
          \/ LeaveInstance(p)
          \/ ConfirmPendingBind(p) \/ BindAborts(p) \/ DeclinePendingBind(p)
          \/ ResetInstances(p, TRUE) \/ ResetInstances(p, FALSE)
          \/ UnbindLocks(p)
    \/ \E i \in DOMAIN maps :
          \/ UnloadMap(i) \/ ExpireInstance(i) \/ UseDeletedLock(i)
          \/ UpdateInstanceLock(i, {})
          \/ \E e \in Encounters : UpdateInstanceLock(i, {e})
    \/ GroupResetInstances(TRUE) \/ GroupResetInstances(FALSE)
    \/ FormGroup \/ DisbandGroup
    \/ ScheduledReset
    \/ Stop \/ Restart

Spec == Init /\ [][Next]_vars

\* Successors of a state with a defect are not explored.
NoDefect == defect = "none"

-----------------------------------------------------------------------------
RowType == [id: Ids, mask: SUBSET Encounters, expired: BOOLEAN, extended: BOOLEAN]

TypeOK ==
    /\ kind \in {c.kind : c \in Cases}
    /\ up \in {"running", "stopping", "aborted", "down"}
    /\ ids \in Allocators
    /\ \A l \in DOMAIN mgr.locks : l \in Addresses /\ mgr.locks[l] \in LockType
    /\ \A x \in DOMAIN mgr.shared :
          mgr.shared[x] \in [instanceId: Ids \cup {0}, mask: SUBSET Encounters]
    /\ \A store \in {mgr.perm, mgr.temp} : \A k \in DOMAIN store :
          k \in Players \X Dungeons /\ store[k] \in DOMAIN mgr.locks
    /\ \A id \in DOMAIN mgr.byId : id \in Ids /\ mgr.byId[id] \in Addresses
    /\ \A i \in DOMAIN maps : /\ i \in Dungeons \X Ids
                              /\ maps[i] \in [lock: Addresses \cup {NoLock}, owned: BOOLEAN,
                                              due: BOOLEAN]
    /\ at \in [Players -> DOMAIN maps \cup {Outside}]
    /\ pending \in [Players -> Ids \cup {0}]
    /\ \A k \in DOMAIN recent : k \in Players \X Dungeons /\ recent[k] \in Ids
    /\ grouped \in BOOLEAN
    /\ \A d \in DOMAIN groupRecent : d \in Dungeons /\ groupRecent[d] \in [owner: Players, id: Ids]
    /\ \A k \in DOMAIN db.lock : k \in Players \X Dungeons /\ db.lock[k] \in RowType
    /\ \A id \in DOMAIN db.instance : id \in Ids /\ db.instance[id] \in SUBSET Encounters
    /\ entries \in Nat /\ events \in Nat
    /\ defect \in {"none", "foreignId", "unordered", "dangling"}

\* Through creation, unloading, crashes and restarts the hint of the allocator
\* stays inside its bitmap and below every free id: GenerateInstanceId's ASSERT
\* holds and a freed id is found again.
AllocatorSound == HintSound(ids)

\* An instance id in use is marked as such and means one instance: no two maps,
\* and no lock and map of different dungeons, share one, and all locks bound to
\* an id share its data.
Locked == {<<k, mgr.perm[k]>> : k \in DOMAIN mgr.perm} \cup {<<k, mgr.temp[k]>> : k \in DOMAIN mgr.temp}
Uses == DOMAIN maps \cup {<<kl[1][2], mgr.locks[kl[2]].id>> : kl \in Locked}
OneInstancePerId ==
    defect = "none" /\ up = "running" =>
        /\ \A u, v \in Uses : u[2] = v[2] => u = v
        /\ \A u \in Uses : u[2] \notin ids.free
        /\ \A k, j \in Locked :
              (/\ IsInstanceIdBound(k[1][2])
               /\ mgr.locks[k[2]].id = mgr.locks[j[2]].id)
              => mgr.locks[k[2]].shared = mgr.locks[j[2]].shared

\* "it is also possible that instance id is already in use by another group": a
\* player, or his group, is never sent into an instance that belongs to the lock
\* of somebody else.
EntersOwnInstance ==
    [][\A p \in Players :
          LET i   == at'[p]
              own == FindActiveInstanceLock(mgr', OwnerOf(p, i[1]), i[1], FALSE)
          IN  i \notin {at[p], Outside} /\ defect' = "none" =>
                IF ~HasResetSchedule(i[1]) THEN maps'[i].lock = NoLock
                ELSE IF IsInstanceIdBound(i[1])
                     THEN mgr'.locks[own].shared = mgr'.locks[maps'[i].lock].shared
                     ELSE own = maps'[i].lock]_vars

\* InstanceLockMgr.h: the state of a player "might have less encounters
\* completed" than the one shared by everyone, never more, in memory and in the
\* tables a restart reads.
SharedStateLeads ==
    defect = "none" =>
        /\ \A k \in DOMAIN mgr.perm :
              LET lock == mgr.locks[mgr.perm[k]] IN
              IsInstanceIdBound(k[2]) => lock.mask \subseteq mgr.shared[lock.shared].mask
        /\ \A k \in DOMAIN db.lock :
              IsInstanceIdBound(k[2]) /\ db.lock[k].id \in DOMAIN db.instance =>
                  db.lock[k].mask \subseteq db.instance[db.lock[k].id]

\* Whatever a crash interrupts, Load never drops progress that counts: the row
\* of an active lock with completed encounters has its instance row.
ProgressSurvives ==
    defect = "none" =>
        \A k \in DOMAIN db.lock :
            (/\ IsInstanceIdBound(k[2]) /\ db.lock[k].mask # {}
             /\ ~db.lock[k].expired \/ db.lock[k].extended)
            => db.lock[k].id \in DOMAIN db.instance

\* "This is to avoid destroying expired locks before any boss is killed in a
\* fresh lock": while the server runs only a lock that expired and was not
\* extended is deleted, and only when its owner is saved to another instance.
OnlyStaleLocksDeleted ==
    [][up = "running" /\ up' = "running" =>
          \A l \in DOMAIN mgr.locks \ DOMAIN mgr'.locks :
              /\ mgr.locks[l].expired /\ ~mgr.locks[l].extended
              /\ \E k \in DOMAIN mgr.perm : mgr.perm[k] = l /\ ~mgr'.locks[mgr'.perm[k]].expired]_vars

\* The ASSERTs of UpdateInstanceLockForPlayer and UpdateSharedInstanceLock: an
\* id-bound lock that is updated belongs to the instance the player is in.
AssertionsHold == up # "aborted"
=============================================================================
