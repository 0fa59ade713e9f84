---------------------------- MODULE InstanceIds -----------------------------
(***************************************************************************)
(* MapManager's allocator of instance ids: the bitmap _freeInstanceIds and  *)
(* the hint _nextInstanceId.  The allocator is a value, a record            *)
(* [size, free, next], and its operations are functions on it; whoever      *)
(* keeps one (InstanceLocks does) applies them in its own actions.          *)
(***************************************************************************)
EXTENDS Integers

CONSTANT OverflowId    \* 0xFFFFFFFF: the hint at which the server gives up

ASSUME OverflowIdAssumption == OverflowId \in Nat \ {0, 1}

Allocators == [size: Nat, free: SUBSET Nat, next: Nat]

\* InitInstanceIds: room for the ids in the database and one more; never id 0.
InitInstanceIds(maxExisting) ==
    [size |-> maxExisting + 2, free |-> 1..(maxExisting + 1), next |-> 1]

\* RegisterInstanceId, for every row of character_instance_lock.
RegisterInstanceId_NotMarked(alloc, id) ==
    [alloc EXCEPT !.next = IF @ = id THEN @ + 1 ELSE @]
RegisterInstanceId(alloc, id) ==
    [alloc EXCEPT !.free = @ \ {id}, !.next = IF @ = id THEN @ + 1 ELSE @]

\* dynamic_bitset::find_next, where there is one.
FreeAfter(alloc, id) == {i \in alloc.free : i > id}
Lowest(S) == CHOOSE i \in S : \A j \in S : i <= j

IsExhausted(alloc) == alloc.next = OverflowId

\* GenerateInstanceId returns alloc.next and leaves this allocator behind.  At
\* the limit it returns the hint unmarked and stops the server (World::StopNow).
GenerateInstanceId(alloc) ==
    LET taken == [alloc EXCEPT !.free = @ \ {alloc.next}]
        later == FreeAfter(taken, alloc.next)
    IN  IF IsExhausted(alloc) THEN alloc
        ELSE IF later = {}
             THEN [size |-> taken.size + 1, free |-> taken.free \cup {taken.size},
                   next |-> taken.size]
             ELSE [taken EXCEPT !.next = Lowest(later)]

FreeInstanceId_HintKept(alloc, id) == [alloc EXCEPT !.free = @ \cup {id}]
FreeInstanceId(alloc, id) ==
    [alloc EXCEPT !.free = @ \cup {id}, !.next = IF id < @ THEN id ELSE @]

-----------------------------------------------------------------------------
\* What GenerateInstanceId relies on.  Its ASSERT: the hint is inside the
\* bitmap.  Its comment ("which should be the lowest according to the logic in
\* FreeInstanceId()"): no id below the hint is free.
HintSound(alloc) ==
    /\ alloc \in Allocators
    /\ alloc.free \subseteq 1..(alloc.size - 1)
    /\ alloc.next \in 1..(alloc.size - 1)
    /\ \A i \in alloc.free : alloc.next <= i

\* The hint is itself free, as RegisterInstanceId's comment expects ("increment
\* until we find the first unused one for a potential new instance").
HintFree(alloc) == alloc.next \in alloc.free
=============================================================================
