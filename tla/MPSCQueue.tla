----------------------------- MODULE MPSCQueue ------------------------------
(***************************************************************************)
(* MPSCQueueIntrusive, the lock-free queue between the threads that send    *)
(* packets and the network thread of a WorldSocket (and between the metric  *)
(* writers and their timer): many producers, one consumer.                  *)
(*                                                                         *)
(* One step is one access to shared memory.  Accesses are interleaved: the  *)
(* links are published with release stores and read with acquire loads, and *)
(* _head changes only by acq_rel exchanges.  _tail belongs to the consumer. *)
(* A dequeued element is deleted, and its memory may be allocated again for *)
(* an element enqueued later.                                               *)
(***************************************************************************)
EXTENDS Naturals, FiniteSets, Sequences, SequencesExt

CONSTANTS Producers,
          Items,       \* addresses of the elements
          Dummy,       \* _dummyPtr
          Null

ASSUME MPSCQueueAssumption ==
    /\ IsFiniteSet(Items)
    /\ Dummy \notin Items
    /\ Null \notin Items \cup {Dummy}
    /\ Dummy # Null

Nodes == Items \cup {Dummy}
Pointers == Nodes \cup {Null}

VARIABLES
    head,       \* _head
    tail,       \* _tail
    link,       \* node->*IntrusiveLink
    allocated,  \* elements that exist: new, and not yet deleted
    ppc,        \* where each producer is in Enqueue()
    input,      \* Enqueue()'s argument
    prevHead,   \* Enqueue()'s local
    cpc,        \* where the consumer is in Dequeue()
    next,       \* Dequeue()'s local; its local tail is _tail throughout
    cprev,      \* prevHead of the consumer's own Enqueue(_dummyPtr)
    result,     \* what the last Dequeue() returned, Null for false
    disturbed   \* history: an Enqueue() overlaps this call of Dequeue()

producerVars == <<ppc, input, prevHead>>
consumerVars == <<cpc, next, cprev, result, disturbed>>
vars == <<head, tail, link, allocated, producerVars, consumerVars>>

Init ==
    /\ head = Dummy
    /\ tail = Dummy
    /\ link = [n \in Nodes |-> Null]
    /\ allocated = {}
    /\ ppc = [p \in Producers |-> "idle"]
    /\ input = [p \in Producers |-> Null]
    /\ prevHead = [p \in Producers |-> Null]
    /\ cpc = "idle"
    /\ next = Null
    /\ cprev = Null
    /\ result = Null
    /\ disturbed = FALSE

-----------------------------------------------------------------------------
(* Enqueue().                                                               *)

\* The element is allocated; its link holds whatever the memory held.
StartEnqueue(p, x) ==
    /\ ppc[p] = "idle"
    /\ x \notin allocated
    /\ allocated' = allocated \cup {x}
    /\ input' = [input EXCEPT ![p] = x]
    /\ ppc' = [ppc EXCEPT ![p] = "clear"]
    /\ UNCHANGED <<head, tail, link, prevHead, consumerVars>>

ClearLink_Missing(node) == link' = link
ClearLink(node) == link' = [link EXCEPT ![node] = Null]

StoreNull(p) ==
    /\ ppc[p] = "clear"
    /\ ClearLink(input[p])
    /\ ppc' = [ppc EXCEPT ![p] = "exchange"]
    /\ UNCHANGED <<head, tail, allocated, input, prevHead, consumerVars>>

Exchange(p) ==
    /\ ppc[p] = "exchange"
    /\ prevHead' = [prevHead EXCEPT ![p] = head]
    /\ head' = input[p]
    /\ ppc' = [ppc EXCEPT ![p] = "link"]
    /\ disturbed' = (cpc # "idle")
    /\ UNCHANGED <<tail, link, allocated, input, cpc, next, cprev, result>>

LinkPrevious(p) ==
    /\ ppc[p] = "link"
    /\ link' = [link EXCEPT ![prevHead[p]] = input[p]]
    /\ ppc' = [ppc EXCEPT ![p] = "idle"]
    /\ input' = [input EXCEPT ![p] = Null]
    /\ prevHead' = [prevHead EXCEPT ![p] = Null]
    /\ UNCHANGED <<head, tail, allocated, consumerVars>>

-----------------------------------------------------------------------------
(* Dequeue().                                                               *)

\* Whether some Enqueue() is between its exchange and its last store.
EnqueueUnfinished == \E p \in Producers : ppc[p] = "link"

StartDequeue ==
    /\ cpc = "idle"
    /\ cpc' = "load"
    /\ result' = Null
    /\ disturbed' = EnqueueUnfinished
    /\ UNCHANGED <<head, tail, link, allocated, producerVars, next, cprev>>

\* Dequeue() returns; the caller deletes the element it got.
Return(value) ==
    /\ cpc' = "idle"
    /\ result' = value
    /\ allocated' = allocated \ {value}
    /\ next' = Null /\ cprev' = Null
    /\ disturbed' = FALSE

\* Stay in Dequeue() and go on at "at".
Goto(at) ==
    /\ cpc' = at
    /\ UNCHANGED <<allocated, result, disturbed>>

LoadNext ==
    /\ cpc = "load"
    /\ next' = link[tail]
    /\ Goto(IF tail = Dummy THEN "skip" ELSE "decide")
    /\ UNCHANGED <<head, tail, link, producerVars, cprev>>

\* Step over the dummy to the first element.
SkipDummy ==
    /\ cpc = "skip"
    /\ \/ /\ next = Null
          /\ Return(Null)
          /\ UNCHANGED tail
       \/ /\ next # Null
          /\ tail' = next
          /\ Goto("reload")
          /\ UNCHANGED <<next, cprev>>
    /\ UNCHANGED <<head, link, producerVars>>

ReloadNext ==
    /\ cpc = "reload"
    /\ next' = link[tail]
    /\ Goto("decide")
    /\ UNCHANGED <<head, tail, link, producerVars, cprev>>

\* Return the element _tail stands on and advance to its successor.
TakeTail ==
    /\ tail' = next
    /\ Return(tail)
    /\ UNCHANGED <<head, link, producerVars>>

TakeWithSuccessor ==
    /\ cpc = "decide"
    /\ next # Null
    /\ TakeTail

\* tail != head: a producer has not linked its element yet.
LoadHead_Never ==
    /\ cpc = "decide"
    /\ next = Null
    /\ Return(Null)
    /\ UNCHANGED <<head, tail, link, producerVars>>

LoadHead ==
    /\ cpc = "decide"
    /\ next = Null
    /\ \/ /\ tail # head
          /\ Return(Null)
       \/ /\ tail = head
          /\ Goto("clearDummy")
          /\ UNCHANGED <<next, cprev>>
    /\ UNCHANGED <<head, tail, link, producerVars>>

\* Enqueue(_dummyPtr), by the consumer.
StoreNullDummy ==
    /\ cpc = "clearDummy"
    /\ link' = [link EXCEPT ![Dummy] = Null]
    /\ Goto("exchangeDummy")
    /\ UNCHANGED <<head, tail, producerVars, next, cprev>>

ExchangeDummy ==
    /\ cpc = "exchangeDummy"
    /\ cprev' = head
    /\ head' = Dummy
    /\ Goto("linkDummy")
    /\ UNCHANGED <<tail, link, producerVars, next>>

LinkDummy ==
    /\ cpc = "linkDummy"
    /\ link' = [link EXCEPT ![cprev] = Dummy]
    /\ Goto("last")
    /\ UNCHANGED <<head, tail, producerVars, next, cprev>>

\* A producer may have come between: then the element has no successor yet.
LastLoad_NoTest ==
    /\ cpc = "last"
    /\ tail' = IF link[tail] = Null THEN Dummy ELSE link[tail]
    /\ Return(tail)
    /\ UNCHANGED <<head, link, producerVars>>

LastLoad ==
    /\ cpc = "last"
    /\ \/ /\ link[tail] # Null
          /\ tail' = link[tail]
          /\ Return(tail)
       \/ /\ link[tail] = Null
          /\ Return(Null)
          /\ UNCHANGED tail
    /\ UNCHANGED <<head, link, producerVars>>

-----------------------------------------------------------------------------
ProducerStep(p) == StoreNull(p) \/ Exchange(p) \/ LinkPrevious(p)

ConsumerStep ==
    \/ StartDequeue \/ LoadNext \/ SkipDummy \/ ReloadNext \/ TakeWithSuccessor
    \/ LoadHead \/ StoreNullDummy \/ ExchangeDummy \/ LinkDummy \/ LastLoad

Next ==
    \/ \E p \in Producers, x \in Items : StartEnqueue(p, x)
    \/ \E p \in Producers : ProducerStep(p)
    \/ ConsumerStep

\* A producer that is in Enqueue() goes on, and the consumer calls Dequeue()
\* again and again (WorldSocket::Update in the loop of its NetworkThread).
Fairness == WF_vars(ConsumerStep) /\ \A p \in Producers : WF_vars(ProducerStep(p))

Spec == Init /\ [][Next]_vars /\ Fairness

-----------------------------------------------------------------------------
(* The abstract queue, read off the links.  Where a producer (or the        *)
(* consumer with its dummy) has exchanged _head and not stored the link     *)
(* yet, its local prevHead says where the link will be.                     *)

Unlinked(n) == {input[p] : p \in {q \in Producers : ppc[q] = "link" /\ prevHead[q] = n}}
               \cup (IF cpc = "linkDummy" /\ cprev = n THEN {Dummy} ELSE {})

Successor(n) ==
    IF n = head THEN Null
    ELSE IF link[n] # Null THEN link[n]
    ELSE IF Unlinked(n) # {} THEN CHOOSE m \in Unlinked(n) : TRUE
    ELSE Null

\* The nodes from _tail on.
Chain ==
    LET walk[i \in 1..Cardinality(Nodes)] ==
            IF i = 1 THEN <<tail>>
            ELSE LET last == Successor(Last(walk[i - 1])) IN
                 IF last = Null THEN walk[i - 1] ELSE Append(walk[i - 1], last)
    IN walk[Cardinality(Nodes)]

\* The dummy is in the chain once, or not at all.
WithoutDummy(chain) ==
    IF Contains(chain, Dummy)
    THEN RemoveAt(chain, CHOOSE i \in DOMAIN chain : chain[i] = Dummy)
    ELSE chain

Contents == WithoutDummy(Chain)

Fifo == INSTANCE FifoQueue WITH
            contents   <- Contents,
            unfinished <- {input[p] : p \in {q \in Producers : ppc[q] = "link"}},
            calling    <- cpc # "idle"

-----------------------------------------------------------------------------
TypeOK ==
    /\ head \in Nodes
    /\ tail \in Nodes
    /\ link \in [Nodes -> Pointers]
    /\ allocated \subseteq Items
    /\ ppc \in [Producers -> {"idle", "clear", "exchange", "link"}]
    /\ input \in [Producers -> Items \cup {Null}]
    /\ prevHead \in [Producers -> Pointers]
    /\ cpc \in {"idle", "load", "skip", "reload", "decide", "clearDummy",
                "exchangeDummy", "linkDummy", "last"}
    /\ next \in Pointers
    /\ cprev \in Pointers
    /\ result \in Items \cup {Null}
    /\ disturbed \in BOOLEAN

\* Enqueue() and Dequeue(), interleaved at every memory access, are an atomic
\* FIFO queue: no element is lost, duplicated, reordered or made up, and
\* "empty" is reported only when it is, or when an Enqueue() overlaps.
ImplementsFifo == Fifo!Spec

\* Nobody writes to an element that was handed out and deleted: a producer's
\* last store goes to the element in front of its own, which the consumer may
\* be about to take.
NoWriteAfterDelete ==
    /\ \A p \in Producers : ppc[p] = "link" => prevHead[p] \in allocated \cup {Dummy}
    /\ cpc = "linkDummy" => cprev \in allocated \cup {Dummy}
    /\ tail \in allocated \cup {Dummy}

\* Every element is delivered in the end, the last one of a burst too, which
\* has no successor until the dummy is put behind it.
EveryElementDelivered ==
    \A x \in Items : Contains(Contents, x) ~> ~Contains(Contents, x)
=============================================================================
