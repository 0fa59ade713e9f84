------------------------------ MODULE SocketIO ------------------------------
(***************************************************************************)
(* Sending and closing on one WorldSocket: SendPacket() by the world and    *)
(* map threads, WorldSocket::Update / Socket::Update / HandleQueue and the  *)
(* write-readiness handler on the socket's network thread, CloseSocket()    *)
(* and DelayedCloseSocket() by anybody, and the NetworkThread that adopts   *)
(* the socket and lets it go.  The build without IOCP is modelled.          *)
(*                                                                         *)
(* _bufferQueue is the queue of module MPSCQueue, used through what         *)
(* FifoQueue promises.  A packet is Size[p] bytes; a MessageBuffer is the   *)
(* sequence of bytes not sent yet.                                          *)
(***************************************************************************)
EXTENDS Naturals, Sequences, SequencesExt

CONSTANTS Packets,
          Size,             \* bytes of each packet on the wire
          Senders,          \* threads that call SendPacket
          SendBufferSize,   \* WorldSocket::_sendBufferSize
          NoPacket

ASSUME SocketIOAssumption ==
    /\ Size \in [Packets -> Nat \ {0}]
    /\ SendBufferSize \in Nat \ {0}
    /\ NoPacket \notin Packets

VARIABLES
    openState,       \* Socket::_openState
    sending,         \* the packet each sender is about to Enqueue()
    unsent,          \* packets nobody has tried to send yet
    bufferQueue,     \* WorldSocket::_bufferQueue
    writeQueue,      \* Socket::_writeQueue
    isWritingAsync,  \* Socket::_isWritingAsync
    stage,           \* in NetworkThread::_newSockets, _sockets, or removed
    ntpc,            \* where the network thread is in WorldSocket::Update
    buffer,          \* Update()'s local MessageBuffer
    marking,         \* the world thread is inside DelayedCloseSocket()
    wire,            \* bytes the operating system has taken
    broken,          \* the connection is gone
    onClose,         \* how often OnClose() was called
    enqueued,        \* history: packets in the order of _bufferQueue
    owed,            \* history: packets enqueued when the socket was marked
    closedBy,        \* history: whose CloseSocket() closed it
    misread          \* history: the world thread misread _writeQueue.empty()

sendVars  == <<sending, unsent, bufferQueue, enqueued>>
closeVars == <<openState, onClose, owed, closedBy, misread>>
vars == <<openState, sending, unsent, bufferQueue, writeQueue, isWritingAsync, stage,
          ntpc, buffer, marking, wire, broken, onClose, enqueued, owed, closedBy, misread>>

Bytes(p) == [i \in 1..Size[p] |-> <<p, i>>]
AllBytes(packets) == FlattenSeq([i \in DOMAIN packets |-> Bytes(packets[i])])

Init ==
    /\ openState = "Open"
    /\ sending = [s \in Senders |-> NoPacket]
    /\ unsent = Packets
    /\ bufferQueue = <<>>
    /\ writeQueue = <<>>
    /\ isWritingAsync = FALSE
    /\ stage = "new"
    /\ ntpc = "idle"
    /\ buffer = <<>>
    /\ marking = FALSE
    /\ wire = <<>>
    /\ broken = FALSE
    /\ onClose = 0
    /\ enqueued = <<>>
    /\ owed = {}
    /\ closedBy = "nobody"
    /\ misread = FALSE

-----------------------------------------------------------------------------
(* WorldSocket::SendPacket: test, then enqueue.                             *)

TestOpen(s, p) ==
    /\ sending[s] = NoPacket
    /\ p \in unsent
    /\ unsent' = unsent \ {p}
    /\ sending' = [sending EXCEPT ![s] = IF openState = "Open" THEN p ELSE NoPacket]
    /\ UNCHANGED <<closeVars, bufferQueue, enqueued, writeQueue, isWritingAsync, stage,
                   ntpc, buffer, marking, wire, broken>>

Enqueue(s) ==
    /\ sending[s] # NoPacket
    /\ bufferQueue' = Append(bufferQueue, sending[s])
    /\ enqueued' = Append(enqueued, sending[s])
    /\ sending' = [sending EXCEPT ![s] = NoPacket]
    /\ UNCHANGED <<closeVars, unsent, writeQueue, isWritingAsync, stage, ntpc, buffer,
                   marking, wire, broken>>

-----------------------------------------------------------------------------
(* Closing.                                                                 *)

\* CloseSocket(): only the caller whose exchange finds the socket not closed
\* shuts the connection down and calls OnClose().
CloseSocket_Always(state, who) ==
    /\ openState' = "Closed"
    /\ onClose' = onClose + 1
    /\ closedBy' = who

CloseSocket(state, who) ==
    /\ openState' = "Closed"
    /\ onClose' = IF state = "Closed" THEN onClose ELSE onClose + 1
    /\ closedBy' = IF state = "Closed" THEN closedBy ELSE who

\* KickPlayer and ~WorldSession on the world thread; on the network thread a
\* failed read, a malformed packet, the idle timeout.
Close ==
    /\ CloseSocket(openState, "close")
    /\ UNCHANGED <<sendVars, owed, misread, writeQueue, isWritingAsync, stage, ntpc, buffer,
                   marking, wire, broken>>

\* DelayedCloseSocket() on the network thread: from a packet handler, or from
\* a query callback at the end of Update().
DelayedClose ==
    /\ ntpc = "idle"
    /\ openState = "Open"
    /\ owed' = ToSet(enqueued)
    /\ IF writeQueue = <<>>
       THEN CloseSocket("Closing", "delayed")
       ELSE openState' = "Closing" /\ UNCHANGED <<onClose, closedBy>>
    /\ UNCHANGED <<sendVars, misread, writeQueue, isWritingAsync, stage, ntpc, buffer,
                   marking, wire, broken>>

\* DelayedCloseSocket() on the world thread (World::ProcessLinkInstanceSocket):
\* the exchange, then the test of _writeQueue.
MarkClosing ==
    /\ ~marking
    /\ openState = "Open"
    /\ openState' = "Closing"
    /\ marking' = TRUE
    /\ owed' = ToSet(enqueued)
    /\ UNCHANGED <<sendVars, onClose, closedBy, misread, writeQueue, isWritingAsync, stage,
                   ntpc, buffer, wire, broken>>

\* _writeQueue is no atomic: while the network thread is in Update() the test
\* is a data race and may have either outcome.
TestWriteQueue ==
    /\ marking
    /\ marking' = FALSE
    /\ \E empty \in {writeQueue = <<>>} \cup (IF ntpc = "idle" THEN {} ELSE BOOLEAN) :
          /\ misread' = (misread \/ empty # (writeQueue = <<>>))
          /\ IF empty THEN CloseSocket(openState, "delayed")
                      ELSE UNCHANGED <<openState, onClose, closedBy>>
    /\ UNCHANGED <<sendVars, owed, writeQueue, isWritingAsync, stage, ntpc, buffer, wire,
                   broken>>

-----------------------------------------------------------------------------
(* The network thread.                                                      *)

\* NetworkThread::AddNewSockets: a socket that is no longer open is dropped.
AddNewSockets ==
    /\ stage = "new"
    /\ ntpc = "idle"
    /\ stage' = IF openState = "Open" THEN "listed" ELSE "removed"
    /\ UNCHANGED <<closeVars, sendVars, writeQueue, isWritingAsync, ntpc, buffer, marking,
                   wire, broken>>

BeginUpdate ==
    /\ stage = "listed"
    /\ ntpc = "idle"
    /\ ntpc' = "drain"
    /\ UNCHANGED <<closeVars, sendVars, writeQueue, isWritingAsync, stage, buffer, marking,
                   wire, broken>>

\* The free space of the send buffer against the packet with its header.
HasRoom(p) == Len(buffer) + Size[p] <= SendBufferSize

\* QueuePacket(std::move(buffer)) if the packet no longer fits.
Flush_Forgotten(room) == writeQueue
Flush(room) == IF room THEN writeQueue ELSE Append(writeQueue, buffer)

\* One packet from _bufferQueue into the send buffer; an empty buffer is queued
\* too, in front of a packet larger than the buffer.
DrainPacket ==
    LET p    == Head(bufferQueue)
        room == HasRoom(p)
        fits == Size[p] <= SendBufferSize
        kept == IF room THEN buffer ELSE <<>>
    IN
    /\ ntpc = "drain"
    /\ bufferQueue # <<>>
    /\ bufferQueue' = Tail(bufferQueue)
    /\ writeQueue' = IF fits THEN Flush(room) ELSE Append(Flush(room), Bytes(p))
    /\ buffer' = IF fits THEN kept \o Bytes(p) ELSE kept
    /\ UNCHANGED <<closeVars, sending, unsent, enqueued, isWritingAsync, stage, ntpc,
                   marking, wire, broken>>

\* What is left in the send buffer is queued.
QueueRest_Forgotten == writeQueue
QueueRest == IF buffer # <<>> THEN Append(writeQueue, buffer) ELSE writeQueue

\* Dequeue() reports an empty queue: it is, or an Enqueue() overlaps.
EndDrain ==
    /\ ntpc = "drain"
    /\ bufferQueue = <<>> \/ \E s \in Senders : sending[s] # NoPacket
    /\ writeQueue' = QueueRest
    /\ buffer' = <<>>
    /\ ntpc' = "base"
    /\ UNCHANGED <<closeVars, sendVars, isWritingAsync, stage, marking, wire, broken>>

DropClosed_Never == stage
DropClosed == IF openState = "Closed" THEN "removed" ELSE stage

\* Socket::Update: false for a closed socket, which NetworkThread::Update then
\* removes; otherwise start writing if there is something to write.
BaseUpdate ==
    /\ ntpc = "base"
    /\ stage' = DropClosed
    /\ ntpc' = IF openState = "Closed" \/ isWritingAsync \/ writeQueue = <<>>
               THEN "idle" ELSE "write"
    /\ UNCHANGED <<closeVars, sendVars, writeQueue, isWritingAsync, buffer, marking, wire,
                   broken>>

\* QueuedBufferWriteDone: pop, and close if this was the last one owed.
CloseWhenDrained_Forgotten(rest) == UNCHANGED <<openState, onClose, closedBy>>
CloseWhenDrained(rest) ==
    IF openState = "Closing" /\ rest = <<>>
    THEN CloseSocket("Closing", "delayed")
    ELSE UNCHANGED <<openState, onClose, closedBy>>

BufferDone ==
    /\ writeQueue' = Tail(writeQueue)
    /\ CloseWhenDrained(Tail(writeQueue))
    /\ isWritingAsync' = FALSE

\* AsyncProcessQueue: wait until the connection takes more data.
WaitWritable ==
    /\ isWritingAsync' = TRUE
    /\ UNCHANGED <<openState, onClose, closedBy>>

Writable == ~broken /\ openState # "Closed"

\* write_some() took all of the front buffer; "more" is HandleQueue()'s result.
WriteAll(more) ==
    /\ Writable /\ Head(writeQueue) # <<>>
    /\ wire' = wire \o Head(writeQueue)
    /\ BufferDone
    /\ more = (Len(writeQueue) > 1)

\* ... took part of it.
ReadCompleted(sent) == SubSeq(Head(writeQueue), sent + 1, Len(Head(writeQueue)))

WritePart ==
    /\ Writable
    /\ \E sent \in 1..(Len(Head(writeQueue)) - 1) :
          /\ wire' = wire \o SubSeq(Head(writeQueue), 1, sent)
          /\ writeQueue' = <<ReadCompleted(sent)>> \o Tail(writeQueue)
    /\ WaitWritable

\* ... would block.
WriteNothing ==
    /\ Writable /\ Head(writeQueue) # <<>>
    /\ WaitWritable
    /\ UNCHANGED <<wire, writeQueue>>

\* ... failed, or the buffer was empty: the buffer is given up.
WriteFails ==
    /\ ~Writable \/ Head(writeQueue) = <<>>
    /\ BufferDone
    /\ UNCHANGED wire

\* HandleQueue() in the loop of Socket::Update.
HandleQueue ==
    /\ ntpc = "write"
    /\ \/ \E more \in BOOLEAN : WriteAll(more) /\ ntpc' = IF more THEN "write" ELSE "idle"
       \/ (WritePart \/ WriteNothing \/ WriteFails) /\ ntpc' = "idle"
    /\ UNCHANGED <<sendVars, owed, misread, stage, buffer, marking, broken>>

\* WriteHandlerWrapper(): the connection is writable again, or it failed.  The
\* handler also runs for a socket that was closed or removed meanwhile.  If the
\* write would block again the handler waits again and nothing has changed.
WriteHandlerWrapper ==
    /\ isWritingAsync
    /\ ntpc = "idle"
    /\ \/ /\ writeQueue # <<>>
          /\ (\E more \in BOOLEAN : WriteAll(more)) \/ WritePart \/ WriteFails
       \/ /\ writeQueue = <<>>
          /\ isWritingAsync' = FALSE
          /\ UNCHANGED <<writeQueue, wire, openState, onClose, closedBy>>
    /\ UNCHANGED <<sendVars, owed, misread, stage, ntpc, buffer, marking, broken>>

-----------------------------------------------------------------------------
\* The peer or the network breaks the connection.
Break ==
    /\ ~broken
    /\ broken' = TRUE
    /\ UNCHANGED <<closeVars, sendVars, writeQueue, isWritingAsync, stage, ntpc, buffer,
                   marking, wire>>

SenderStep(s) == Enqueue(s) \/ \E p \in Packets : TestOpen(s, p)

NetworkStep ==
    \/ AddNewSockets \/ BeginUpdate \/ DrainPacket \/ EndDrain \/ BaseUpdate
    \/ HandleQueue

Next ==
    \/ \E s \in Senders : SenderStep(s)
    \/ NetworkStep
    \/ WriteHandlerWrapper
    \/ Close \/ DelayedClose \/ MarkClosing \/ TestWriteQueue
    \/ Break

\* The update timer of the network thread fires again and again, threads that
\* are inside a function leave it, and a peer that stays connected reads.
Fairness ==
    /\ WF_vars(NetworkStep)
    /\ SF_vars(WriteHandlerWrapper)
    /\ WF_vars(TestWriteQueue)
    /\ \A s \in Senders : WF_vars(Enqueue(s))

Spec == Init /\ [][Next]_vars /\ Fairness

-----------------------------------------------------------------------------
BufferType == Seq(Packets \X Nat)

TypeOK ==
    /\ openState \in {"Open", "Closing", "Closed"}
    /\ sending \in [Senders -> Packets \cup {NoPacket}]
    /\ unsent \subseteq Packets
    /\ bufferQueue \in Seq(Packets)
    /\ writeQueue \in Seq(BufferType)
    /\ isWritingAsync \in BOOLEAN
    /\ stage \in {"new", "listed", "removed"}
    /\ ntpc \in {"idle", "drain", "base", "write"}
    /\ ntpc = "write" => writeQueue # <<>> /\ ~isWritingAsync
    /\ buffer \in BufferType /\ Len(buffer) <= SendBufferSize
    /\ marking \in BOOLEAN
    /\ wire \in BufferType
    /\ broken \in BOOLEAN
    /\ onClose \in Nat
    /\ enqueued \in Seq(Packets)
    /\ owed \subseteq Packets
    /\ closedBy \in {"nobody", "close", "delayed"}
    /\ misread \in BOOLEAN

\* What the peer receives is, byte by byte, the packets in the order in which
\* they were enqueued, whatever the send buffer, partial writes and
\* write-readiness callbacks did in between: every packet is encrypted with a
\* running counter, so one lost or repeated byte loses the connection.
StreamIntact == IsPrefix(wire, AllBytes(enqueued))

\* However many threads close the socket, OnClose() runs once, for a closed one.
OnCloseOnce == onClose = IF openState = "Closed" THEN 1 ELSE 0

\* A socket marked for closing has something left to write, so that
\* QueuedBufferWriteDone will close it; the only way to strand it is the
\* unsynchronised read of _writeQueue on the world thread.
ClosingNotStranded ==
    openState = "Closing" /\ ~marking /\ ~misread => writeQueue # <<>>

OnWire(p) == \A i \in 1..Size[p] : Contains(wire, <<p, i>>)

\* A packet that was enqueued on a socket that stays open is sent.
EverythingSent ==
    \A p \in Packets : Contains(enqueued, p) ~> OnWire(p) \/ broken \/ openState # "Open"

\* A closed socket is let go by its network thread.
ClosedIsRemoved == openState = "Closed" ~> stage = "removed"

\* Socket.h on DelayedCloseSocket(): "Marks the socket for closing after write
\* buffer becomes empty".  What was sent before the call reaches the peer,
\* unless the connection breaks or somebody else closes the socket.
DelayedCloseFlushes ==
    closedBy = "delayed" /\ ~broken => \A p \in owed : OnWire(p)
=============================================================================
