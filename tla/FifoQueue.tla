----------------------------- MODULE FifoQueue ------------------------------
(***************************************************************************)
(* What the users of MPSCQueue rely on: a queue with many producers and one *)
(* consumer.  An element takes its place when its Enqueue() takes effect;   *)
(* Dequeue() delivers the elements in this order, each once.  It may report *)
(* an empty queue when there is none, or when an Enqueue() overlaps it.     *)
(***************************************************************************)
EXTENDS Sequences, SequencesExt

CONSTANTS Items,   \* the elements
          Null

VARIABLES contents,    \* the elements, oldest first
          unfinished,  \* elements whose Enqueue() has not returned
          calling,     \* the consumer is in Dequeue()
          disturbed,   \* an Enqueue() overlaps this call of Dequeue()
          result       \* what the last Dequeue() returned

fifoVars == <<contents, unfinished, calling, disturbed, result>>

Init ==
    /\ contents = <<>>
    /\ unfinished = {}
    /\ calling = FALSE
    /\ disturbed = FALSE
    /\ result = Null

BeginEnqueue(x) ==
    /\ ~Contains(contents, x)
    /\ contents' = Append(contents, x)
    /\ unfinished' = unfinished \cup {x}
    /\ disturbed' = calling
    /\ UNCHANGED <<calling, result>>

EndEnqueue(x) ==
    /\ x \in unfinished
    /\ unfinished' = unfinished \ {x}
    /\ UNCHANGED <<contents, calling, disturbed, result>>

BeginDequeue ==
    /\ ~calling
    /\ calling' = TRUE
    /\ disturbed' = (unfinished # {})
    /\ result' = Null
    /\ UNCHANGED <<contents, unfinished>>

Return(value) ==
    /\ calling
    /\ calling' = FALSE
    /\ disturbed' = FALSE
    /\ result' = value
    /\ UNCHANGED unfinished

Deliver ==
    /\ contents # <<>>
    /\ Head(contents) \notin unfinished
    /\ contents' = Tail(contents)
    /\ Return(Head(contents))

ReportEmpty ==
    /\ contents = <<>> \/ disturbed
    /\ UNCHANGED contents
    /\ Return(Null)

Next ==
    \/ \E x \in Items : BeginEnqueue(x) \/ EndEnqueue(x)
    \/ BeginDequeue \/ Deliver \/ ReportEmpty

Spec == Init /\ [][Next]_fifoVars
=============================================================================
