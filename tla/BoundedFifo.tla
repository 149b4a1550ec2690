----------------------------- MODULE BoundedFifo -----------------------------
(***************************************************************************)
(* What a single-producer single-consumer byte buffer promises: a queue of *)
(* at most Capacity bytes.  The producer appends bytes at the back, the    *)
(* consumer takes a prefix away or looks at one, and what the consumer is  *)
(* handed is exactly the front of the queue.                               *)
(***************************************************************************)
EXTENDS Naturals, Sequences

CONSTANTS Data,      \* the bytes
          Capacity   \* the most bytes the buffer ever holds

VARIABLES queue,     \* the bytes written and not yet read
          delivered  \* the bytes the last read or peek handed over

vars == <<queue, delivered>>

Init == queue = <<>> /\ delivered = <<>>

Put == /\ \E n \in 1..(Capacity - Len(queue)) : \E s \in [1..n -> Data] : queue' = queue \o s
       /\ UNCHANGED delivered

Get == \E n \in 1..Len(queue) : /\ delivered' = SubSeq(queue, 1, n)
                                /\ queue' = SubSeq(queue, n + 1, Len(queue))

Look == /\ \E n \in 1..Len(queue) : delivered' = SubSeq(queue, 1, n)
        /\ UNCHANGED queue

Clear == queue' = <<>> /\ UNCHANGED delivered

Next == Put \/ Get \/ Look \/ Clear

Spec == Init /\ [][Next]_vars
==============================================================================
