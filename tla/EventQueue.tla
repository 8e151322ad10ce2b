----------------------------- MODULE EventQueue ------------------------------
(***************************************************************************)
(* What the metering writer promises, without goroutines, ticks or         *)
(* shutdown: a queue of bounded length that refuses only when full and is  *)
(* emptied from its head, some events at a time, each lot into the table   *)
(* as a whole or not at all.                                               *)
(***************************************************************************)
EXTENDS Naturals, Sequences

CONSTANTS
    Events,
    BufferSize,  \* events it holds at least before it refuses one
    BatchSize    \* the largest lot

VARIABLES
    queue,    \* events accepted and not yet dealt with
    rows,     \* the table
    refused   \* events refused

vars == <<queue, rows, refused>>

Init ==
    /\ queue = <<>>
    /\ rows = <<>>
    /\ refused = {}

Put(e) ==
    /\ Len(queue) < BufferSize + BatchSize
    /\ queue' = Append(queue, e)
    /\ UNCHANGED <<rows, refused>>

Refuse(e) ==
    /\ Len(queue) >= BufferSize
    /\ refused' = refused \cup {e}
    /\ UNCHANGED <<queue, rows>>

\* The first n events leave, into the table or not.
Leave(n) ==
    /\ n <= Len(queue)
    /\ queue' = SubSeq(queue, n + 1, Len(queue))
    /\ rows' \in {rows, rows \o SubSeq(queue, 1, n)}
    /\ UNCHANGED refused

Next ==
    \/ \E e \in Events : Put(e) \/ Refuse(e)
    \/ \E n \in 1..BatchSize : Leave(n)

Spec == Init /\ [][Next]_vars
=============================================================================
