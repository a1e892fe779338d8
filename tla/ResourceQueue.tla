--------------------------- MODULE ResourceQueue ---------------------------
(***************************************************************************)
(* What OperateResourceQueue promises: resources wait for their turn, one  *)
(* of them operates at a time, the one that operates was waiting before,   *)
(* and the next one gets its turn only after it has ended.  The queue is   *)
(* in memory, and a restart of the controller empties it.                  *)
(***************************************************************************)
CONSTANTS Resources, None

VARIABLES
    waiting,      \* resources whose entry is "Pending"
    operating     \* the resource whose entry is "Operating", or None

queue == <<waiting, operating>>

Init == waiting = {} /\ operating = None

(* Queue: a resource that is in the queue already is refused.               *)
Asks(r) ==
    /\ r \notin waiting \cup {operating}
    /\ waiting' = waiting \cup {r} /\ UNCHANGED operating

Starts(r) ==
    /\ operating = None /\ r \in waiting
    /\ operating' = r /\ waiting' = waiting \ {r}

(* UnsetQueue                                                               *)
Ends == operating # None /\ operating' = None /\ UNCHANGED waiting

Emptied == waiting' = {} /\ operating' = None

Next == \/ \E r \in Resources : Asks(r) \/ Starts(r)
        \/ Ends \/ Emptied

Spec == Init /\ [][Next]_queue
=============================================================================
