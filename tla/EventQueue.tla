----------------------------- MODULE EventQueue -----------------------------
(***************************************************************************)
(* What the event queue of BotUI promises (sdk/botui, event.c): events     *)
(* come out in the order they went in, and when the queue is full it is    *)
(* the oldest that is given up for a new one, never the new one.           *)
(***************************************************************************)
EXTENDS Naturals, Sequences

CONSTANTS
    Event, NoEvent,
    Capacity            \* one at least, as EventRing assumes

VARIABLES
    queue,      \* the events waiting, oldest first
    got         \* what the last pop returned

QueueInit == queue = <<>> /\ got = NoEvent

Push(e) ==
    /\ queue' = Append(IF Len(queue) = Capacity THEN Tail(queue) ELSE queue, e)
    /\ UNCHANGED got

Pop ==
    IF queue = <<>>
    THEN got' = NoEvent /\ UNCHANGED queue
    ELSE got' = Head(queue) /\ queue' = Tail(queue)

QueueNext == Pop \/ \E e \in Event : Push(e)

QueueSpec == QueueInit /\ [][QueueNext]_<<queue, got>>
=============================================================================
