----------------------------- MODULE EventRing ------------------------------
(***************************************************************************)
(* The event queue of BotUI as the ring it is (sdk/botui, event.c):        *)
(* g_event_queue with its head, tail and count.  The code steps an index   *)
(* with "& EVENT_QUEUE_MASK", the size being a power of two.               *)
(***************************************************************************)
EXTENDS Naturals, Sequences

CONSTANTS Event, NoEvent, Capacity  \* EVENT_QUEUE_SIZE

ASSUME EventRingAssumption == Capacity \in Nat \ {0} /\ NoEvent \notin Event

VARIABLES ring, head, tail, used, got

ringVars == <<ring, head, tail, used, got>>

Index == 0 .. Capacity - 1

Step(i) == IF i = Capacity - 1 THEN 0 ELSE i + 1

RingInit ==
    /\ ring = [i \in Index |-> NoEvent]     \* never read before it is written
    /\ head = 0 /\ tail = 0 /\ used = 0
    /\ got = NoEvent

(* Mutant of bot_event_push: a full ring forgets the oldest event but does *)
(* not step its head over it.                                              *)
PushHeadStays(e) ==
    /\ UNCHANGED head
    /\ used' = IF used = Capacity THEN used ELSE used + 1
    /\ ring' = [ring EXCEPT ![tail] = e]
    /\ tail' = Step(tail)
    /\ UNCHANGED got

bot_event_push(e) ==
    /\ head' = IF used = Capacity THEN Step(head) ELSE head
    /\ used' = IF used = Capacity THEN used ELSE used + 1
    /\ ring' = [ring EXCEPT ![tail] = e]
    /\ tail' = Step(tail)
    /\ UNCHANGED got

event_pop ==
    IF used = 0
    THEN got' = NoEvent /\ UNCHANGED <<ring, head, tail, used>>
    ELSE /\ got' = ring[head]
         /\ head' = Step(head) /\ used' = used - 1
         /\ UNCHANGED <<ring, tail>>

RingNext == event_pop \/ \E e \in Event : bot_event_push(e)

RingSpec == RingInit /\ [][RingNext]_ringVars

-----------------------------------------------------------------------------
(* Where the k-th event from the head lies.                                *)
Place(k) == IF head + k < Capacity THEN head + k ELSE head + k - Capacity

Waiting == [k \in 1 .. used |-> ring[Place(k - 1)]]

Queue == INSTANCE EventQueue WITH queue <- Waiting

(***************************************************************************)
(* The indices stay in step, also after the ring overflowed: the tail is   *)
(* where the next event after the last belongs, and what lies between head *)
(* and tail are events.                                                    *)
(***************************************************************************)
RingInv ==
    /\ head \in Index /\ tail \in Index /\ used \in 0 .. Capacity
    /\ ring \in [Index -> Event \cup {NoEvent}] /\ got \in Event \cup {NoEvent}
    /\ tail = Place(used)
    /\ \A k \in 0 .. used - 1 : ring[Place(k)] \in Event

(***************************************************************************)
(* The ring is a queue that gives up its oldest event when it is full.     *)
(***************************************************************************)
RingIsQueue == Queue!QueueSpec
=============================================================================
