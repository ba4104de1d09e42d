--------------------------- MODULE ServicesProofs ---------------------------
(***************************************************************************)
(* Proofs about the libraries and services that share no state: the event  *)
(* ring, the memory pool, downloads, notifications, the drawing calls and  *)
(* the fill tool, each for every value of its constants.                   *)
(***************************************************************************)
EXTENDS EventRing, MemPool, Transfer, Notify, Canvas, FloodFill,
        FiniteSetTheorems, SequenceTheorems, WellFoundedInduction, TLAPS

(***************************************************************************)
(* The event ring: it implements the queue.  RingInv is inductive.         *)
(***************************************************************************)

(* Every place is an index, and no two events share one.                   *)
LEMMA PlaceIsIndex ==
    ASSUME head \in Index, NEW k \in 0 .. Capacity - 1
    PROVE  Place(k) \in Index
  BY EventRingAssumption DEF Index, Place

LEMMA PlacesDiffer ==
    ASSUME head \in Index, NEW j \in 0 .. Capacity - 1, NEW k \in 0 .. Capacity - 1, j # k
    PROVE  Place(j) # Place(k)
  BY EventRingAssumption DEF Index, Place

(* The event after the k-th lies one step on.                              *)
LEMMA PlaceStep ==
    ASSUME head \in Index, NEW k \in 0 .. Capacity - 1
    PROVE  Place(k + 1) = Step(Place(k))
  BY EventRingAssumption DEF Index, Place, Step

(* What the first event's going does to the places of the others.          *)
LEMMA PlaceFromNext ==
    ASSUME head \in Index, head' = Step(head), NEW k \in 0 .. Capacity
    PROVE  head' \in Index /\ Place(k)' = IF k = Capacity THEN Step(head) ELSE Place(k + 1)
  BY EventRingAssumption DEF Index, Place, Step

(* A push leaves the invariant true, when the ring is full and when not.   *)
LEMMA PushKeepsInv ==
    ASSUME RingInv, NEW e \in Event, bot_event_push(e)
    PROVE  RingInv'
<1>1. /\ head \in Index /\ tail \in Index /\ used \in 0 .. Capacity
      /\ ring \in [Index -> Event \cup {NoEvent}] /\ got \in Event \cup {NoEvent}
      /\ tail = Place(used)
      /\ \A k \in 0 .. used - 1 : ring[Place(k)] \in Event
  BY DEF RingInv
<1>2. ring' = [ring EXCEPT ![tail] = e] /\ tail' = Step(tail) /\ got' = got
  BY DEF bot_event_push
<1>3. /\ tail' \in Index /\ ring' \in [Index -> Event \cup {NoEvent}]
      /\ got' \in Event \cup {NoEvent}
  BY <1>1, <1>2, EventRingAssumption DEF Index, Step
<1>4. CASE used = Capacity
  <2>1. head' = Step(head) /\ used' = Capacity /\ tail = head
    BY <1>1, <1>4, EventRingAssumption DEF bot_event_push, Place, Index
  <2>2. head' \in Index /\ used' \in 0 .. Capacity
    BY <1>1, <2>1, PlaceFromNext, EventRingAssumption
  <2>3. tail' = Place(used)'
    BY <1>1, <1>2, <2>1, PlaceFromNext, EventRingAssumption
  <2>4. ASSUME NEW k \in 0 .. used' - 1
        PROVE  ring'[Place(k)'] \in Event
    <3>1. k \in 0 .. Capacity - 1 /\ k \in 0 .. Capacity
      BY <2>1, <2>4, EventRingAssumption
    <3>2. Place(k)' = Place(k + 1)
      BY <1>1, <2>1, <3>1, PlaceFromNext, EventRingAssumption
    <3>3. CASE k = Capacity - 1
      <4>1. Place(k)' = tail
        BY <1>1, <2>1, <3>2, <3>3, EventRingAssumption DEF Place, Index
      <4> QED BY <1>1, <1>2, <4>1
    <3>4. CASE k # Capacity - 1
      <4>1. k + 1 \in 0 .. Capacity - 1 /\ 0 \in 0 .. Capacity - 1 /\ k + 1 # 0
            /\ k + 1 \in 0 .. used - 1
        BY <1>4, <3>1, <3>4, EventRingAssumption
      <4>2. Place(0) = tail
        BY <1>1, <2>1, EventRingAssumption DEF Place, Index
      <4>3. Place(k + 1) # tail
        BY <1>1, <4>1, <4>2, PlacesDiffer
      <4>4. ring[Place(k + 1)] \in Event /\ Place(k + 1) \in Index
        BY <1>1, <4>1, PlaceIsIndex
      <4>5. ring'[Place(k + 1)] = ring[Place(k + 1)]
        BY <1>1, <1>2, <4>3, <4>4
      <4> QED BY <3>2, <4>4, <4>5
    <3> QED BY <3>3, <3>4
  <2> QED BY <1>3, <2>2, <2>3, <2>4 DEF RingInv
<1>5. CASE used # Capacity
  <2>1. head' = head /\ used' = used + 1 /\ used \in 0 .. Capacity - 1
    BY <1>1, <1>5, EventRingAssumption DEF bot_event_push
  <2>2. head' \in Index /\ used' \in 0 .. Capacity
    BY <1>1, <2>1, EventRingAssumption
  <2>3. \A k \in Nat : Place(k)' = Place(k)
    BY <2>1 DEF Place
  <2>4. tail' = Place(used)'
    BY <1>1, <1>2, <2>1, PlaceStep, EventRingAssumption DEF Place
  <2>5. ASSUME NEW k \in 0 .. used' - 1
        PROVE  ring'[Place(k)'] \in Event
    <3>1. k \in 0 .. Capacity - 1 /\ Place(k)' = Place(k)
      BY <2>1, <2>3, <2>5, EventRingAssumption
    <3>2. CASE k = used
      BY <1>1, <1>2, <3>1, <3>2
    <3>3. CASE k # used
      <4>1. k \in 0 .. used - 1
        BY <2>1, <2>5, <3>3, EventRingAssumption
      <4>2. Place(k) # tail /\ Place(k) \in Index
        BY <1>1, <2>1, <3>1, <3>3, PlacesDiffer, PlaceIsIndex
      <4> QED BY <1>1, <1>2, <3>1, <4>1, <4>2
    <3> QED BY <3>2, <3>3
  <2> QED BY <1>3, <2>2, <2>4, <2>5 DEF RingInv
<1> QED BY <1>4, <1>5

(* So does a pop.                                                          *)
LEMMA PopKeepsInv ==
    ASSUME RingInv, event_pop
    PROVE  RingInv'
<1>1. /\ head \in Index /\ tail \in Index /\ used \in 0 .. Capacity
      /\ ring \in [Index -> Event \cup {NoEvent}] /\ got \in Event \cup {NoEvent}
      /\ tail = Place(used)
      /\ \A k \in 0 .. used - 1 : ring[Place(k)] \in Event
  BY DEF RingInv
<1>2. CASE used = 0
  BY <1>1, <1>2 DEF event_pop, RingInv, Place
<1>3. CASE used # 0
  <2>1. /\ got' = ring[head] /\ head' = Step(head) /\ used' = used - 1
        /\ ring' = ring /\ tail' = tail
    BY <1>3 DEF event_pop
  <2>2. head' \in Index /\ used' \in 0 .. Capacity - 1 /\ got' \in Event \cup {NoEvent}
    BY <1>1, <1>3, <2>1, PlaceFromNext, EventRingAssumption
  <2>3. ASSUME NEW k \in 0 .. Capacity - 1
        PROVE  Place(k)' = Place(k + 1)
    BY <1>1, <2>1, <2>3, PlaceFromNext, EventRingAssumption
  <2>4. tail' = Place(used)'
    BY <1>1, <1>3, <2>1, <2>2, EventRingAssumption DEF Place, Index, Step
  <2>5. ASSUME NEW k \in 0 .. used' - 1
        PROVE  ring'[Place(k)'] \in Event
    <3>1. k \in 0 .. Capacity - 1 /\ k + 1 \in 0 .. used - 1
      BY <1>1, <1>3, <2>1, <2>5, EventRingAssumption
    <3> QED BY <1>1, <2>1, <2>3, <3>1
  <2> QED BY <1>1, <2>1, <2>2, <2>4, <2>5, EventRingAssumption DEF RingInv
<1> QED BY <1>2, <1>3

(***************************************************************************)
(* Head, tail and count of the event queue stay in step whatever is pushed *)
(* and popped, and what is popped was pushed.                              *)
(***************************************************************************)
THEOREM RingInvariant == RingSpec => []RingInv
<1>1. RingInit => RingInv
  <2> SUFFICES ASSUME RingInit PROVE RingInv
    OBVIOUS
  <2>1. /\ head \in Index /\ tail \in Index /\ used \in 0 .. Capacity
        /\ ring \in [Index -> Event \cup {NoEvent}] /\ got \in Event \cup {NoEvent}
    BY EventRingAssumption DEF RingInit, Index
  <2>2. tail = Place(used) /\ \A k \in 0 .. used - 1 : ring[Place(k)] \in Event
    BY EventRingAssumption DEF RingInit, Place
  <2> QED BY <2>1, <2>2 DEF RingInv
<1>2. RingInv /\ [RingNext]_ringVars => RingInv'
  <2> SUFFICES ASSUME RingInv, [RingNext]_ringVars PROVE RingInv'
    OBVIOUS
  <2>1. CASE event_pop
    BY <2>1, PopKeepsInv
  <2>2. ASSUME NEW e \in Event, bot_event_push(e) PROVE RingInv'
    BY <2>2, PushKeepsInv
  <2>3. CASE UNCHANGED ringVars
    BY <2>3 DEF RingInv, ringVars, Place
  <2> QED BY <2>1, <2>2, <2>3 DEF RingNext
<1> QED BY <1>1, <1>2, PTL DEF RingSpec

-----------------------------------------------------------------------------
(* The waiting events are a sequence of events.                            *)
WaitingOK ==
    /\ Waiting \in Seq(Event) /\ Len(Waiting) = used /\ used \in 0 .. Capacity
    /\ \A k \in 1 .. used : Waiting[k] = ring[Place(k - 1)]

LEMMA WaitingIsSequence == RingInv => WaitingOK
<1> SUFFICES ASSUME RingInv PROVE WaitingOK
  OBVIOUS
<1>1. used \in 0 .. Capacity /\ \A k \in 0 .. used - 1 : ring[Place(k)] \in Event
  BY DEF RingInv
<1>2. \A k \in 1 .. used : k - 1 \in 0 .. used - 1
  BY <1>1, EventRingAssumption
<1>3. \A k \in 1 .. used : ring[Place(k - 1)] \in Event
  BY <1>1, <1>2
<1> QED BY <1>1, <1>3, EventRingAssumption DEF Waiting, WaitingOK

(* A pop of the ring is a pop of the queue.                                *)
LEMMA PopIsPop ==
    ASSUME WaitingOK, WaitingOK', RingInv, event_pop
    PROVE  Queue!Pop
<1>1. CASE used = 0
  <2>1. Waiting = <<>>
    BY <1>1 DEF WaitingOK
  <2>2. Waiting' = Waiting
    BY <1>1 DEF event_pop, Waiting, Place
  <2> QED BY <1>1, <2>1, <2>2 DEF event_pop, Queue!Pop
<1>2. CASE used # 0
  <2>1. /\ got' = ring[head] /\ head' = Step(head) /\ used' = used - 1 /\ ring' = ring
    BY <1>2 DEF event_pop
  <2>2. head \in Index /\ used \in 1 .. Capacity
    BY <1>2, EventRingAssumption DEF RingInv
  <2>3. Waiting # <<>> /\ Waiting[1] = ring[head]
    BY <2>2, EventRingAssumption DEF WaitingOK, Place, Index
  <2>4. /\ Waiting' \in Seq(Event) /\ Len(Waiting') = used'
        /\ \A k \in 1 .. used' : Waiting'[k] = ring'[Place(k - 1)']
    BY DEF WaitingOK
  <2>5. ASSUME NEW k \in 1 .. used - 1 PROVE Waiting'[k] = Waiting[k + 1]
    <3>1. Place(k - 1)' = Place(k)
      BY <2>1, <2>2, <2>5, EventRingAssumption DEF Place, Index, Step
    <3>2. Waiting'[k] = ring[Place(k)]
      BY <2>1, <2>4, <2>5, <3>1
    <3>3. Waiting[k + 1] = ring[Place(k)]
      <4>1. k + 1 \in 1 .. used /\ (k + 1) - 1 = k
        BY <2>2, <2>5, EventRingAssumption
      <4>2. Waiting[k + 1] = ring[Place((k + 1) - 1)]
        BY <4>1 DEF WaitingOK
      <4> QED BY <4>1, <4>2
    <3> QED BY <3>2, <3>3
  <2>6. Waiting' = Tail(Waiting)
    BY <2>1, <2>2, <2>4, <2>5 DEF WaitingOK
  <2>7. got' = Head(Waiting)
    BY <2>1, <2>3 DEF WaitingOK
  <2> QED BY <2>3, <2>6, <2>7 DEF Queue!Pop
<1> QED BY <1>1, <1>2

(* A push is a push, and loses the oldest event of a full queue.           *)
LEMMA PushIsPush ==
    ASSUME WaitingOK, WaitingOK', RingInv, NEW e \in Event, bot_event_push(e)
    PROVE  Queue!Push(e)
<1> DEFINE kept == IF Len(Waiting) = Capacity THEN Tail(Waiting) ELSE Waiting
<1>1. /\ head \in Index /\ tail \in Index /\ used \in 0 .. Capacity
      /\ ring \in [Index -> Event \cup {NoEvent}] /\ tail = Place(used)
  BY DEF RingInv
<1>2. ring' = [ring EXCEPT ![tail] = e] /\ got' = got
  BY DEF bot_event_push
<1>3. /\ Waiting' \in Seq(Event) /\ Len(Waiting') = used'
      /\ \A k \in 1 .. used' : Waiting'[k] = ring'[Place(k - 1)']
  BY DEF WaitingOK
<1>4. CASE used = Capacity
  <2>1. head' = Step(head) /\ used' = Capacity /\ tail = head
    BY <1>1, <1>4, EventRingAssumption DEF bot_event_push, Place, Index
  <2>2. kept \in Seq(Event) /\ Len(kept) = Capacity - 1
        /\ \A k \in 1 .. Capacity - 1 : kept[k] = ring[Place(k)]
    <3>1. \A k \in 1 .. Capacity - 1 : k + 1 \in 1 .. used
      BY <1>4, EventRingAssumption
    <3> QED BY <1>4, <3>1, EventRingAssumption DEF WaitingOK
  <2>3. ASSUME NEW k \in 1 .. Capacity - 1 PROVE Waiting'[k] = kept[k]
    <3>1. Place(k - 1)' = Place(k)
      BY <1>1, <2>1, <2>3, EventRingAssumption DEF Place, Index, Step
    <3>2. Place(k) \in Index /\ Place(k) # tail
      BY <1>1, <2>1, <2>3, EventRingAssumption DEF Place, Index
    <3>3. Waiting'[k] = ring'[Place(k)]
      BY <1>3, <2>1, <2>3, <3>1, EventRingAssumption
    <3> QED BY <1>1, <1>2, <2>2, <2>3, <3>2, <3>3
  <2>4. Waiting'[Capacity] = e
    <3>1. Place(Capacity - 1)' = tail
      BY <1>1, <2>1, EventRingAssumption DEF Place, Index, Step
    <3>2. Waiting'[Capacity] = ring'[tail]
      BY <1>3, <2>1, <3>1, EventRingAssumption
    <3> QED BY <1>1, <1>2, <3>2
  <2>5. Waiting' = Append(kept, e)
    <3> HIDE DEF kept
    <3> QED BY <1>3, <2>1, <2>2, <2>3, <2>4, EventRingAssumption
  <2> QED BY <1>2, <2>5 DEF Queue!Push
<1>5. CASE used # Capacity
  <2>1. head' = head /\ used' = used + 1 /\ used \in 0 .. Capacity - 1
    BY <1>1, <1>5, EventRingAssumption DEF bot_event_push
  <2>2. kept = Waiting
    BY <1>5 DEF WaitingOK
  <2>3. ASSUME NEW k \in 1 .. used PROVE Waiting'[k] = Waiting[k]
    <3>1. Place(k - 1)' = Place(k - 1) /\ Place(k - 1) \in Index /\ Place(k - 1) # tail
      BY <1>1, <2>1, <2>3, EventRingAssumption DEF Place, Index
    <3>2. Waiting'[k] = ring'[Place(k - 1)]
      BY <1>3, <2>1, <2>3, <3>1, EventRingAssumption
    <3> QED BY <1>1, <1>2, <2>3, <3>1, <3>2 DEF WaitingOK
  <2>4. ASSUME NEW k \in 1 .. used', k = used + 1 PROVE Waiting'[k] = e
    <3>1. Waiting'[k] = ring'[Place(k - 1)']
      BY <1>3, <2>4
    <3>2. Place(k - 1)' = tail
      BY <1>1, <2>1, <2>4, EventRingAssumption DEF Place, Index
    <3> QED BY <1>1, <1>2, <3>1, <3>2
  <2>5. Waiting' = Append(Waiting, e)
    BY <1>3, <2>1, <2>3, <2>4 DEF WaitingOK
  <2> QED BY <1>2, <2>2, <2>5 DEF Queue!Push
<1> QED BY <1>4, <1>5

(***************************************************************************)
(* The ring of event.c implements the queue for every capacity: no event   *)
(* is lost, repeated or reordered but the oldest of a full queue.          *)
(***************************************************************************)
THEOREM RingImplementsQueue == RingSpec => RingIsQueue
<1>1. RingInit => Queue!QueueInit
  BY DEF RingInit, Queue!QueueInit, Waiting
<1>2. RingInv /\ WaitingOK /\ WaitingOK' /\ [RingNext]_ringVars => [Queue!QueueNext]_<<Waiting, got>>
  <2> SUFFICES ASSUME RingInv, WaitingOK, WaitingOK', [RingNext]_ringVars
               PROVE  [Queue!QueueNext]_<<Waiting, got>>
    OBVIOUS
  <2>1. CASE event_pop
    BY <2>1, PopIsPop DEF Queue!QueueNext
  <2>2. ASSUME NEW e \in Event, bot_event_push(e) PROVE Queue!QueueNext
    BY <2>2, PushIsPush DEF Queue!QueueNext
  <2>3. CASE UNCHANGED ringVars
    BY <2>3 DEF ringVars, Waiting, Place
  <2> QED BY <2>1, <2>2, <2>3 DEF RingNext
<1> QED BY <1>1, <1>2, RingInvariant, WaitingIsSequence, PTL DEF RingSpec, RingIsQueue, Queue!QueueSpec

(***************************************************************************)
(* The memory pool: the counter is the number of taken blocks, what is     *)
(* handed out is zeroed, and an allocation is refused only when it is full.*)
(***************************************************************************)

(* The blocks are finite, and so is what is allocated of them. *)
LEMMA BlocksFinite ==
    /\ IsFiniteSet(Blocks) /\ Cardinality(Blocks) = MaxBlocks
    /\ IsFiniteSet(Allocated)
    /\ Cardinality(Allocated) \in Nat
    /\ Cardinality(Allocated) <= MaxBlocks
<1> 1 \in Int /\ MaxBlocks \in Int /\ 1 <= MaxBlocks  BY MemPoolAssumption
<1>1. IsFiniteSet(Blocks) /\ Cardinality(Blocks) = MaxBlocks
  BY FS_Interval DEF Blocks
<1>2. Allocated \subseteq Blocks
  BY DEF Allocated
<1>3. IsFiniteSet(Allocated) /\ Cardinality(Allocated) <= Cardinality(Blocks)
  BY <1>1, <1>2, FS_Subset
<1>4. Cardinality(Allocated) \in Nat
  BY <1>3, FS_CardinalityType
<1> QED  BY <1>1, <1>3, <1>4

LEMMA InitPoolInv == PoolInit => PoolInv
<1> SUFFICES ASSUME PoolInit PROVE PoolInv
  OBVIOUS
<1>1. Allocated = {}
  BY DEF PoolInit, Allocated
<1>2. PoolTypeOK
  BY MemPoolAssumption DEF PoolInit, PoolTypeOK
<1>3. UsedIsCount
  BY <1>1, FS_EmptySet DEF PoolInit, UsedIsCount
<1>4. FreshIsZero
  BY DEF PoolInit, FreshIsZero
<1> QED  BY <1>2, <1>3, <1>4 DEF PoolInv

(* The counter goes up exactly with the set of allocated blocks. *)
LEMMA AllocKeepsPoolInv ==
    ASSUME PoolInv, NEW c \in Clients, Alloc(c)
    PROVE  PoolInv'
<1> USE DEF PoolInv
<1>1. PICK b \in Blocks : /\ ~freeMap[b]
                          /\ freeMap' = [freeMap EXCEPT ![b] = TRUE]
                          /\ holder' = [holder EXCEPT ![b] = c]
  BY DEF Alloc
<1>2. usedBlocks < MaxBlocks /\ usedBlocks' = usedBlocks + 1 /\ memory' = memory
  BY DEF Alloc
<1>3. PoolTypeOK'
  BY <1>1, <1>2, MemPoolAssumption DEF PoolTypeOK
<1>4. UsedIsCount'
  <2>1. Allocated' = Allocated \cup {b} /\ b \notin Allocated
    BY <1>1 DEF Allocated, PoolTypeOK
  <2>2. Cardinality(Allocated') = Cardinality(Allocated) + 1
    BY <2>1, BlocksFinite, FS_AddElement
  <2>3. \A a \in Blocks : freeMap'[a] <=> holder'[a] # NoOne
    BY <1>1, MemPoolAssumption DEF PoolTypeOK, UsedIsCount
  <2> QED  BY <1>2, <2>2, <2>3 DEF UsedIsCount
<1>5. FreshIsZero'
  BY <1>1, <1>2 DEF FreshIsZero, PoolTypeOK
<1> QED  BY <1>3, <1>4, <1>5

(* It goes down with it, and the block that is given back is zeroed. *)
LEMMA FreeKeepsPoolInv ==
    ASSUME PoolInv, NEW b \in Blocks, Free(b)
    PROVE  PoolInv'
<1> USE DEF PoolInv
<1>1. /\ freeMap[b] /\ freeMap' = [freeMap EXCEPT ![b] = FALSE]
      /\ usedBlocks' = usedBlocks - 1
      /\ memory' = [memory EXCEPT ![b] = 0]
      /\ holder' = [holder EXCEPT ![b] = NoOne]
  BY DEF Free
<1>2. Allocated' = Allocated \ {b} /\ b \in Allocated
  BY <1>1 DEF Allocated, PoolTypeOK
<1>3. Cardinality(Allocated') = Cardinality(Allocated) - 1
  BY <1>2, BlocksFinite, FS_RemoveElement
<1>4. Cardinality(Allocated) # 0
  BY <1>2, BlocksFinite, FS_EmptySet
<1>5. PoolTypeOK'
  BY <1>1, <1>4, BlocksFinite, MemPoolAssumption DEF PoolTypeOK, UsedIsCount
<1>6. UsedIsCount'
  BY <1>1, <1>3 DEF UsedIsCount, PoolTypeOK
<1>7. FreshIsZero'
  BY <1>1 DEF FreshIsZero, PoolTypeOK
<1> QED  BY <1>5, <1>6, <1>7

(* Only a block that somebody has is written, so one that is free stays    *)
(* zeroed.                                                                 *)
LEMMA WriteKeepsPoolInv ==
    ASSUME PoolInv, NEW c \in Clients, NEW b \in Blocks, NEW v \in Value,
           WriteBlock(c, b, v)
    PROVE  PoolInv'
<1> USE DEF PoolInv
<1>1. holder[b] = c /\ memory' = [memory EXCEPT ![b] = v]
      /\ UNCHANGED <<freeMap, usedBlocks, holder>>
  BY DEF WriteBlock
<1>2. freeMap[b]
  BY <1>1, MemPoolAssumption DEF UsedIsCount
<1>3. PoolTypeOK'
  BY <1>1 DEF PoolTypeOK
<1>4. UsedIsCount'
  <2>1. Allocated' = Allocated
    BY <1>1 DEF Allocated
  <2> QED  BY <1>1, <2>1 DEF UsedIsCount
<1>5. FreshIsZero'
  BY <1>1, <1>2 DEF FreshIsZero, PoolTypeOK
<1> QED  BY <1>3, <1>4, <1>5

(* The pool counts its blocks and hands them out zeroed, whatever the      *)
(* order in which its clients allocate, write and free.                    *)
THEOREM PoolInvariant == PoolSpec => []PoolInv
<1>1. PoolInv /\ [PoolNext]_poolVars => PoolInv'
  <2> SUFFICES ASSUME PoolInv, [PoolNext]_poolVars PROVE PoolInv'
    OBVIOUS
  <2>1. CASE \E c \in Clients : Alloc(c)
    BY <2>1, AllocKeepsPoolInv
  <2>2. CASE \E b \in Blocks : Free(b)
    BY <2>2, FreeKeepsPoolInv
  <2>3. CASE \E c \in Clients, b \in Blocks, v \in Value : WriteBlock(c, b, v)
    BY <2>3, WriteKeepsPoolInv
  <2>4. CASE UNCHANGED poolVars
    BY <2>4 DEF poolVars, PoolInv, PoolTypeOK, UsedIsCount, FreshIsZero, Allocated
  <2> QED  BY <2>1, <2>2, <2>3, <2>4 DEF PoolNext
<1> QED  BY <1>1, InitPoolInv, PTL DEF PoolSpec

(* A subset of the blocks with as many elements is all of them, so the     *)
(* counter refuses an allocation only when no block is free.               *)
THEOREM PoolRefusesWhenFull == PoolSpec => []RefusedWhenFull
<1>1. PoolInv => RefusedWhenFull
  <2> SUFFICES ASSUME PoolInv, usedBlocks >= MaxBlocks PROVE \A b \in Blocks : freeMap[b]
    BY DEF RefusedWhenFull
  <2>1. Cardinality(Allocated) = Cardinality(Blocks)
    BY BlocksFinite, MemPoolAssumption DEF PoolInv, UsedIsCount, PoolTypeOK
  <2>2. Allocated \subseteq Blocks
    BY DEF Allocated
  <2>3. Allocated = Blocks
    BY <2>1, <2>2, BlocksFinite, FS_Subset
  <2> QED  BY <2>3 DEF Allocated
<1> QED  BY <1>1, PoolInvariant, PTL

(***************************************************************************)
(* Downloads: TransferInv is inductive.                                    *)
(***************************************************************************)

(* rbuf_append makes room for what is there and the terminating zero,      *)
(* within the limit, or gives up.                                          *)
LEMMA GrownFits ==
    ASSUME NEW size \in Nat, NEW c \in 0 .. MaxResponse
    PROVE  \/ Grown(size, c) = 0
           \/ Grown(size, c) \in 0 .. MaxResponse /\ size < Grown(size, c)
<1> DEFINE fits == {n \in Capacities(c) : size < n}
<1>1. Capacities(c) \subseteq 0 .. MaxResponse
  BY TransferAssumption DEF Capacities
<1>2. CASE fits = {}
  BY <1>2 DEF Grown
<1>3. CASE fits # {}
  <2>1. \E n \in fits : \A m \in fits : n <= m
    <3>1. fits \subseteq Nat
      BY <1>1
    <3>2. PICK n \in fits : \A m \in fits : <<m, n>> \notin OpToRel(<, Nat)
      BY <1>3, <3>1, NatLessThanWellFounded, WFMin
    <3>3. \A m \in fits : ~(m < n)
      BY <3>1, <3>2 DEF OpToRel
    <3> QED
      BY <3>1, <3>3
  <2>2. Grown(size, c) \in fits
    BY <1>3, <2>1 DEF Grown
  <2> QED
    BY <1>1, <2>2
<1> QED
  BY <1>2, <1>3

LEMMA TransferStarts == TransferInit => TransferInv
<1> SUFFICES ASSUME TransferInit PROVE TransferInv
  OBVIOUS
<1>b. tls \in BOOLEAN /\ stalled \in BOOLEAN /\ cut \in BOOLEAN /\ lost \in BOOLEAN
  BY DEF TransferInit
<1>1. TransferTypeOK
  BY <1>b, TransferAssumption DEF TransferInit, TransferTypeOK, NoBuf, Freed, Untouched
<1>2. InPlace
  BY TransferAssumption DEF TransferInit, InPlace, NoBuf, Freed, Untouched
<1>3. NothingLeaks
  BY TransferAssumption DEF TransferInit, NothingLeaks, NoBuf, Freed, Untouched
<1>4. ResponseFits /\ FileIsBody
  BY TransferAssumption DEF TransferInit, ResponseFits, FileIsBody
<1> QED
  BY <1>1, <1>2, <1>3, <1>4 DEF TransferInv

(* A request starts and an address is tried: nothing is open but the       *)
(* socket of an address that took the call.                                *)
LEMMA RequestKeeps == ASSUME TransferInv, http_request PROVE TransferInv'
<1>flags. tls' \in BOOLEAN /\ stalled' \in BOOLEAN /\ cut' \in BOOLEAN /\ lost' \in BOOLEAN
  BY DEF http_request, Fails, Connection, TransferInv, TransferTypeOK
<1>types. TransferTypeOK'
  BY <1>flags, TransferAssumption
     DEF http_request, Fails, Connection, TransferInv, TransferTypeOK,
         InPlace, NoBuf, Freed, Untouched
<1>place. InPlace'
  BY TransferAssumption
     DEF http_request, Fails, Connection, TransferInv, TransferTypeOK,
         InPlace, NoBuf, Freed, Untouched
<1>clean. NothingLeaks'
  BY TransferAssumption
     DEF http_request, Fails, Connection, TransferInv, TransferTypeOK,
         InPlace, NothingLeaks, NoBuf, Freed, Untouched
<1>fits. ResponseFits' /\ FileIsBody'
  BY TransferAssumption
     DEF http_request, Fails, Connection, TransferInv, TransferTypeOK,
         InPlace, ResponseFits, FileIsBody, NoBuf, Freed, Untouched
<1> QED
  BY <1>types, <1>place, <1>clean, <1>fits DEF TransferInv

LEMMA ConnectKeeps == ASSUME TransferInv, bot_tcp_connect PROVE TransferInv'
<1>flags. tls' \in BOOLEAN /\ stalled' \in BOOLEAN /\ cut' \in BOOLEAN /\ lost' \in BOOLEAN
  BY DEF bot_tcp_connect, Fails, Connection, TransferInv, TransferTypeOK
<1>types. TransferTypeOK'
  BY <1>flags, TransferAssumption
     DEF bot_tcp_connect, Fails, Connection, TransferInv, TransferTypeOK,
         InPlace, NoBuf, Freed, Untouched
<1>place. InPlace'
  BY TransferAssumption
     DEF bot_tcp_connect, Fails, Connection, TransferInv, TransferTypeOK,
         InPlace, NoBuf, Freed, Untouched
<1>clean. NothingLeaks'
  BY TransferAssumption
     DEF bot_tcp_connect, Fails, Connection, TransferInv, TransferTypeOK,
         InPlace, NothingLeaks, NoBuf, Freed, Untouched
<1>fits. ResponseFits' /\ FileIsBody'
  BY TransferAssumption
     DEF bot_tcp_connect, Fails, Connection, TransferInv, TransferTypeOK,
         InPlace, ResponseFits, FileIsBody, NoBuf, Freed, Untouched
<1> QED
  BY <1>types, <1>place, <1>clean, <1>fits DEF TransferInv

LEMMA HandshakeKeeps == ASSUME TransferInv, Handshake PROVE TransferInv'
<1>flags. tls' \in BOOLEAN /\ stalled' \in BOOLEAN /\ cut' \in BOOLEAN /\ lost' \in BOOLEAN
  BY DEF Handshake, Hangup, Fails, Connection, TransferInv, TransferTypeOK
<1>types. TransferTypeOK'
  BY <1>flags, TransferAssumption
     DEF Handshake, Hangup, Fails, Connection, TransferInv, TransferTypeOK,
         InPlace, NoBuf, Freed, Untouched
<1>place. InPlace'
  BY TransferAssumption
     DEF Handshake, Hangup, Fails, Connection, TransferInv, TransferTypeOK,
         InPlace, NoBuf, Freed, Untouched
<1>clean. NothingLeaks'
  BY TransferAssumption
     DEF Handshake, Hangup, Fails, Connection, TransferInv, TransferTypeOK,
         InPlace, NothingLeaks, NoBuf, Freed, Untouched
<1>fits. ResponseFits' /\ FileIsBody'
  BY TransferAssumption
     DEF Handshake, Hangup, Fails, Connection, TransferInv, TransferTypeOK,
         InPlace, ResponseFits, FileIsBody, NoBuf, Freed, Untouched
<1> QED
  BY <1>types, <1>place, <1>clean, <1>fits DEF TransferInv

LEMMA SendKeeps == ASSUME TransferInv, SendRequest PROVE TransferInv'
<1>1. answer' \in Answer => answer'.body \in Nat
  BY TransferAssumption DEF Answer
<1>flags. tls' \in BOOLEAN /\ stalled' \in BOOLEAN /\ cut' \in BOOLEAN /\ lost' \in BOOLEAN
  BY <1>1 DEF SendRequest, Hangup, Fails, Connection, TransferInv, TransferTypeOK
<1>types. TransferTypeOK'
  BY <1>flags, <1>1, TransferAssumption
     DEF SendRequest, Hangup, Fails, Connection, TransferInv, TransferTypeOK,
         InPlace, NoBuf, Freed, Untouched, Left
<1>place. InPlace'
  BY <1>1, TransferAssumption
     DEF SendRequest, Hangup, Fails, Connection, TransferInv, TransferTypeOK,
         InPlace, NoBuf, Freed, Untouched, Left
<1>clean. NothingLeaks'
  BY <1>1, TransferAssumption
     DEF SendRequest, Hangup, Fails, Connection, TransferInv, TransferTypeOK,
         InPlace, NothingLeaks, NoBuf, Freed, Untouched, Left
<1>fits. ResponseFits' /\ FileIsBody'
  BY <1>1, TransferAssumption
     DEF SendRequest, Hangup, Fails, Connection, TransferInv, TransferTypeOK,
         InPlace, ResponseFits, FileIsBody, NoBuf, Freed, Untouched, Left
<1> QED
  BY <1>types, <1>place, <1>clean, <1>fits DEF TransferInv

LEMMA LeftIsInt ==
    ASSUME TransferInv
    PROVE  step \in {"read", "parse"} => Left \in Nat /\ buf.size \in Nat /\ answer.body \in Nat
<1> SUFFICES ASSUME step \in {"read", "parse"}
             PROVE  Left \in Nat /\ buf.size \in Nat /\ answer.body \in Nat
  OBVIOUS
<1>1. answer \in Answer /\ Left >= 0
  BY DEF TransferInv, InPlace
<1>2. answer.body \in Nat
  BY <1>1, TransferAssumption DEF Answer
<1>3. buf.size \in Nat
  BY DEF TransferInv, TransferTypeOK
<1> QED
  BY <1>1, <1>2, <1>3, TransferAssumption DEF Left

(* A piece arrives: it fits, or the call gives up.                         *)
LEMMA ReceiveKeeps == ASSUME TransferInv, Receive PROVE TransferInv'
<1>1. PICK n \in 1 .. Chunk :
         /\ n <= Left
         /\ LET grown == Grown(buf.size + n, buf.cap) IN
            IF grown = 0
            THEN Hangup /\ Fails /\ buf' = NoBuf
            ELSE buf' = [size |-> buf.size + n, cap |-> grown] /\ UNCHANGED <<Connection, step, result>>
  BY DEF Receive
<1>2. buf.size \in Nat /\ buf.cap \in 0 .. MaxResponse /\ n \in Nat \ {0} /\ step = "read"
  BY TransferAssumption DEF TransferInv, TransferTypeOK, Receive
<1>3. CASE Grown(buf.size + n, buf.cap) = 0
  <2>0. Hangup /\ Fails /\ buf' = NoBuf
    BY <1>1, <1>3
  <2>flags. tls' \in BOOLEAN /\ stalled' \in BOOLEAN /\ cut' \in BOOLEAN /\ lost' \in BOOLEAN
    BY <2>0, <1>2 DEF Receive, Hangup, Fails, Connection, TransferInv, TransferTypeOK
  <2>types. TransferTypeOK'
    BY <2>flags, <2>0, <1>2, TransferAssumption
       DEF Receive, Hangup, Fails, Connection, TransferInv, TransferTypeOK,
           InPlace, NoBuf, Freed, Untouched
  <2>place. InPlace'
    BY <2>0, <1>2, TransferAssumption
       DEF Receive, Hangup, Fails, Connection, TransferInv, TransferTypeOK,
           InPlace, NoBuf, Freed, Untouched
  <2>clean. NothingLeaks'
    BY <2>0, <1>2, TransferAssumption
       DEF Receive, Hangup, Fails, Connection, TransferInv, TransferTypeOK,
           InPlace, NothingLeaks, NoBuf, Freed, Untouched
  <2>fits. ResponseFits' /\ FileIsBody'
    BY <2>0, <1>2, TransferAssumption
       DEF Receive, Hangup, Fails, Connection, TransferInv, TransferTypeOK,
           InPlace, ResponseFits, FileIsBody, NoBuf, Freed, Untouched
  <2> QED
    BY <2>types, <2>place, <2>clean, <2>fits DEF TransferInv
<1>4. CASE Grown(buf.size + n, buf.cap) # 0
  <2>1. /\ buf' = [size |-> buf.size + n, cap |-> Grown(buf.size + n, buf.cap)]
        /\ UNCHANGED <<Connection, step, result>>
    BY <1>1, <1>4
  <2>2. /\ buf' \in [size : Nat, cap : 0 .. MaxResponse]
        /\ buf'.size < buf'.cap /\ buf'.size = buf.size + n
    BY <1>2, <1>4, <2>1, GrownFits
  <2>3. Left' = Left - n /\ Left' \in Nat
    BY <1>1, <1>2, <2>2, LeftIsInt, TransferAssumption DEF Receive, Left
  <2>flags. tls' \in BOOLEAN /\ stalled' \in BOOLEAN /\ cut' \in BOOLEAN /\ lost' \in BOOLEAN
    BY <1>2, <2>1, <2>2, <2>3 DEF Receive, Connection, TransferInv, TransferTypeOK
  <2>types. TransferTypeOK'
    BY <2>flags, <1>2, <2>1, <2>2, <2>3, TransferAssumption
       DEF Receive, Connection, TransferInv, TransferTypeOK, InPlace, NoBuf,
           Freed, Untouched
  <2>place. InPlace'
    BY <1>2, <2>1, <2>2, <2>3, TransferAssumption
       DEF Receive, Connection, TransferInv, TransferTypeOK, InPlace, NoBuf,
           Freed, Untouched
  <2>clean. NothingLeaks'
    BY <1>2, <2>1, <2>2, <2>3, TransferAssumption
       DEF Receive, Connection, TransferInv, TransferTypeOK, InPlace,
           NothingLeaks, NoBuf, Freed, Untouched
  <2>fits. ResponseFits' /\ FileIsBody'
    BY <1>2, <2>1, <2>2, <2>3, TransferAssumption
       DEF Receive, Connection, TransferInv, TransferTypeOK, InPlace,
           ResponseFits, FileIsBody, NoBuf, Freed, Untouched
  <2> QED
    BY <2>types, <2>place, <2>clean, <2>fits DEF TransferInv
<1> QED
  BY <1>3, <1>4

LEMMA StallKeeps == ASSUME TransferInv, ServerStalls PROVE TransferInv'
<1>1. Left' = Left
  BY DEF ServerStalls, Left
<1>flags. tls' \in BOOLEAN /\ stalled' \in BOOLEAN /\ cut' \in BOOLEAN /\ lost' \in BOOLEAN
  BY <1>1 DEF ServerStalls, Connection, TransferInv, TransferTypeOK
<1>types. TransferTypeOK'
  BY <1>flags, <1>1, TransferAssumption
     DEF ServerStalls, Connection, TransferInv, TransferTypeOK, InPlace,
         NoBuf, Freed, Untouched
<1>place. InPlace'
  BY <1>1, TransferAssumption
     DEF ServerStalls, Connection, TransferInv, TransferTypeOK, InPlace,
         NoBuf, Freed, Untouched
<1>clean. NothingLeaks'
  BY <1>1, TransferAssumption
     DEF ServerStalls, Connection, TransferInv, TransferTypeOK, InPlace,
         NothingLeaks, NoBuf, Freed, Untouched
<1>fits. ResponseFits' /\ FileIsBody'
  BY <1>1, TransferAssumption
     DEF ServerStalls, Connection, TransferInv, TransferTypeOK, InPlace,
         ResponseFits, FileIsBody, NoBuf, Freed, Untouched
<1> QED
  BY <1>types, <1>place, <1>clean, <1>fits DEF TransferInv

LEMMA EndKeeps == ASSUME TransferInv, ResponseEnds PROVE TransferInv'
<1>1. Left' = Left /\ Left \in Nat
  BY LeftIsInt DEF ResponseEnds, Left
<1>2. ~cut' => Left = 0
  <2>1. ~cut' => ~(Left > 0)
    BY DEF ResponseEnds
  <2> QED
    BY <1>1, <2>1
<1>flags. tls' \in BOOLEAN /\ stalled' \in BOOLEAN /\ cut' \in BOOLEAN /\ lost' \in BOOLEAN
  BY <1>1, <1>2 DEF ResponseEnds, Connection, TransferInv, TransferTypeOK
<1>types. TransferTypeOK'
  BY <1>flags, <1>1, <1>2, TransferAssumption
     DEF ResponseEnds, Connection, TransferInv, TransferTypeOK, InPlace,
         NoBuf, Freed, Untouched
<1>place. InPlace'
  BY <1>1, <1>2, TransferAssumption
     DEF ResponseEnds, Connection, TransferInv, TransferTypeOK, InPlace,
         NoBuf, Freed, Untouched
<1>clean. NothingLeaks'
  BY <1>1, <1>2, TransferAssumption
     DEF ResponseEnds, Connection, TransferInv, TransferTypeOK, InPlace,
         NothingLeaks, NoBuf, Freed, Untouched
<1>fits. ResponseFits' /\ FileIsBody'
  BY <1>1, <1>2, TransferAssumption
     DEF ResponseEnds, Connection, TransferInv, TransferTypeOK, InPlace,
         ResponseFits, FileIsBody, NoBuf, Freed, Untouched
<1> QED
  BY <1>types, <1>place, <1>clean, <1>fits DEF TransferInv

LEMMA ParseKeeps == ASSUME TransferInv, Parse PROVE TransferInv'
<1>1. Target \in Url \cup {NoHost, NoUrl}
  BY TransferAssumption DEF Target, TransferInv, InPlace, Parse, Answer
<1>2. /\ ~cut => buf.size - HeaderLen = answer.body
      /\ buf.size - HeaderLen <= answer.body
  BY LeftIsInt, TransferAssumption DEF TransferInv, InPlace, Left, Parse
<1>3. buf.size \in Nat /\ answer.body \in Nat
  BY LeftIsInt DEF Parse
<1>4. resp' \in [held : BOOLEAN, body : Nat]
  <2>1. \/ resp' = resp \/ resp' = Freed
        \/ buf.size >= HeaderLen /\ resp' = [held |-> TRUE, body |-> buf.size - HeaderLen]
    BY <1>3, TransferAssumption DEF Parse
  <2>2. Freed \in [held : BOOLEAN, body : Nat] /\ resp \in [held : BOOLEAN, body : Nat]
    BY DEF Freed, TransferInv, TransferTypeOK
  <2>3. \A n \in Nat : [held |-> TRUE, body |-> n] \in [held : BOOLEAN, body : Nat]
    OBVIOUS
  <2> QED
    <3>1. buf.size >= HeaderLen => buf.size - HeaderLen \in Nat
      BY <1>3, TransferAssumption
    <3>2. CASE resp' = [held |-> TRUE, body |-> buf.size - HeaderLen] /\ buf.size >= HeaderLen
      BY <2>3, <3>1, <3>2
    <3> QED
      BY <2>1, <2>2, <3>2
<1>flags. tls' \in BOOLEAN /\ stalled' \in BOOLEAN /\ cut' \in BOOLEAN /\ lost' \in BOOLEAN
  BY <1>1, <1>2, <1>3, <1>4
     DEF Parse, Hangup, Fails, Connection, TransferInv, TransferTypeOK
<1>types. TransferTypeOK'
  BY <1>flags, <1>1, <1>2, <1>3, <1>4, TransferAssumption
     DEF Parse, Hangup, Fails, Connection, TransferInv, TransferTypeOK,
         InPlace, NoBuf, Freed, Untouched
<1>place. InPlace'
  BY <1>1, <1>2, <1>3, <1>4, TransferAssumption
     DEF Parse, Hangup, Fails, Connection, TransferInv, TransferTypeOK,
         InPlace, NoBuf, Freed, Untouched
<1>clean. NothingLeaks'
  BY <1>1, <1>2, <1>3, <1>4, TransferAssumption
     DEF Parse, Hangup, Fails, Connection, TransferInv, TransferTypeOK,
         InPlace, NothingLeaks, NoBuf, Freed, Untouched
<1>fits. ResponseFits' /\ FileIsBody'
  BY <1>1, <1>2, <1>3, <1>4, TransferAssumption
     DEF Parse, Hangup, Fails, Connection, TransferInv, TransferTypeOK,
         InPlace, ResponseFits, FileIsBody, NoBuf, Freed, Untouched
<1> QED
  BY <1>types, <1>place, <1>clean, <1>fits DEF TransferInv

LEMMA StoreKeeps == ASSUME TransferInv, bot_http_download PROVE TransferInv'
<1>flags. tls' \in BOOLEAN /\ stalled' \in BOOLEAN /\ cut' \in BOOLEAN /\ lost' \in BOOLEAN
  BY DEF bot_http_download, Fails, Connection, TransferInv, TransferTypeOK
<1>types. TransferTypeOK'
  BY <1>flags, TransferAssumption
     DEF bot_http_download, Fails, Connection, TransferInv, TransferTypeOK,
         InPlace, NoBuf, Freed, Untouched
<1>place. InPlace'
  BY TransferAssumption
     DEF bot_http_download, Fails, Connection, TransferInv, TransferTypeOK,
         InPlace, NoBuf, Freed, Untouched
<1>clean. NothingLeaks'
  BY TransferAssumption
     DEF bot_http_download, Fails, Connection, TransferInv, TransferTypeOK,
         InPlace, NothingLeaks, NoBuf, Freed, Untouched
<1>fits. ResponseFits'
  BY DEF bot_http_download, Fails, ResponseFits
<1>sent. /\ resp.body \in Nat /\ answer.body \in Nat /\ resp.body <= answer.body
         /\ ~cut => resp.body = answer.body
  <2>1. answer \in Answer /\ step = "store"
    BY DEF bot_http_download, TransferInv, InPlace
  <2> QED
    BY <2>1, TransferAssumption DEF Answer, TransferInv, TransferTypeOK, InPlace
<1>body. FileIsBody'
  <2>1. step = "store" /\ result = "none" /\ file = Untouched /\ UNCHANGED <<answer, cut>>
    BY DEF bot_http_download, TransferInv, InPlace
  <2>2. CASE Fails /\ UNCHANGED <<file, lost>>
    BY <2>1, <2>2 DEF FileIsBody, Fails
  <2>3. CASE answer.status = "ok" /\ Fails
    BY <2>1, <2>3 DEF FileIsBody, Fails
  <2>4. CASE /\ answer.status = "ok" /\ step' = "done" /\ result' = "ok"
             /\ file' = resp.body
    BY <1>sent, <2>1, <2>4 DEF FileIsBody
  <2>5. CASE /\ answer.status = "ok" /\ step' = "done" /\ result' = "ok"
             /\ file' \in 0 .. resp.body - 1 /\ lost' = TRUE
    BY <1>sent, <2>1, <2>5 DEF FileIsBody
  <2> QED
    BY <2>2, <2>3, <2>4, <2>5 DEF bot_http_download
<1> QED
  BY <1>types, <1>place, <1>clean, <1>fits, <1>body DEF TransferInv

(* The call gives back what it took on every way out, keeps within its     *)
(* buffer and, when it succeeds, has stored the body that was sent or,     *)
(* where the connection was cut or fclose lost it (http.c:549-552), no     *)
(* more than that: for every number of addresses and redirects, sizes of   *)
(* the buffer and of the pieces, and every server.                         *)
THEOREM DownloadsAreClean == TransferSpec => []TransferInv
<1>1. TransferInv /\ [TransferNext]_netVars => TransferInv'
  <2>1. TransferInv /\ TransferNext => TransferInv'
    BY RequestKeeps, ConnectKeeps, HandshakeKeeps, SendKeeps, ReceiveKeeps, StallKeeps, EndKeeps,
       ParseKeeps, StoreKeeps
       DEF TransferNext, ClientStep
  <2>2. TransferInv /\ UNCHANGED netVars => TransferInv'
    BY DEF netVars, TransferInv, TransferTypeOK, InPlace, NothingLeaks, ResponseFits, FileIsBody, Left
  <2> QED
    BY <2>1, <2>2
<1> QED
  BY <1>1, TransferStarts, PTL DEF TransferSpec

(***************************************************************************)
(* Notifications: NotifyInv is inductive.                                  *)
(***************************************************************************)

LEMMA MessageIs ==
    ASSUME NEW s \in Sender
    PROVE  /\ Message(s) \in Seq(Byte) /\ Len(Message(s)) < MaxLen
           /\ Len(Message(s)) <= TitleLen[s] + 1 + BodyLen[s]
           /\ \A u \in 1 .. Len(Message(s)) :
                 Message(s)[u].part = IF u <= TitleLen[s] THEN "title"
                                      ELSE IF u = TitleLen[s] + 1 THEN "sep" ELSE "body"
<1> DEFINE full == TitleLen[s] + 1 + BodyLen[s]
           len  == IF full < MaxLen THEN full ELSE MaxLen - 1
<1>1. TitleLen[s] \in Nat /\ len \in Nat /\ len < MaxLen /\ len <= full
  BY NotifyAssumption
<1> HIDE DEF len
<1>2. Message(s) = [u \in 1 .. len |->
            [of |-> s, part |-> IF u <= TitleLen[s] THEN "title"
                                ELSE IF u = TitleLen[s] + 1 THEN "sep" ELSE "body"]]
  BY DEF Message, len
<1>3. Message(s) \in Seq(Byte) /\ Len(Message(s)) = len
  BY <1>1, <1>2 DEF Byte
<1> QED
  BY <1>1, <1>2, <1>3

LEMMA NotifyStarts == NotifyInit => NotifyInv
<1> SUFFICES ASSUME NotifyInit PROVE NotifyInv
  OBVIOUS
<1>1. reader \in BOOLEAN /\ wrapped \in BOOLEAN /\ toast.active = FALSE
  BY DEF NotifyInit, NoToast
<1>2. NotifyTypeOK
  <2>1. NoToast \in [active : BOOLEAN, expire : 0 .. Wrap - 1, title : Seq(Byte), body : Seq(Byte)]
    BY NotifyAssumption DEF NoToast
  <2> QED
    BY <1>1, <2>1, NotifyAssumption DEF NotifyInit, NotifyTypeOK, SenderState
<1> QED
  BY <1>1, <1>2 DEF NotifyInv, Ticking, ToastTimely

(* The FIFO takes whole messages and never more than it holds.             *)
LEMMA SenderKeeps ==
    ASSUME NotifyInv, NEW s \in Sender, Open(s) \/ Send(s)
    PROVE  NotifyInv'
<1>1. sender' \in [Sender -> SenderState]
  BY DEF Open, Send, NotifyInv, NotifyTypeOK, SenderState
<1>2. fifo' \in Seq(Byte) /\ Len(fifo') <= PipeSize
  <2>1. fifo \in Seq(Byte) /\ Len(fifo) <= PipeSize /\ PipeSize \in Nat
    BY NotifyAssumption DEF NotifyInv, NotifyTypeOK
  <2>2. fifo \o Message(s) \in Seq(Byte) /\ Len(fifo \o Message(s)) = Len(fifo) + Len(Message(s))
    BY <2>1, MessageIs
  <2>3. \/ fifo' = fifo \/ fifo' = <<>>
        \/ fifo' = fifo \o Message(s) /\ Len(fifo) + Len(Message(s)) <= PipeSize
    BY DEF Open, Send, Kept
  <2>4. <<>> \in Seq(Byte) /\ Len(<<>>) = 0
    OBVIOUS
  <2>5. CASE fifo' = fifo \o Message(s) /\ Len(fifo) + Len(Message(s)) <= PipeSize
    BY <2>2, <2>5
  <2>6. CASE fifo' = fifo
    BY <2>1, <2>6
  <2>7. CASE fifo' = <<>>
    BY <2>1, <2>4, <2>7
  <2> QED
    BY <2>3, <2>5, <2>6, <2>7
<1>3. UNCHANGED <<reader, toast, clock, wrapped, shownFor>>
  BY DEF Open, Send
<1> QED
  BY <1>1, <1>2, <1>3 DEF NotifyInv, NotifyTypeOK, Ticking, ToastTimely

(* A toast that was just shown.                                            *)
LEMMA JustShown ==
    ASSUME NEW now \in 0 .. Wrap - 1, NEW title \in Seq(Byte), NEW body \in Seq(Byte),
           toast_show(now, title, body), clock' = now
    PROVE  /\ toast' \in [active : BOOLEAN, expire : 0 .. Wrap - 1, title : Seq(Byte), body : Seq(Byte)]
           /\ shownFor' = 0 /\ wrapped' \in BOOLEAN /\ Ticking' /\ ToastTimely'
<1>1. \A text \in Seq(Byte) : Copied(text) \in Seq(Byte)
  <2> SUFFICES ASSUME NEW text \in Seq(Byte), ~(Len(text) < ToastLen)
               PROVE  SubSeq(text, 1, ToastLen - 1) \in Seq(Byte)
    BY DEF Copied
  <2> QED
    BY NotifyAssumption
<1>2. (now + Duration) % Wrap \in 0 .. Wrap - 1
  BY NotifyAssumption
<1>3. toast' = [active |-> TRUE, expire |-> (now + Duration) % Wrap,
                title |-> Copied(title), body |-> Copied(body)]
  BY DEF toast_show
<1>4. toast'.expire = (now + Duration) % Wrap
  BY <1>3
<1>5. shownFor' = 0 /\ wrapped' = FALSE
  BY DEF toast_show
<1>6. now - 0 + Duration = now + Duration /\ now \in Nat /\ Duration > 0 /\ Duration \in Nat
  BY NotifyAssumption
<1>7. toast' \in [active : BOOLEAN, expire : 0 .. Wrap - 1, title : Seq(Byte), body : Seq(Byte)]
  BY <1>1, <1>2, <1>3
<1>8. Ticking'
  BY <1>4, <1>5, <1>6 DEF Ticking
<1>9. ToastTimely'
  BY <1>5, <1>6 DEF ToastTimely
<1> QED
  BY <1>5, <1>7, <1>8, <1>9

LEMMA PartOf ==
    ASSUME NEW bytes \in Seq(Byte), NEW m \in Nat, NEW n \in Nat, m > 0, n <= Len(bytes)
    PROVE  SubSeq(bytes, m, n) \in Seq(Byte)
<1>1. \A u \in m .. n : bytes[u] \in Byte
  OBVIOUS
<1> QED
  BY <1>1, SubSeqProperties

(* What one read returns is split into two texts, wherever separators are. *)
LEMMA TextsShown ==
    ASSUME NEW now \in 0 .. Wrap - 1, NEW bytes \in Seq(Byte), ShowText(now, bytes), clock' = now
    PROVE  \E title, body \in Seq(Byte) : toast_show(now, title, body)
<1> DEFINE seps == {u \in DOMAIN bytes : bytes[u].part = "sep"}
           spot   == CHOOSE u \in seps : \A j \in seps : u <= j
<1>1. CASE seps = {}
  <2>1. toast_show(now, bytes, <<>>) /\ <<>> \in Seq(Byte)
    BY <1>1 DEF ShowText
  <2> QED
    BY <2>1
<1>2. CASE seps # {}
  <2>1. toast_show(now, SubSeq(bytes, 1, spot - 1), SubSeq(bytes, spot + 1, Len(bytes)))
    BY <1>2 DEF ShowText
  <2>2. spot \in 1 .. Len(bytes)
    <3>1. \E u \in seps : \A j \in seps : u <= j
      <4>1. seps \subseteq Nat
        OBVIOUS
      <4>2. PICK u \in seps : \A j \in seps : <<j, u>> \notin OpToRel(<, Nat)
        BY <1>2, <4>1, NatLessThanWellFounded, WFMin
      <4>3. \A j \in seps : ~(j < u)
        BY <4>1, <4>2 DEF OpToRel
      <4> QED
        BY <4>1, <4>3
    <3>2. spot \in seps
      BY <3>1
    <3> QED
      BY <3>2
  <2>3. SubSeq(bytes, 1, spot - 1) \in Seq(Byte) /\ SubSeq(bytes, spot + 1, Len(bytes)) \in Seq(Byte)
    <3> HIDE DEF spot
    <3>1. spot - 1 \in Nat /\ spot - 1 <= Len(bytes) /\ spot + 1 \in Nat /\ spot + 1 > 0 /\ Len(bytes) \in Nat
      BY <2>2
    <3> QED
      BY <3>1, PartOf
  <2> QED
    BY <2>1, <2>3
<1> QED
  BY <1>1, <1>2

LEMMA PumpKeeps ==
    ASSUME NotifyInv, NEW gap \in 1 .. MaxGap, Pump(gap)
    PROVE  NotifyInv'
<1> DEFINE now == (clock + gap) % Wrap
<1>1. gap \in Nat /\ gap > 0 /\ clock \in Nat /\ clock < Wrap /\ Wrap \in Nat /\ gap < Wrap
  BY NotifyAssumption DEF NotifyInv, NotifyTypeOK
<1>2. now \in 0 .. Wrap - 1 /\ (clock + gap < Wrap => now = clock + gap)
  BY <1>1
<1>3. clock' = now /\ reader' = TRUE /\ sender' = sender
  BY DEF Pump
<1>4. ReadSize \in 0 .. Len(fifo) /\ fifo \in Seq(Byte) /\ Len(fifo) <= PipeSize
  BY NotifyAssumption DEF ReadSize, NotifyInv, NotifyTypeOK
<1>5. fifo' \in Seq(Byte) /\ Len(fifo') <= PipeSize
  <2>1. fifo' = SubSeq(fifo, ReadSize + 1, Len(fifo))
    BY DEF Pump
  <2> QED
    BY <1>4, <2>1, NotifyAssumption, SubSeqProperties
<1> HIDE DEF now
<1>6. CASE fifo # <<>>
  <2>1. ShowText(now, SubSeq(fifo, 1, ReadSize))
    BY <1>6 DEF Pump, now
  <2>2. SubSeq(fifo, 1, ReadSize) \in Seq(Byte)
    BY <1>4, SubSeqProperties
  <2>3. PICK title \in Seq(Byte), body \in Seq(Byte) : toast_show(now, title, body)
    BY <1>2, <1>3, <2>1, <2>2, TextsShown
  <2>4. /\ toast' \in [active : BOOLEAN, expire : 0 .. Wrap - 1, title : Seq(Byte), body : Seq(Byte)]
        /\ shownFor' = 0 /\ wrapped' \in BOOLEAN /\ Ticking' /\ ToastTimely'
    BY <1>2, <1>3, <2>3, JustShown
  <2> QED
    BY <1>2, <1>3, <1>5, <2>4 DEF NotifyInv, NotifyTypeOK
<1>7. CASE fifo = <<>>
  <2>1. /\ toast' = IF toast.active /\ now >= toast.expire THEN NoToast ELSE toast
        /\ wrapped' = (toast'.active /\ (wrapped \/ clock + gap >= Wrap))
        /\ shownFor' = IF toast'.active /\ ~wrapped' THEN shownFor + gap ELSE 0
    BY <1>7 DEF Pump, toast_check_expiry, now
  <2>2. /\ toast' \in [active : BOOLEAN, expire : 0 .. Wrap - 1, title : Seq(Byte), body : Seq(Byte)]
        /\ toast'.active => toast' = toast /\ toast.active /\ ~(now >= toast.expire)
    <3>1. NoToast \in [active : BOOLEAN, expire : 0 .. Wrap - 1, title : Seq(Byte), body : Seq(Byte)]
      BY <1>1 DEF NoToast
    <3>2. ~NoToast.active
      BY DEF NoToast
    <3> QED
      BY <2>1, <3>1, <3>2 DEF NotifyInv, NotifyTypeOK
  <2>3. wrapped' \in BOOLEAN
    BY <2>1
  <2>4. shownFor \in Nat /\ shownFor' \in Nat
    BY <1>1, <2>1 DEF NotifyInv, NotifyTypeOK
  <2>5. ASSUME toast'.active, ~wrapped'
        PROVE  /\ shownFor' = shownFor + gap /\ shownFor <= clock /\ clock + gap < Wrap
               /\ toast'.expire = (clock - shownFor + Duration) % Wrap
               /\ now < toast'.expire
    <3>1. ~wrapped /\ ~(clock + gap >= Wrap) /\ shownFor' = shownFor + gap
      BY <2>1, <2>5
    <3>2. shownFor <= clock /\ toast.expire = (clock - shownFor + Duration) % Wrap
      BY <2>2, <2>5, <3>1 DEF NotifyInv, Ticking
    <3>3. toast.expire \in Nat
      BY <1>1 DEF NotifyInv, NotifyTypeOK
    <3> QED
      BY <1>1, <1>2, <2>2, <2>5, <3>1, <3>2, <3>3
  <2>6. Ticking'
    <3> SUFFICES ASSUME toast'.active, ~wrapped'
                 PROVE  /\ shownFor' <= clock'
                        /\ toast'.expire = (clock' - shownFor' + Duration) % Wrap
                        /\ shownFor' > 0 => clock' < toast'.expire
      BY DEF Ticking
    <3>1. clock' - shownFor' = clock - shownFor /\ clock' = clock + gap
      BY <1>1, <1>2, <1>3, <2>4, <2>5
    <3> QED
      BY <1>1, <1>3, <2>4, <2>5, <3>1
  <2>7. ToastTimely'
    <3> SUFFICES ASSUME toast'.active, ~wrapped' PROVE shownFor' < Duration
      BY DEF ToastTimely
    <3> DEFINE begin == clock - shownFor
    <3>1. begin \in Nat /\ begin < Wrap /\ Duration \in Nat /\ Duration < Wrap
      BY <1>1, <2>4, <2>5, NotifyAssumption
    <3>2. (begin + Duration) % Wrap = IF begin + Duration < Wrap THEN begin + Duration
                                      ELSE begin + Duration - Wrap
      BY <1>1, <3>1
    <3>3. now = begin + shownFor' /\ toast'.expire = (begin + Duration) % Wrap
      BY <1>1, <1>2, <2>4, <2>5
    <3>4. now < toast'.expire
      BY <2>5
    <3> HIDE DEF begin
    <3> QED
      BY <1>1, <2>4, <3>1, <3>2, <3>3, <3>4
  <2> QED
    BY <1>2, <1>3, <1>5, <2>2, <2>3, <2>4, <2>6, <2>7 DEF NotifyInv, NotifyTypeOK
<1> QED
  BY <1>6, <1>7

LEMMA ScreenshotKeeps == ASSUME NotifyInv, take_screenshot PROVE NotifyInv'
<1>1. <<Shot>> \in Seq(Byte) /\ <<>> \in Seq(Byte)
  BY DEF Shot, Byte
<1>2. clock \in 0 .. Wrap - 1 /\ clock' = clock /\ UNCHANGED <<sender, fifo, reader>>
  BY DEF take_screenshot, NotifyInv, NotifyTypeOK
<1>3. /\ toast' \in [active : BOOLEAN, expire : 0 .. Wrap - 1, title : Seq(Byte), body : Seq(Byte)]
      /\ shownFor' = 0 /\ wrapped' \in BOOLEAN /\ Ticking' /\ ToastTimely'
  BY <1>1, <1>2, JustShown DEF take_screenshot
<1> QED
  BY <1>2, <1>3 DEF NotifyInv, NotifyTypeOK

LEMMA StopKeeps == ASSUME NotifyInv, Stop PROVE NotifyInv'
<1>1. /\ NoToast \in [active : BOOLEAN, expire : 0 .. Wrap - 1, title : Seq(Byte), body : Seq(Byte)]
      /\ ~NoToast.active
  BY NotifyAssumption DEF NoToast
<1>3. toast' = NoToast /\ shownFor' = 0 /\ wrapped' \in BOOLEAN /\ reader' \in BOOLEAN
  BY DEF Stop
<1>2. fifo' \in Seq(Byte) /\ Len(fifo') <= PipeSize
  BY NotifyAssumption DEF Stop, Kept, NotifyInv, NotifyTypeOK
<1>4. sender' = sender /\ clock' = clock
  BY DEF Stop
<1> QED
  BY <1>1, <1>2, <1>3, <1>4 DEF NotifyInv, NotifyTypeOK, Ticking, ToastTimely

(* Every toast is away in time, and what is in the FIFO fits it: for all   *)
(* texts, buffers, durations and any time between two rounds of the loop,  *)
(* however many programs send and however the clock wraps.                 *)
THEOREM ToastsLeaveInTime == NotifySpec => []NotifyInv
<1>1. NotifyInv /\ [NotifyNext]_notifyVars => NotifyInv'
  <2>1. NotifyInv /\ NotifyNext => NotifyInv'
    BY SenderKeeps, PumpKeeps, ScreenshotKeeps, StopKeeps DEF NotifyNext
  <2>2. NotifyInv /\ UNCHANGED notifyVars => NotifyInv'
    BY DEF notifyVars, NotifyInv, NotifyTypeOK, Ticking, ToastTimely
  <2> QED
    BY <2>1, <2>2
<1> QED
  BY <1>1, NotifyStarts, PTL DEF NotifySpec

(* A message that is all there is in the FIFO is read whole and split at   *)
(* its separator.                                                          *)
LEMMA LoneIsRead ==
    ASSUME NotifyInv, NEW s \in Sender, NEW gap \in 1 .. MaxGap, Pump(gap), fifo = Message(s), fifo' # fifo
    PROVE  /\ fifo' = <<>>
           /\ toast'.title = Copied(TextOf(s, "title"))
           /\ toast'.body  = Copied(TextOf(s, "body"))
<1> DEFINE m == Message(s)
           now == (clock + gap) % Wrap
           seps == {u \in DOMAIN m : m[u].part = "sep"}
<1>1. /\ m \in Seq(Byte) /\ Len(m) < MaxLen /\ Len(m) \in Nat /\ TitleLen[s] \in Nat
      /\ DOMAIN m = 1 .. Len(m)
      /\ \A u \in 1 .. Len(m) : m[u].part = "sep" <=> u = TitleLen[s] + 1
  BY MessageIs, NotifyAssumption
<1> HIDE DEF m
<1>2. ReadSize = Len(m) /\ SubSeq(m, 1, Len(m)) = m
  BY <1>1, SubSeqFull DEF ReadSize, m
<1>3. fifo' = <<>>
  <2>1. fifo' = SubSeq(m, Len(m) + 1, Len(m))
    BY <1>2 DEF Pump, m
  <2> QED
    BY <1>1, <2>1, SubSeqEmpty
<1>4. ShowText(now, m)
  <2>1. fifo # <<>>
    BY <1>3
  <2> QED
    BY <1>2, <2>1 DEF Pump, m
<1> HIDE DEF now
<1>5. \A t, b : toast_show(now, t, b) => toast'.title = Copied(t) /\ toast'.body = Copied(b)
  BY DEF toast_show
<1>6. CASE TitleLen[s] + 1 <= Len(m)
  <2>1. seps = {TitleLen[s] + 1}
    BY <1>1, <1>6
  <2> DEFINE spot == CHOOSE u \in seps : \A j \in seps : u <= j
  <2>2. spot = TitleLen[s] + 1
    BY <1>1, <2>1
  <2>6. seps # {}
    BY <2>1
  <2>7. toast_show(now, SubSeq(m, 1, spot - 1), SubSeq(m, spot + 1, Len(m)))
    BY <1>4, <2>6 DEF ShowText
  <2> HIDE DEF spot
  <2>3. toast'.title = Copied(SubSeq(m, 1, spot - 1)) /\ toast'.body = Copied(SubSeq(m, spot + 1, Len(m)))
    BY <1>5, <2>7
  <2>4. spot - 1 = TitleLen[s] /\ spot + 1 = TitleLen[s] + 2 /\ TitleLen[s] < Len(m)
    BY <1>1, <1>6, <2>2
  <2>5. TitleEnd(s) = TitleLen[s]
    BY <2>4 DEF TitleEnd, m
  <2> QED
    BY <1>3, <2>3, <2>4, <2>5 DEF TextOf, m
<1>7. CASE ~(TitleLen[s] + 1 <= Len(m))
  <2>1. seps = {}
    BY <1>1, <1>7
  <2>2. toast_show(now, m, <<>>)
    BY <1>4, <2>1 DEF ShowText
  <2>3. TitleEnd(s) = Len(m)
    BY <1>1, <1>7 DEF TitleEnd, m
  <2>4. SubSeq(m, Len(m) + 2, Len(m)) = <<>>
    BY <1>1, SubSeqEmpty
  <2> QED
    BY <1>2, <1>3, <1>5, <2>2, <2>3, <2>4 DEF TextOf, m
<1> QED
  BY <1>6, <1>7

(* A message that is alone in the FIFO when BotDesk reads it is shown as it *)
(* was sent, whatever the lengths of its texts: cut where the sender's     *)
(* buffer or the toast's ends, and nowhere else (botnotify.c, botdesk.c).  *)
THEOREM LoneMessagesAreShown == NotifySpec => LoneMessageShown
<1>1. NotifyInv /\ [NotifyNext]_notifyVars =>
          [\A s \in Sender : sender' = sender => LoneMessage(s)]_notifyVars
  <2> SUFFICES ASSUME NotifyInv, NotifyNext, NEW s \in Sender, sender' = sender,
                      fifo = Message(s), fifo' # fifo, reader, reader'
               PROVE  /\ fifo' = <<>>
                      /\ toast'.title = Copied(TextOf(s, "title"))
                      /\ toast'.body  = Copied(TextOf(s, "body"))
    BY DEF LoneMessage
  <2>1. \A r \in Sender : ~Open(r) /\ ~Send(r)
    <3> TAKE r \in Sender
    <3>1. sender \in [Sender -> SenderState]
      BY DEF NotifyInv, NotifyTypeOK
    <3> QED
      BY <3>1 DEF Open, Send
  <2>2. ~take_screenshot /\ ~Stop
    BY DEF take_screenshot, Stop
  <2>3. PICK gap \in 1 .. MaxGap : Pump(gap)
    BY <2>1, <2>2 DEF NotifyNext
  <2> QED
    BY <2>3, LoneIsRead
<1> QED
  BY <1>1, ToastsLeaveInTime, PTL DEF NotifySpec, LoneMessageShown

(***************************************************************************)
(* The drawing calls.  The inductive invariant says of a loop under way    *)
(* what it has drawn so far, and of a call that is done what it has drawn. *)
(***************************************************************************)

(* What a call holds. *)
CallShape ==
  /\ call.op \in {"none", "pixel", "line", "rect", "box", "circle", "disc"}
  /\ call.op = "line" => /\ call.x1 \in Int /\ call.y1 \in Int
                         /\ call.x2 \in Int /\ call.y2 \in Int
  /\ call.op \in {"rect", "box"} => /\ call.x1 \in Int /\ call.y1 \in Int
                                    /\ call.w \in Int /\ call.h \in Int
  /\ call.op \in {"circle", "disc"} => call.x1 \in Int /\ call.y1 \in Int /\ call.r \in Int
  /\ drawing \in BOOLEAN /\ x \in Int /\ y \in Int /\ err \in Int
  /\ drawing => call.op \in {"line", "circle", "disc"}

DrawInv == CallShape /\ CanvasInv

LEMMA AbsIs ==
  \A n \in Int : Abs(n) \in Nat /\ (n >= 0 => Abs(n) = n) /\ (n <= 0 => Abs(n) = -n)
  BY DEF Abs

LEMMA BoundsAre ==
  \A m, n \in Int : /\ Lower(m, n) \in Int /\ Lower(m, n) <= m /\ Lower(m, n) <= n
                    /\ Upper(m, n) \in Int /\ m <= Upper(m, n) /\ n <= Upper(m, n)
                    /\ (m <= n => Lower(m, n) = m /\ Upper(m, n) = n)
                    /\ (n <= m => Lower(m, n) = n /\ Upper(m, n) = m)
  BY DEF Lower, Upper

LEMMA PixelIs ==
  \A p \in Pixel : p[1] \in Int /\ p[2] \in Int /\ p = <<p[1], p[2]>>
  BY CanvasAssumption DEF Pixel

(* Where the writes of the parts of a call are. *)
LEMMA PutIs ==
  ASSUME NEW h \in [Pixel -> 0 .. 2], NEW q
  PROVE  /\ put_pixel(h, q) \in [Pixel -> 0 .. 2]
         /\ \A p \in Pixel : /\ put_pixel(h, q)[p] > 0 <=> h[p] > 0 \/ p = q
                             /\ p # q => put_pixel(h, q)[p] = h[p]
                             /\ p = q /\ h[p] = 0 => put_pixel(h, q)[p] = 1
<1>1. \A n \in 0 .. 2 : More(n) \in 1 .. 2 /\ (n = 0 => More(n) = 1)
  BY DEF More
<1>2. CASE q \in Pixel
  <2>1. put_pixel(h, q) = [h EXCEPT ![q] = More(h[q])]
    BY <1>2 DEF put_pixel
  <2>2. More(h[q]) \in 1 .. 2
    BY <1>1, <1>2
  <2> QED  BY <1>1, <1>2, <2>1, <2>2
<1>3. CASE q \notin Pixel
  BY <1>3 DEF put_pixel
<1> QED  BY <1>2, <1>3

LEMMA HlineIs ==
  ASSUME NEW h \in [Pixel -> 0 .. 2], NEW a \in Int, NEW b \in Int, NEW row \in Int
  PROVE  /\ hline(h, a, b, row) \in [Pixel -> 0 .. 2]
         /\ \A p \in Pixel :
              /\ hline(h, a, b, row)[p] > 0
                   <=> h[p] > 0 \/ (p[2] = row /\ Lower(a, b) <= p[1] /\ p[1] <= Upper(a, b))
              /\ h[p] = 0 => hline(h, a, b, row)[p] <= 1
<1>1. \A n \in 0 .. 2 : More(n) \in 1 .. 2 /\ (n = 0 => More(n) = 1)
  BY DEF More
<1>2. \A p \in Pixel : p[1] \in Int /\ p[2] \in Int
  BY PixelIs
<1> QED  BY <1>1, <1>2 DEF hline

LEMMA VlineIs ==
  ASSUME NEW h \in [Pixel -> 0 .. 2], NEW a \in Int, NEW b \in Int, NEW col \in Int
  PROVE  /\ vline(h, col, a, b) \in [Pixel -> 0 .. 2]
         /\ \A p \in Pixel :
              /\ vline(h, col, a, b)[p] > 0
                   <=> h[p] > 0 \/ (p[1] = col /\ Lower(a, b) <= p[2] /\ p[2] <= Upper(a, b))
              /\ h[p] = 0 => vline(h, col, a, b)[p] <= 1
<1>1. \A n \in 0 .. 2 : More(n) \in 1 .. 2 /\ (n = 0 => More(n) = 1)
  BY DEF More
<1>2. \A p \in Pixel : p[1] \in Int /\ p[2] \in Int
  BY PixelIs
<1> QED  BY <1>1, <1>2 DEF vline

LEMMA BlankIs == Blank \in [Pixel -> 0 .. 2] /\ \A p \in Pixel : Blank[p] = 0
  BY DEF Blank

(* The arithmetic of a line dx wide and dy high.  From u across and v down *)
(* the error e sends each step to u1 along the longer side, and to v1 along *)
(* the shorter when that is nearer; no step goes beyond the end.           *)
Turns(dx, dy, u, v, e, u1, v1) ==
  /\ 2 * e >= -dy => u < dx
  /\ 2 * e <= dx => v < dy
  /\ dx >= dy => 2 * e >= -dy
  /\ dx < dy => 2 * e <= dx
  /\ 2 * Abs(u1 * dy - v1 * dx) <= Upper(dx, dy)
  /\ e + (IF 2 * e >= -dy THEN -dy ELSE 0) + (IF 2 * e <= dx THEN dx ELSE 0)
       = dx - dy - (u1 * dy - v1 * dx)

LEMMA LineTurn ==
  ASSUME NEW dx \in Nat, NEW dy \in Nat, dx > 0, dy > 0, NEW u \in 0 .. dx, NEW v \in 0 .. dy,
         NEW e \in Int, e = dx - dy - (u * dy - v * dx), 2 * Abs(u * dy - v * dx) <= Upper(dx, dy),
         ~(u = dx /\ v = dy),
         NEW u1 \in Int, u1 = (IF 2 * e >= -dy THEN u + 1 ELSE u),
         NEW v1 \in Int, v1 = (IF 2 * e <= dx THEN v + 1 ELSE v)
  PROVE  Turns(dx, dy, u, v, e, u1, v1)
<1> USE DEF Turns
<1> DEFINE P == u * dy
           Q == v * dx
           d == P - Q
<1>1. P \in Int /\ Q \in Int /\ (u + 1) * dy = P + dy /\ (v + 1) * dx = Q + dx
  OBVIOUS
<1>2. /\ u < dx => P <= dx * dy - dy
      /\ u = dx => P = dx * dy
      /\ v < dy => Q <= dx * dy - dx
      /\ v = dy => Q = dx * dy
      /\ dx * dy \in Int
  <2>1. dx * dy \in Int
    OBVIOUS
  <2>2. ASSUME u < dx PROVE P <= dx * dy - dy
    <3>1. dx - 1 - u \in Nat /\ (dx - 1 - u) * dy >= 0
      BY <2>2
    <3>2. (dx - 1 - u) * dy = dx * dy - dy - P
      OBVIOUS
    <3> QED  BY <1>1, <2>1, <3>1, <3>2
  <2>3. ASSUME v < dy PROVE Q <= dx * dy - dx
    <3>1. dy - 1 - v \in Nat /\ (dy - 1 - v) * dx >= 0
      BY <2>3
    <3>2. (dy - 1 - v) * dx = dx * dy - dx - Q
      OBVIOUS
    <3> QED  BY <1>1, <2>1, <3>1, <3>2
  <2> QED  BY <2>1, <2>2, <2>3
<1>3. 2 * Abs(P - Q) <= Upper(dx, dy) /\ e = dx - dy - (P - Q)
  OBVIOUS
<1> HIDE DEF P, Q
<1>4. d \in Int /\ e = dx - dy - d /\ 2 * d <= Upper(dx, dy) /\ -2 * d <= Upper(dx, dy)
  <2>1. P - Q \in Int /\ Upper(dx, dy) \in Int
    BY <1>1, BoundsAre
  <2>2. Abs(P - Q) \in Nat /\ P - Q <= Abs(P - Q) /\ -(P - Q) <= Abs(P - Q)
    BY <2>1, AbsIs
  <2>3. 2 * (P - Q) <= Upper(dx, dy) /\ -2 * (P - Q) <= Upper(dx, dy)
    BY <1>3, <2>1, <2>2
  <2> QED  BY <1>3, <2>1, <2>3
<1>5. CASE dx >= dy
  <2>1. Upper(dx, dy) = dx
    BY <1>5, BoundsAre
  <2>2. 2 * d <= dx /\ -2 * d <= dx /\ 2 * e >= -dy
    BY <1>4, <1>5, <2>1
  <2>3. u < dx
    <3>1. CASE u = dx
      <4>1. v < dy
        BY <3>1
      <4>2. d >= dx
        BY <1>1, <1>2, <3>1, <4>1
      <4> QED  BY <2>2, <1>4, <4>2
    <3> QED  BY <3>1
  <2>4. 2 * e <= dx => v < dy
    <3>1. ASSUME 2 * e <= dx, v = dy PROVE FALSE
      <4>1. d <= -dy
        BY <1>1, <1>2, <2>3, <3>1
      <4> QED  BY <1>4, <1>5, <3>1, <4>1
    <3> QED  BY <3>1
  <2>5. CASE 2 * e <= dx
    <3>1. (u + 1) * dy - (v + 1) * dx = d + dy - dx
      BY <1>1
    <3>2. 2 * (d + dy - dx) <= dx /\ -2 * (d + dy - dx) <= dx
      BY <1>4, <1>5, <2>2, <2>5
    <3>3. 2 * Abs(d + dy - dx) <= dx
      BY <1>4, <3>2, AbsIs
    <3> HIDE DEF d
    <3> QED  BY <1>4, <1>5, <2>1, <2>2, <2>3, <2>4, <2>5, <3>1, <3>3
  <2>6. CASE ~(2 * e <= dx)
    <3>1. (u + 1) * dy - v * dx = d + dy
      BY <1>1 DEF Q
    <3>2. 2 * (d + dy) <= dx /\ -2 * (d + dy) <= dx
      BY <1>4, <1>5, <2>2, <2>6
    <3>3. 2 * Abs(d + dy) <= dx
      BY <1>4, <3>2, AbsIs
    <3> HIDE DEF d
    <3> QED  BY <1>4, <1>5, <2>1, <2>2, <2>3, <2>4, <2>6, <3>1, <3>3
  <2> QED  BY <2>5, <2>6
<1>6. CASE dx < dy
  <2>1. Upper(dx, dy) = dy
    BY <1>6, BoundsAre
  <2>2. 2 * d <= dy /\ -2 * d <= dy /\ 2 * e <= dx
    BY <1>4, <1>6, <2>1
  <2>3. v < dy
    <3>1. CASE v = dy
      <4>1. u < dx
        BY <3>1
      <4>2. d <= -dy
        BY <1>1, <1>2, <3>1, <4>1
      <4> QED  BY <2>2, <1>4, <4>2
    <3> QED  BY <3>1
  <2>4. 2 * e >= -dy => u < dx
    <3>1. ASSUME 2 * e >= -dy, u = dx PROVE FALSE
      <4>1. d >= dx
        BY <1>1, <1>2, <2>3, <3>1
      <4> QED  BY <1>4, <1>6, <3>1, <4>1
    <3> QED  BY <3>1
  <2>5. CASE 2 * e >= -dy
    <3>1. (u + 1) * dy - (v + 1) * dx = d + dy - dx
      BY <1>1
    <3>2. 2 * (d + dy - dx) <= dy /\ -2 * (d + dy - dx) <= dy
      BY <1>4, <1>6, <2>2, <2>5
    <3>3. 2 * Abs(d + dy - dx) <= dy
      BY <1>4, <3>2, AbsIs
    <3> HIDE DEF d
    <3> QED  BY <1>4, <1>6, <2>1, <2>2, <2>3, <2>4, <2>5, <3>1, <3>3
  <2>6. CASE ~(2 * e >= -dy)
    <3>1. u * dy - (v + 1) * dx = d - dx
      BY <1>1 DEF P
    <3>2. 2 * (d - dx) <= dy /\ -2 * (d - dx) <= dy
      BY <1>4, <1>6, <2>2, <2>6
    <3>3. 2 * Abs(d - dx) <= dy
      BY <1>4, <3>2, AbsIs
    <3> HIDE DEF d
    <3> QED  BY <1>4, <1>6, <2>1, <2>2, <2>3, <2>4, <2>6, <3>1, <3>3
  <2> QED  BY <2>5, <2>6
<1> QED  BY <1>5, <1>6

(* Two pixels of one column (or row) are not both near the line.           *)
LEMMA OneIsNear ==
  ASSUME NEW w \in Nat, NEW c \in Int, NEW m \in Int, NEW n \in Int, m # n,
         2 * Abs(c - m * w) <= w
  PROVE  2 * Abs(c - n * w) >= w
<1> DEFINE M == m * w
           N == n * w
<1>1. M \in Int /\ N \in Int
  OBVIOUS
<1>2. M - N >= w \/ N - M >= w
  <2>1. CASE m > n
    <3>1. m - n - 1 \in Nat /\ (m - n - 1) * w >= 0
      BY <2>1
    <3>2. (m - n - 1) * w = M - N - w
      OBVIOUS
    <3> QED  BY <1>1, <3>1, <3>2
  <2>2. CASE m < n
    <3>1. n - m - 1 \in Nat /\ (n - m - 1) * w >= 0
      BY <2>2
    <3>2. (n - m - 1) * w = N - M - w
      OBVIOUS
    <3> QED  BY <1>1, <3>1, <3>2
  <2> QED  BY <2>1, <2>2
<1>3. 2 * Abs(c - M) <= w
  OBVIOUS
<1> HIDE DEF M, N
<1>4. 2 * (c - M) <= w /\ -2 * (c - M) <= w
  BY <1>1, <1>3, AbsIs
<1>5. 2 * (c - N) >= w \/ -2 * (c - N) >= w
  BY <1>1, <1>2, <1>4
<1>6. 2 * Abs(c - N) >= w
  BY <1>1, <1>5, AbsIs
<1> QED  BY <1>6 DEF N

(* One coordinate a of a line from s to t: how far it is, and its next.    *)
LEMMA Along ==
  ASSUME NEW s \in Int, NEW t \in Int, NEW a \in Int, Lower(s, t) <= a, a <= Upper(s, t)
  PROVE  /\ Abs(a - s) \in 0 .. Abs(t - s)
         /\ Abs(a - s) = Abs(t - s) <=> a = t
         /\ Abs(a - s) < Abs(t - s) =>
              /\ Abs(a + Sign(s, t) - s) = Abs(a - s) + 1
              /\ Lower(s, t) <= a + Sign(s, t) /\ a + Sign(s, t) <= Upper(s, t)
         /\ \A c \in Int : Lower(s, t) <= c /\ c <= Upper(s, t) /\ Abs(c - s) = Abs(a - s) => c = a
<1>1. CASE s < t
  BY <1>1 DEF Abs, Lower, Upper, Sign
<1>2. CASE ~(s < t)
  BY <1>2 DEF Abs, Lower, Upper, Sign
<1> QED  BY <1>1, <1>2

LEMMA SignIs == \A m, n \in Int : Sign(m, n) \in Int
  BY DEF Sign

(* What a step reads of the line.                                          *)
LEMMA LineIs ==
  ASSUME CallShape, call.op = "line"
  PROVE  /\ Across \in Nat /\ Down \in Nat
         /\ \A p : p[1] \in Int /\ p[2] \in Int /\ Between(p) =>
              /\ From(p)[1] \in 0 .. Across /\ From(p)[2] \in 0 .. Down
              /\ From(p)[1] = Across <=> p[1] = call.x2
              /\ From(p)[2] = Down <=> p[2] = call.y2
              /\ Slip(p) = From(p)[1] * Down - From(p)[2] * Across
         /\ \A p, q : p[1] \in Int /\ p[2] \in Int /\ q[1] \in Int /\ q[2] \in Int
                      /\ Between(p) /\ Between(q) =>
              /\ From(p)[1] = From(q)[1] => p[1] = q[1]
              /\ From(p)[2] = From(q)[2] => p[2] = q[2]
<1>1. call.x1 \in Int /\ call.y1 \in Int /\ call.x2 \in Int /\ call.y2 \in Int
  BY DEF CallShape
<1>2. Across \in Nat /\ Down \in Nat
  BY <1>1, AbsIs DEF Across, Down
<1>3. ASSUME NEW p, p[1] \in Int, p[2] \in Int, Between(p)
      PROVE  /\ From(p)[1] \in 0 .. Across /\ From(p)[2] \in 0 .. Down
             /\ From(p)[1] = Across <=> p[1] = call.x2
             /\ From(p)[2] = Down <=> p[2] = call.y2
             /\ Slip(p) = From(p)[1] * Down - From(p)[2] * Across
  <2>1. Abs(p[1] - call.x1) \in 0 .. Abs(call.x2 - call.x1)
        /\ (Abs(p[1] - call.x1) = Abs(call.x2 - call.x1) <=> p[1] = call.x2)
    BY <1>1, <1>3, Along DEF Between
  <2>2. Abs(p[2] - call.y1) \in 0 .. Abs(call.y2 - call.y1)
        /\ (Abs(p[2] - call.y1) = Abs(call.y2 - call.y1) <=> p[2] = call.y2)
    BY <1>1, <1>3, Along DEF Between
  <2> QED  BY <2>1, <2>2 DEF From, Across, Down, Slip
<1>4. ASSUME NEW p, NEW q, p[1] \in Int, p[2] \in Int, q[1] \in Int, q[2] \in Int,
             Between(p), Between(q)
      PROVE  /\ From(p)[1] = From(q)[1] => p[1] = q[1]
             /\ From(p)[2] = From(q)[2] => p[2] = q[2]
  <2>1. Abs(p[1] - call.x1) = Abs(q[1] - call.x1) => p[1] = q[1]
    BY <1>1, <1>4, Along DEF Between
  <2>2. Abs(p[2] - call.y1) = Abs(q[2] - call.y1) => p[2] = q[2]
    BY <1>1, <1>4, Along DEF Between
  <2> QED  BY <2>1, <2>2 DEF From
<1> QED  BY <1>2, <1>3, <1>4

(* A pixel in the column (row) of the loop's point that is near is it.     *)
LEMMA NearIsHere ==
  ASSUME CallShape, call.op = "line", NEW q, q[1] \in Int, q[2] \in Int, Between(q),
         2 * Abs(Slip(q)) <= Upper(Across, Down),
         NEW p, p[1] \in Int, p[2] \in Int, Between(p),
         2 * Abs(Slip(p)) < Upper(Across, Down),
         IF Across >= Down THEN From(p)[1] = From(q)[1] ELSE From(p)[2] = From(q)[2]
  PROVE  p[1] = q[1] /\ p[2] = q[2]
<1> DEFINE w == Across
           h == Down
           u == From(q)[1]
           j == From(q)[2]
           k == From(p)[1]
           l == From(p)[2]
<1>1. /\ w \in Nat /\ h \in Nat /\ u \in Nat /\ j \in Nat /\ k \in Nat /\ l \in Nat
      /\ Slip(q) = u * h - j * w /\ Slip(p) = k * h - l * w
  BY LineIs
<1>2. k = u => p[1] = q[1]
  BY LineIs
<1>3. l = j => p[2] = q[2]
  BY LineIs
<1> HIDE DEF w, h, u, j, k, l
<1>4. CASE w >= h
  <2>1. k = u /\ Upper(w, h) = w
    BY <1>1, <1>4, BoundsAre DEF w, h, u, j, k, l
  <2>2. 2 * Abs(u * h - j * w) <= w /\ 2 * Abs(u * h - l * w) < w
    BY <1>1, <2>1 DEF w, h
  <2>3. u * h \in Int /\ j \in Int /\ l \in Int
    BY <1>1
  <2>4. ASSUME l # j PROVE FALSE
    <3>1. 2 * Abs(u * h - l * w) >= w
      BY <1>1, <2>2, <2>3, <2>4, OneIsNear
    <3>2. u * h - l * w \in Int
      BY <1>1
    <3> HIDE DEF u, h, l, w
    <3>3. Abs(u * h - l * w) \in Nat
      BY <3>2, AbsIs
    <3> QED  BY <1>1, <2>2, <3>1, <3>3
  <2> QED  BY <1>2, <1>3, <2>1, <2>4
<1>5. CASE w < h
  <2>1. l = j /\ Upper(w, h) = h
    BY <1>1, <1>5, BoundsAre DEF w, h, u, j, k, l
  <2>2. 2 * Abs(u * h - j * w) <= h /\ 2 * Abs(k * h - j * w) < h
    BY <1>1, <2>1 DEF w, h
  <2>3. /\ u * h \in Int /\ j * w \in Int /\ k * h \in Int
        /\ u \in Int /\ k \in Int
    BY <1>1
  <2>4. /\ Abs(j * w - u * h) = Abs(u * h - j * w) /\ Abs(j * w - k * h) = Abs(k * h - j * w)
    <3>1. \A m, n \in Int : Abs(m - n) = Abs(n - m)
      BY DEF Abs
    <3> QED  BY <2>3, <3>1
  <2>5. ASSUME k # u PROVE FALSE
    <3>1. 2 * Abs(j * w - k * h) >= h
      BY <1>1, <2>2, <2>3, <2>4, <2>5, OneIsNear
    <3>2. k * h - j * w \in Int
      BY <2>3
    <3>3. Abs(k * h - j * w) \in Nat
      BY <3>2, AbsIs
    <3> QED  BY <1>1, <2>2, <2>4, <3>1, <3>3
  <2> QED  BY <1>2, <1>3, <2>1, <2>5
<1> QED  BY <1>1, <1>4, <1>5

(* A step of the loop of a line that is under way.                         *)
LEMMA LineKeeps ==
  ASSUME DrawInv, LineStep
  PROVE  DrawInv'
<1> DEFINE spot == <<x, y>>
           wide == Across
           high == Down
           u == From(spot)[1]
           j == From(spot)[2]
           passed(p) == IF wide >= high THEN From(p)[1] < u ELSE From(p)[2] < j
<1>1. /\ CallShape /\ CanvasTypeOK /\ LineGoesOn /\ TouchedOnce
      /\ drawing /\ call.op = "line" /\ call' = call
      /\ hits \in [Pixel -> 0 .. 2] /\ hits' = put_pixel(hits, spot)
  BY DEF DrawInv, CanvasInv, CanvasTypeOK, LineStep
<1>2. spot[1] = x /\ spot[2] = y /\ x \in Int /\ y \in Int /\ err \in Int /\ Between(spot)
  BY <1>1 DEF CallShape, CanvasTypeOK
<1>3. /\ wide \in Nat /\ high \in Nat /\ wide > 0 /\ high > 0 /\ u \in 0 .. wide /\ j \in 0 .. high
      /\ Slip(spot) = u * high - j * wide /\ err = wide - high - (u * high - j * wide)
      /\ 2 * Abs(u * high - j * wide) <= Upper(wide, high)
      /\ u = wide <=> x = call.x2
      /\ j = high <=> y = call.y2
  <2>1. wide \in Nat /\ high \in Nat /\ u \in 0 .. wide /\ j \in 0 .. high /\ Slip(spot) = u * high - j * wide
    BY <1>1, <1>2, LineIs
  <2>2. (u = wide <=> x = call.x2) /\ (j = high <=> y = call.y2)
    BY <1>1, <1>2, LineIs
  <2>3. wide > 0 /\ high > 0 /\ err = wide - high - Slip(spot) /\ 2 * Abs(Slip(spot)) <= Upper(wide, high)
    BY <1>1 DEF LineGoesOn
  <2> HIDE DEF wide, high, u, j
  <2> QED  BY <2>1, <2>2, <2>3
<1>4. \A p \in Pixel :
         /\ hits[p] > 0 => Between(p) /\ passed(p) /\ 2 * Abs(Slip(p)) <= Upper(wide, high)
         /\ Between(p) /\ passed(p) /\ 2 * Abs(Slip(p)) < Upper(wide, high) => hits[p] > 0
         /\ hits[p] \in 0 .. 1
  BY <1>1 DEF LineGoesOn, TouchedOnce
<1>5. /\ hits' \in [Pixel -> 0 .. 2]
      /\ \A p \in Pixel : /\ hits'[p] > 0 <=> hits[p] > 0 \/ p = spot
                          /\ p # spot => hits'[p] = hits[p]
                          /\ p = spot /\ hits[p] = 0 => hits'[p] = 1
  BY <1>1, PutIs
<1>6. ~passed(spot)
  BY <1>3
<1>7. \A p \in Pixel : hits'[p] <= 1
  <2> SUFFICES ASSUME NEW p \in Pixel PROVE hits'[p] <= 1
    OBVIOUS
  <2>1. CASE p = spot
    <3>1. ~(hits[p] > 0) /\ hits[p] \in 0 .. 1
      BY <1>4, <1>6, <2>1
    <3> QED  BY <1>5, <2>1, <3>1
  <2>2. CASE p # spot
    BY <1>4, <1>5, <2>2
  <2> QED  BY <2>1, <2>2
(* The pixels of the columns (rows) passed, and of this one.               *)
<1> DEFINE here(p) == IF wide >= high THEN From(p)[1] = u ELSE From(p)[2] = j
<1>8. \A p \in Pixel :
         /\ hits'[p] > 0 => Between(p) /\ (passed(p) \/ here(p)) /\ 2 * Abs(Slip(p)) <= Upper(wide, high)
         /\ Between(p) /\ (passed(p) \/ here(p)) /\ 2 * Abs(Slip(p)) < Upper(wide, high) => hits'[p] > 0
  <2> SUFFICES ASSUME NEW p \in Pixel
               PROVE  /\ hits'[p] > 0 => Between(p) /\ (passed(p) \/ here(p))
                                         /\ 2 * Abs(Slip(p)) <= Upper(wide, high)
                      /\ Between(p) /\ (passed(p) \/ here(p)) /\ 2 * Abs(Slip(p)) < Upper(wide, high)
                           => hits'[p] > 0
    OBVIOUS
  <2>1. ASSUME hits'[p] > 0
        PROVE  Between(p) /\ (passed(p) \/ here(p)) /\ 2 * Abs(Slip(p)) <= Upper(wide, high)
    <3>1. CASE hits[p] > 0
      BY <1>4, <3>1
    <3>2. CASE p = spot
      <4>1. 2 * Abs(Slip(p)) <= Upper(wide, high)
        BY <1>3, <3>2
      <4>2. here(p) /\ Between(p)
        BY <1>2, <3>2
      <4> QED  BY <4>1, <4>2
    <3> QED  BY <1>5, <2>1, <3>1, <3>2
  <2>2. ASSUME Between(p), passed(p) \/ here(p), 2 * Abs(Slip(p)) < Upper(wide, high)
        PROVE  hits'[p] > 0
    <3>1. CASE passed(p)
      <4>1. hits[p] > 0
        BY <1>4, <2>2, <3>1
      <4> QED  BY <1>5, <4>1
    <3>2. CASE here(p)
      <4>1. p[1] \in Int /\ p[2] \in Int /\ p = <<p[1], p[2]>>
        BY PixelIs
      <4>2. 2 * Abs(Slip(spot)) <= Upper(Across, Down)
        BY <1>3
      <4>3. IF Across >= Down THEN From(p)[1] = From(spot)[1] ELSE From(p)[2] = From(spot)[2]
        BY <3>2
      <4> HIDE DEF spot
      <4>4. p[1] = spot[1] /\ p[2] = spot[2]
        BY <1>1, <1>2, <2>2, <4>1, <4>2, <4>3, NearIsHere
      <4> USE DEF spot
      <4>5. p = spot
        BY <1>2, <4>1, <4>4
      <4> QED  BY <1>5, <4>5
    <3> QED  BY <2>2, <3>1, <3>2
  <2> QED  BY <2>1, <2>2
<1>9. /\ Across' = Across /\ Down' = Down
      /\ \A p : From(p)' = From(p) /\ (Between(p)' <=> Between(p)) /\ Slip(p)' = Slip(p)
  BY <1>1 DEF Across, Down, From, Between, Slip
<1>10. CASE x = call.x2 /\ y = call.y2
  <2>1. drawing' = FALSE /\ UNCHANGED <<x, y, err>>
    BY <1>10 DEF LineStep
  <2>2. u = wide /\ j = high
    BY <1>3, <1>10
  <2>3. CallShape'
    BY <1>1, <2>1 DEF CallShape
  <2>4. CanvasTypeOK'
    BY <1>5, <2>1 DEF CanvasTypeOK
  <2>5. LineGoesOn'
    BY <2>1 DEF LineGoesOn
  <2>6. LineIsNearest'
    <3>1. \A p \in Pixel : Between(p) => passed(p) \/ here(p)
      <4> SUFFICES ASSUME NEW p \in Pixel, Between(p) PROVE passed(p) \/ here(p)
        OBVIOUS
      <4>1. p[1] \in Int /\ p[2] \in Int
        BY PixelIs
      <4>2. From(p)[1] \in 0 .. wide /\ From(p)[2] \in 0 .. high
        BY <1>1, <4>1, LineIs
      <4> HIDE DEF wide, high, u, j
      <4> QED  BY <1>3, <2>2, <4>2
    <3>2. \A p \in Pixel :
             /\ hits'[p] > 0 => Between(p) /\ 2 * Abs(Slip(p)) <= Upper(Across, Down)
             /\ Between(p) /\ 2 * Abs(Slip(p)) < Upper(Across, Down) => hits'[p] > 0
      <4> HIDE DEF passed, here
      <4> QED  BY <1>8, <3>1
    <3> HIDE DEF wide, high, u, j, passed, here
    <3>3. \A p \in Pixel :
             /\ hits'[p] > 0 => Between(p)' /\ 2 * Abs(Slip(p)') <= Upper(Across', Down')
             /\ Between(p)' /\ 2 * Abs(Slip(p)') < Upper(Across', Down') => hits'[p] > 0
      BY <1>9, <3>2
    <3> QED  BY <3>3 DEF LineIsNearest
  <2>7. TouchedOnce'
    BY <1>7 DEF TouchedOnce
  <2>8. call'.op = "line"
    BY <1>1
  <2> QED
    BY <2>3, <2>4, <2>5, <2>6, <2>7, <2>8
    DEF DrawInv, CanvasInv, CircleGoesOn, CircleIsRound, DiscIsFull, RectIsFrame, BlendBetween,
        Drawn
<1>11. CASE ~(x = call.x2 /\ y = call.y2)
  <2> DEFINE m == IF 2 * err >= -high THEN u + 1 ELSE u
             n == IF 2 * err <= wide THEN j + 1 ELSE j
             next == <<x', y'>>
  <2>1. /\ drawing' = TRUE
        /\ x' = IF 2 * err >= -high THEN x + Sign(call.x1, call.x2) ELSE x
        /\ y' = IF 2 * err <= wide THEN y + Sign(call.y1, call.y2) ELSE y
        /\ err' = err + (IF 2 * err >= -high THEN -high ELSE 0) + (IF 2 * err <= wide THEN wide ELSE 0)
    BY <1>1, <1>11 DEF LineStep, Across, Down
  <2>2. ~(u = wide /\ j = high)
    BY <1>3, <1>11
  <2>3. /\ 2 * err >= -high => u < wide
        /\ 2 * err <= wide => j < high
        /\ wide >= high => 2 * err >= -high
        /\ wide < high => 2 * err <= wide
        /\ 2 * Abs(m * high - n * wide) <= Upper(wide, high)
        /\ err' = wide - high - (m * high - n * wide)
    <3>1. /\ 2 * err >= -high => u < wide
          /\ 2 * err <= wide => j < high
          /\ wide >= high => 2 * err >= -high
          /\ wide < high => 2 * err <= wide
          /\ 2 * Abs(m * high - n * wide) <= Upper(wide, high)
          /\ err + (IF 2 * err >= -high THEN -high ELSE 0) + (IF 2 * err <= wide THEN wide ELSE 0)
               = wide - high - (m * high - n * wide)
      <4>1. m = (IF 2 * err >= -high THEN u + 1 ELSE u) /\ n = (IF 2 * err <= wide THEN j + 1 ELSE j)
        OBVIOUS
      <4> HIDE DEF wide, high, u, j, m, n
      <4>2. /\ wide \in Nat /\ high \in Nat /\ wide > 0 /\ high > 0 /\ u \in 0 .. wide /\ j \in 0 .. high
            /\ err \in Int /\ err = wide - high - (u * high - j * wide)
            /\ 2 * Abs(u * high - j * wide) <= Upper(wide, high)
        BY <1>2, <1>3
      <4>3. m \in Int /\ n \in Int
        BY <4>1, <4>2
      <4>4. Turns(wide, high, u, j, err, m, n)
        BY <2>2, <4>1, <4>2, <4>3, LineTurn
      <4> QED  BY <4>4 DEF Turns
    <3> HIDE DEF wide, high, u, j, m, n
    <3> QED  BY <2>1, <3>1
  <2>4. x' \in Int /\ y' \in Int /\ err' \in Int
    <3>1. Sign(call.x1, call.x2) \in Int /\ Sign(call.y1, call.y2) \in Int
      BY <1>1, SignIs DEF CallShape
    <3> HIDE DEF wide, high, u, j
    <3> QED  BY <1>2, <1>3, <2>1, <3>1
  <2>5. Between(next) /\ From(next)[1] = m /\ From(next)[2] = n
    <3>1. /\ call.x1 \in Int /\ call.x2 \in Int
          /\ Lower(call.x1, call.x2) <= x /\ x <= Upper(call.x1, call.x2)
      BY <1>1, <1>2 DEF CallShape, Between
    <3>2. /\ call.y1 \in Int /\ call.y2 \in Int
          /\ Lower(call.y1, call.y2) <= y /\ y <= Upper(call.y1, call.y2)
      BY <1>1, <1>2 DEF CallShape, Between
    <3>3. u = Abs(x - call.x1) /\ j = Abs(y - call.y1)
      BY DEF From
    <3>4. /\ Lower(call.x1, call.x2) <= x' /\ x' <= Upper(call.x1, call.x2)
          /\ Abs(x' - call.x1) = m
      <4>1. CASE 2 * err >= -high
        <5>1. x' = x + Sign(call.x1, call.x2) /\ Abs(x - call.x1) < Abs(call.x2 - call.x1)
              /\ m = Abs(x - call.x1) + 1
          BY <2>1, <2>3, <3>3, <4>1 DEF Across
        <5>2. /\ Abs(x + Sign(call.x1, call.x2) - call.x1) = Abs(x - call.x1) + 1
              /\ Lower(call.x1, call.x2) <= x + Sign(call.x1, call.x2)
              /\ x + Sign(call.x1, call.x2) <= Upper(call.x1, call.x2)
          BY <1>2, <3>1, <5>1, Along
        <5>3. Sign(call.x1, call.x2) \in Int
          BY <3>1, SignIs
        <5> HIDE DEF m
        <5> QED  BY <1>2, <2>4, <3>1, <5>1, <5>2, <5>3
      <4>2. CASE ~(2 * err >= -high)
        <5>1. x' = x /\ m = Abs(x - call.x1)
          BY <2>1, <3>3, <4>2
        <5> HIDE DEF m
        <5> QED  BY <3>1, <5>1
      <4> QED  BY <4>1, <4>2
    <3>5. /\ Lower(call.y1, call.y2) <= y' /\ y' <= Upper(call.y1, call.y2)
          /\ Abs(y' - call.y1) = n
      <4>1. CASE 2 * err <= wide
        <5>1. y' = y + Sign(call.y1, call.y2) /\ Abs(y - call.y1) < Abs(call.y2 - call.y1)
              /\ n = Abs(y - call.y1) + 1
          BY <2>1, <2>3, <3>3, <4>1 DEF Down
        <5>2. /\ Abs(y + Sign(call.y1, call.y2) - call.y1) = Abs(y - call.y1) + 1
              /\ Lower(call.y1, call.y2) <= y + Sign(call.y1, call.y2)
              /\ y + Sign(call.y1, call.y2) <= Upper(call.y1, call.y2)
          BY <1>2, <3>2, <5>1, Along
        <5>3. Sign(call.y1, call.y2) \in Int
          BY <3>2, SignIs
        <5> HIDE DEF n
        <5> QED  BY <1>2, <2>4, <3>2, <5>1, <5>2, <5>3
      <4>2. CASE ~(2 * err <= wide)
        <5>1. y' = y /\ n = Abs(y - call.y1)
          BY <2>1, <3>3, <4>2
        <5> HIDE DEF n
        <5> QED  BY <3>2, <5>1
      <4> QED  BY <4>1, <4>2
    <3> QED  BY <3>4, <3>5 DEF Between, From
  <2>6. CallShape'
    BY <1>1, <2>1, <2>4 DEF CallShape
  <2>7. CanvasTypeOK'
    BY <1>1, <1>5, <1>9, <2>5 DEF CanvasTypeOK
  <2>8. LineGoesOn'
    <3>1. Slip(next) = m * high - n * wide
      BY <1>1, <2>4, <2>5, LineIs
    <3>2. err' = wide - high - Slip(next) /\ 2 * Abs(Slip(next)) <= Upper(wide, high)
      BY <2>3, <3>1
    <3>3. \A p \in Pixel : Between(p) =>
             (passed(p) \/ here(p)
                <=> IF wide >= high THEN From(p)[1] < From(next)[1] ELSE From(p)[2] < From(next)[2])
      <4> SUFFICES ASSUME NEW p \in Pixel, Between(p)
                   PROVE  passed(p) \/ here(p)
                            <=> IF wide >= high THEN From(p)[1] < m ELSE From(p)[2] < n
        BY <2>5
      <4>1. p[1] \in Int /\ p[2] \in Int
        BY PixelIs
      <4>2. From(p)[1] \in 0 .. wide /\ From(p)[2] \in 0 .. high
        BY <1>1, <4>1, LineIs
      <4> HIDE DEF wide, high, u, j
      <4> QED  BY <1>3, <2>3, <4>2
    <3>4. \A p \in Pixel :
             LET ahead == IF wide >= high THEN From(p)[1] < From(next)[1] ELSE From(p)[2] < From(next)[2]
             IN /\ hits'[p] > 0 => Between(p) /\ ahead /\ 2 * Abs(Slip(p)) <= Upper(wide, high)
                /\ Between(p) /\ ahead /\ 2 * Abs(Slip(p)) < Upper(wide, high) => hits'[p] > 0
      <4> HIDE DEF passed, here
      <4> QED  BY <1>8, <3>3
    <3>5. PICK q : q = next
      OBVIOUS
    <3>6. /\ Across > 0 /\ Down > 0
          /\ err' = Across - Down - Slip(q) /\ 2 * Abs(Slip(q)) <= Upper(Across, Down)
          /\ \A p \in Pixel :
                LET ahead == IF Across >= Down THEN From(p)[1] < From(q)[1] ELSE From(p)[2] < From(q)[2]
                IN /\ hits'[p] > 0 => Between(p) /\ ahead /\ 2 * Abs(Slip(p)) <= Upper(Across, Down)
                   /\ Between(p) /\ ahead /\ 2 * Abs(Slip(p)) < Upper(Across, Down) => hits'[p] > 0
      <4> HIDE DEF next, passed, here, m, n
      <4> QED  BY <1>3, <3>2, <3>4, <3>5
    <3> HIDE DEF next, passed, here, m, n, wide, high, u, j
    <3>7. /\ Across' > 0 /\ Down' > 0
          /\ err' = Across' - Down' - Slip(q)' /\ 2 * Abs(Slip(q)') <= Upper(Across', Down')
          /\ \A p \in Pixel :
                LET ahead == IF Across' >= Down' THEN From(p)'[1] < From(q)'[1]
                             ELSE From(p)'[2] < From(q)'[2]
                IN /\ hits'[p] > 0 => Between(p)' /\ ahead /\ 2 * Abs(Slip(p)') <= Upper(Across', Down')
                   /\ Between(p)' /\ ahead /\ 2 * Abs(Slip(p)') < Upper(Across', Down') => hits'[p] > 0
      BY <1>9, <3>6
    <3>8. q = <<x', y'>>
      BY <3>5 DEF next
    <3> QED  BY <3>7, <3>8 DEF LineGoesOn
  <2>9. LineIsNearest'
    BY <2>1 DEF LineIsNearest, Drawn
  <2>10. TouchedOnce'
    BY <1>7 DEF TouchedOnce
  <2>11. call'.op = "line"
    BY <1>1
  <2> QED
    BY <2>6, <2>7, <2>8, <2>9, <2>10, <2>11
    DEF DrawInv, CanvasInv, CircleGoesOn, CircleIsRound, DiscIsFull, RectIsFrame, BlendBetween,
        Drawn
<1> QED  BY <1>10, <1>11

(* A circle: squares, the pixels of a step and the arithmetic of its loop. *)
LEMMA SquareIs ==
  ASSUME NEW a \in Nat, NEW c \in Nat
  PROVE  /\ a * a \in Nat
         /\ a <= c => a * a <= c * c
         /\ a < c => a * a + a + c <= c * c
<1>1. a * a \in Nat /\ c * c \in Nat
  <2>1. \A m \in Nat : m * m >= 0
    OBVIOUS
  <2> QED  BY <2>1
<1>2. a < c => a * a + a + c <= c * c
  <2> SUFFICES ASSUME a < c PROVE a * a + a + c <= c * c
    OBVIOUS
  <2>1. c - a - 1 \in Nat /\ c + a \in Nat
    OBVIOUS
  <2>2. (c - a - 1) * (c + a) >= 0
    BY <2>1
  <2>3. (c - a - 1) * (c + a) = c * c - a * a - c - a
    OBVIOUS
  <2> QED  BY <1>1, <2>2, <2>3
<1> QED  BY <1>1, <1>2

LEMMA PutFour ==
  ASSUME NEW h \in [Pixel -> 0 .. 2], NEW a, NEW b, NEW c, NEW d
  PROVE  /\ put_pixel(put_pixel(put_pixel(put_pixel(h, a), b), c), d) \in [Pixel -> 0 .. 2]
         /\ \A p \in Pixel : put_pixel(put_pixel(put_pixel(put_pixel(h, a), b), c), d)[p] > 0
                               <=> h[p] > 0 \/ p \in {a, b, c, d}
<1> DEFINE h1 == put_pixel(h, a)
           h2 == put_pixel(h1, b)
           h3 == put_pixel(h2, c)
           h4 == put_pixel(h3, d)
<1>1. h1 \in [Pixel -> 0 .. 2] /\ \A p \in Pixel : h1[p] > 0 <=> h[p] > 0 \/ p = a
  BY PutIs
<1> HIDE DEF h1
<1>2. h2 \in [Pixel -> 0 .. 2] /\ \A p \in Pixel : h2[p] > 0 <=> h1[p] > 0 \/ p = b
  BY <1>1, PutIs
<1> HIDE DEF h2
<1>3. h3 \in [Pixel -> 0 .. 2] /\ \A p \in Pixel : h3[p] > 0 <=> h2[p] > 0 \/ p = c
  BY <1>2, PutIs
<1> HIDE DEF h3
<1>4. h4 \in [Pixel -> 0 .. 2] /\ \A p \in Pixel : h4[p] > 0 <=> h3[p] > 0 \/ p = d
  BY <1>3, PutIs
<1> HIDE DEF h4
<1>5. h4 \in [Pixel -> 0 .. 2] /\ \A p \in Pixel : h4[p] > 0 <=> h[p] > 0 \/ p \in {a, b, c, d}
  BY <1>1, <1>2, <1>3, <1>4
<1> QED  BY <1>5 DEF h1, h2, h3, h4

(* The four corners at a distance.                                         *)
LEMMA Corners ==
  ASSUME CallShape, call.op \in {"circle", "disc"}, NEW p \in Pixel, NEW a \in Nat, NEW b \in Nat
  PROVE  p \in {<<call.x1 + a, call.y1 + b>>, <<call.x1 - a, call.y1 + b>>,
                <<call.x1 + a, call.y1 - b>>, <<call.x1 - a, call.y1 - b>>}
           <=> From(p)[1] = a /\ From(p)[2] = b
<1>1. call.x1 \in Int /\ call.y1 \in Int
  BY DEF CallShape
<1>2. p[1] \in Int /\ p[2] \in Int /\ p = <<p[1], p[2]>>
  BY PixelIs
<1>3. Abs(p[1] - call.x1) = a <=> p[1] = call.x1 + a \/ p[1] = call.x1 - a
  BY <1>1, <1>2 DEF Abs
<1>4. Abs(p[2] - call.y1) = b <=> p[2] = call.y1 + b \/ p[2] = call.y1 - b
  BY <1>1, <1>2 DEF Abs
<1>5. \A m, n : p = <<m, n>> <=> p[1] = m /\ p[2] = n
  BY <1>2
<1> QED  BY <1>3, <1>4, <1>5 DEF From

LEMMA FromIs ==
  ASSUME CallShape, call.op \in {"circle", "disc"}, NEW p \in Pixel
  PROVE  From(p)[1] \in Nat /\ From(p)[2] \in Nat
<1>1. call.x1 \in Int /\ call.y1 \in Int
  BY DEF CallShape
<1>2. p[1] \in Int /\ p[2] \in Int
  BY PixelIs
<1>3. p[1] - call.x1 \in Int /\ p[2] - call.y1 \in Int
  BY <1>1, <1>2
<1> QED  BY <1>3, AbsIs DEF From

(* The eight points of a step on the circle.                               *)
LEMMA PointsAre ==
  ASSUME CallShape, call.op = "circle", hits \in [Pixel -> 0 .. 2], x \in Nat, y \in Nat
  PROVE  /\ Plotted \in [Pixel -> 0 .. 2]
         /\ \A p \in Pixel : Plotted[p] > 0 <=> \/ hits[p] > 0
                                                \/ From(p)[1] = x /\ From(p)[2] = y
                                                \/ From(p)[1] = y /\ From(p)[2] = x
<1> DEFINE cx == call.x1
           cy == call.y1
           h4 == put_pixel(put_pixel(put_pixel(put_pixel(hits, <<cx + x, cy + y>>),
                   <<cx - x, cy + y>>), <<cx + x, cy - y>>), <<cx - x, cy - y>>)
           h8 == put_pixel(put_pixel(put_pixel(put_pixel(h4, <<cx + y, cy + x>>),
                   <<cx - y, cy + x>>), <<cx + y, cy - x>>), <<cx - y, cy - x>>)
<1>1. Plotted = h8
  BY DEF Plotted
<1>2. /\ h4 \in [Pixel -> 0 .. 2]
      /\ \A p \in Pixel : h4[p] > 0 <=> hits[p] > 0 \/ p \in
           {<<cx + x, cy + y>>, <<cx - x, cy + y>>, <<cx + x, cy - y>>, <<cx - x, cy - y>>}
  BY PutFour
<1> HIDE DEF h4
<1>3. /\ h8 \in [Pixel -> 0 .. 2]
      /\ \A p \in Pixel : h8[p] > 0 <=> h4[p] > 0 \/ p \in
           {<<cx + y, cy + x>>, <<cx - y, cy + x>>, <<cx + y, cy - x>>, <<cx - y, cy - x>>}
  BY <1>2, PutFour
<1> HIDE DEF h8
<1>4. \A p \in Pixel : h4[p] > 0 <=> hits[p] > 0 \/ (From(p)[1] = x /\ From(p)[2] = y)
  <2> SUFFICES ASSUME NEW p \in Pixel
               PROVE  h4[p] > 0 <=> hits[p] > 0 \/ (From(p)[1] = x /\ From(p)[2] = y)
    OBVIOUS
  <2>1. p \in {<<cx + x, cy + y>>, <<cx - x, cy + y>>, <<cx + x, cy - y>>, <<cx - x, cy - y>>}
          <=> From(p)[1] = x /\ From(p)[2] = y
    BY Corners
  <2> QED  BY <1>2, <2>1, Zenon
<1>5. \A p \in Pixel : h8[p] > 0 <=> h4[p] > 0 \/ (From(p)[1] = y /\ From(p)[2] = x)
  <2> SUFFICES ASSUME NEW p \in Pixel
               PROVE  h8[p] > 0 <=> h4[p] > 0 \/ (From(p)[1] = y /\ From(p)[2] = x)
    OBVIOUS
  <2>1. p \in {<<cx + y, cy + x>>, <<cx - y, cy + x>>, <<cx + y, cy - x>>, <<cx - y, cy - x>>}
          <=> From(p)[1] = y /\ From(p)[2] = x
    BY Corners
  <2> QED  BY <1>3, <2>1, Zenon
<1>6. h8 \in [Pixel -> 0 .. 2]
  BY <1>3
<1>7. ASSUME NEW p \in Pixel
      PROVE  Plotted[p] > 0 <=> \/ hits[p] > 0
                                \/ From(p)[1] = x /\ From(p)[2] = y
                                \/ From(p)[1] = y /\ From(p)[2] = x
  <2>1. h4[p] > 0 <=> hits[p] > 0 \/ (From(p)[1] = x /\ From(p)[2] = y)
    BY <1>4
  <2>2. h8[p] > 0 <=> h4[p] > 0 \/ (From(p)[1] = y /\ From(p)[2] = x)
    BY <1>5
  <2>3. Plotted[p] > 0 <=> h8[p] > 0
    BY <1>1
  <2> QED  BY <2>1, <2>2, <2>3
<1> QED  BY <1>1, <1>6, <1>7

(* A row of the disc.                                                      *)
LEMMA RowIs ==
  ASSUME CallShape, call.op = "disc", NEW h \in [Pixel -> 0 .. 2], NEW a \in Nat, NEW b \in Nat
  PROVE  LET two == hline(hline(h, call.x1 - a, call.x1 + a, call.y1 + b),
                          call.x1 - a, call.x1 + a, call.y1 - b)
         IN /\ two \in [Pixel -> 0 .. 2]
            /\ \A p \in Pixel : two[p] > 0 <=> h[p] > 0 \/ (From(p)[1] <= a /\ From(p)[2] = b)
<1> DEFINE cx == call.x1
           cy == call.y1
           one == hline(h, cx - a, cx + a, cy + b)
           two == hline(one, cx - a, cx + a, cy - b)
<1>1. cx \in Int /\ cy \in Int
  BY DEF CallShape
<1>2. /\ cx - a \in Int /\ cx + a \in Int /\ cy + b \in Int /\ cy - b \in Int
      /\ Lower(cx - a, cx + a) = cx - a /\ Upper(cx - a, cx + a) = cx + a
  <2> HIDE DEF cx, cy
  <2>1. cx - a \in Int /\ cx + a \in Int /\ cx - a <= cx + a /\ cy + b \in Int /\ cy - b \in Int
    BY <1>1
  <2>2. Lower(cx - a, cx + a) = cx - a
    BY <2>1, BoundsAre
  <2>3. Upper(cx - a, cx + a) = cx + a
    BY <2>1, BoundsAre
  <2> QED  BY <2>1, <2>2, <2>3
<1>3. /\ one \in [Pixel -> 0 .. 2]
      /\ \A p \in Pixel : one[p] > 0
            <=> h[p] > 0 \/ (p[2] = cy + b /\ cx - a <= p[1] /\ p[1] <= cx + a)
  BY <1>2, HlineIs
<1> HIDE DEF one
<1>4. /\ two \in [Pixel -> 0 .. 2]
      /\ \A p \in Pixel : two[p] > 0
            <=> one[p] > 0 \/ (p[2] = cy - b /\ cx - a <= p[1] /\ p[1] <= cx + a)
  BY <1>2, <1>3, HlineIs
<1> HIDE DEF two
<1>5. ASSUME NEW p \in Pixel
      PROVE  (p[2] = cy + b \/ p[2] = cy - b) /\ cx - a <= p[1] /\ p[1] <= cx + a
                <=> From(p)[1] <= a /\ From(p)[2] = b
  <2>1. p[1] \in Int /\ p[2] \in Int
    BY PixelIs
  <2>2. Abs(p[1] - cx) <= a <=> cx - a <= p[1] /\ p[1] <= cx + a
    BY <1>1, <2>1 DEF Abs
  <2>3. Abs(p[2] - cy) = b <=> p[2] = cy + b \/ p[2] = cy - b
    BY <1>1, <2>1 DEF Abs
  <2> QED  BY <2>2, <2>3 DEF From
<1>6. \A p \in Pixel : two[p] > 0 <=> h[p] > 0 \/ (From(p)[1] <= a /\ From(p)[2] = b)
  <2> SUFFICES ASSUME NEW p \in Pixel
               PROVE  two[p] > 0 <=> h[p] > 0 \/ (From(p)[1] <= a /\ From(p)[2] = b)
    OBVIOUS
  <2> HIDE DEF cx, cy
  <2> QED  BY <1>3, <1>4, <1>5
<1> QED  BY <1>4, <1>6 DEF one, two

(* The four rows of a step on the disc.                                    *)
LEMMA RowsAre ==
  ASSUME CallShape, call.op = "disc", hits \in [Pixel -> 0 .. 2], x \in Nat, y \in Nat
  PROVE  /\ Plotted \in [Pixel -> 0 .. 2]
         /\ \A p \in Pixel : Plotted[p] > 0 <=> \/ hits[p] > 0
                                                \/ From(p)[1] <= x /\ From(p)[2] = y
                                                \/ From(p)[1] <= y /\ From(p)[2] = x
<1> DEFINE cx == call.x1
           cy == call.y1
           h2 == hline(hline(hits, cx - x, cx + x, cy + y), cx - x, cx + x, cy - y)
           h4 == hline(hline(h2, cx - y, cx + y, cy + x), cx - y, cx + y, cy - x)
<1>1. Plotted = h4
  BY DEF Plotted
<1>2. /\ h2 \in [Pixel -> 0 .. 2]
      /\ \A p \in Pixel : h2[p] > 0 <=> hits[p] > 0 \/ (From(p)[1] <= x /\ From(p)[2] = y)
  BY RowIs
<1> HIDE DEF h2
<1>3. /\ h4 \in [Pixel -> 0 .. 2]
      /\ \A p \in Pixel : h4[p] > 0 <=> h2[p] > 0 \/ (From(p)[1] <= y /\ From(p)[2] = x)
  BY <1>2, RowIs
<1> HIDE DEF h4
<1> QED  BY <1>1, <1>2, <1>3

(* The arithmetic of a circle with the squared radius R.  The error e of    *)
(* the point u across and v down sends the next step to u1 and v1; the     *)
(* point stays within half a pixel of the circle until it leaves the       *)
(* octant.                                                                 *)
Rounds(R, e, u1, v1) ==
  /\ e + (IF e <= 0 THEN 2 * v1 + 1 ELSE 2 * (v1 - u1) + 1) = u1 * u1 + v1 * v1 - R + 2 * v1 + 1 - u1
  /\ IF v1 <= u1 THEN Abs(u1 * u1 + v1 * v1 - R) <= u1 ELSE R <= 2 * v1 * v1 - v1

LEMMA CircleTurn ==
  ASSUME NEW u \in Nat, NEW v \in Nat, NEW R \in Int, NEW e \in Int, v <= u,
         Abs(u * u + v * v - R) <= u, e = u * u + v * v - R + 2 * v + 1 - u,
         NEW u1 \in Int, u1 = (IF e <= 0 THEN u ELSE u - 1), NEW v1 \in Int, v1 = v + 1
  PROVE  Rounds(R, e, u1, v1)
<1> DEFINE U == u * u
           V == v * v
           b == U + V - R
<1>1. U \in Nat /\ V \in Nat
  BY SquareIs
<1>2. /\ (u - 1) * (u - 1) = U - 2 * u + 1 /\ (v + 1) * (v + 1) = V + 2 * v + 1
      /\ 2 * (v + 1) * (v + 1) = 2 * V + 4 * v + 2
  OBVIOUS
<1>3. b \in Int /\ e = b + 2 * v + 1 - u /\ Abs(b) <= u
  BY <1>1
<1>4. v >= u - 1 => \/ v = u /\ V = U
                    \/ v = u - 1 /\ V = U - 2 * u + 1
  OBVIOUS
<1> HIDE DEF U, V
<1>5. b <= u /\ -b <= u
  <2>1. Abs(b) \in Nat /\ b <= Abs(b) /\ -b <= Abs(b)
    BY <1>3, AbsIs
  <2> HIDE DEF b
  <2> QED  BY <1>3, <2>1
<1>6. CASE e <= 0
  <2>1. u1 = u /\ u1 * u1 + v1 * v1 - R = b + 2 * v + 1
    BY <1>1, <1>2, <1>6 DEF U
  <2>2. v1 <= u1
    BY <1>1, <1>3, <1>4, <1>5, <1>6, <2>1
  <2>3. b + 2 * v + 1 <= u /\ -(b + 2 * v + 1) <= u
    BY <1>1, <1>3, <1>5, <1>6
  <2>4. b + 2 * v + 1 \in Int
    BY <1>3
  <2>5. Abs(b + 2 * v + 1) <= u
    BY <2>3, <2>4, AbsIs
  <2> HIDE DEF b
  <2> QED  BY <1>3, <1>6, <2>1, <2>2, <2>5 DEF Rounds
<1>7. CASE e > 0
  <2>1. u1 = u - 1 /\ u1 * u1 + v1 * v1 - R = b + 2 * v + 2 - 2 * u
    BY <1>1, <1>2, <1>7
  <2>2. CASE v1 <= u1
    <3>1. b + 2 * v + 2 - 2 * u <= u1 /\ -(b + 2 * v + 2 - 2 * u) <= u1
      BY <1>1, <1>3, <1>5, <1>7, <2>1, <2>2
    <3>2. b + 2 * v + 2 - 2 * u \in Int
      BY <1>3
    <3>3. Abs(b + 2 * v + 2 - 2 * u) <= u1
      BY <2>1, <3>1, <3>2, AbsIs
    <3> HIDE DEF b
    <3> QED  BY <1>3, <1>7, <2>1, <2>2, <3>3 DEF Rounds
  <2>3. CASE ~(v1 <= u1)
    <3>1. R <= 2 * V + 4 * v + 2 - (v + 1)
      BY <1>1, <1>3, <1>4, <1>5, <1>7, <2>1, <2>3
    <3>2. R <= 2 * v1 * v1 - v1
      BY <1>1, <1>2, <3>1
    <3> HIDE DEF b
    <3> QED  BY <1>3, <1>7, <2>1, <2>3, <3>2 DEF Rounds
  <2> QED  BY <2>2, <2>3
<1> QED  BY <1>6, <1>7

(* In the row of the loop's point and in the one across, how far a pixel   *)
(* a beside the centre is beyond the circle.                               *)
LEMMA BesideIs ==
  ASSUME NEW a \in Nat, NEW u \in Nat, NEW v \in Nat, NEW R \in Int, v <= u,
         Abs(u * u + v * v - R) <= u
  PROVE  /\ a < u => a * a + v * v - R <= -a
         /\ a > u => a * a + v * v - R >= a
         /\ a = u => a * a + v * v - R <= u
         /\ a <= v => a * a + u * u - R <= u
         /\ a > v /\ u * u + v * v - R + 2 * v + 1 - u > 0 => a * a + u * u - R > 0
<1> DEFINE A == a * a
           U == u * u
           V == v * v
           b == U + V - R
<1>1. A \in Nat /\ U \in Nat /\ V \in Nat
  BY SquareIs
<1>2. /\ a < u => A + a + u <= U
      /\ u < a => U + u + a <= A
      /\ a <= v => A <= V
      /\ a > v => A >= V + 2 * v + 1
  <2>1. (a < u => A + a + u <= U) /\ (u < a => U + u + a <= A) /\ (a <= v => A <= V)
    BY SquareIs
  <2>2. ASSUME a > v PROVE A >= V + 2 * v + 1
    <3>1. V + v + a <= A
      BY <2>2, SquareIs
    <3> HIDE DEF A, V
    <3> QED  BY <1>1, <2>2, <3>1
  <2> QED  BY <2>1, <2>2
<1>3. a = u => A = U
  OBVIOUS
<1>4. b \in Int /\ Abs(b) <= u
  BY <1>1
<1> HIDE DEF A, U, V
<1>5. b <= u /\ -b <= u
  <2>1. Abs(b) \in Nat /\ b <= Abs(b) /\ -b <= Abs(b)
    BY <1>4, AbsIs
  <2> HIDE DEF b
  <2> QED  BY <1>4, <2>1
<1>6. /\ a < u => A + V - R <= -a
      /\ a > u => A + V - R >= a
      /\ a = u => A + V - R <= u
      /\ a <= v => A + U - R <= u
      /\ a > v /\ b + 2 * v + 1 - u > 0 => A + U - R > 0
  BY <1>1, <1>2, <1>3, <1>5
<1> QED  BY <1>6 DEF A, U, V

(* Beyond the octant every pixel is outside.                               *)
LEMMA OutsideIs ==
  ASSUME NEW m \in Nat, NEW n \in Nat, NEW v \in Nat, NEW R \in Int,
         v > 0, v <= m, m <= n, R <= 2 * v * v - v
  PROVE  n * n + m * m - R >= n
<1> DEFINE M == m * m
           N == n * n
           V == v * v
<1>1. M \in Nat /\ N \in Nat /\ V \in Nat /\ V <= M
  BY SquareIs
<1>2. (n - v) * (n + v - 1) >= 0
  <2>1. n - v \in Nat /\ n + v - 1 \in Nat
    OBVIOUS
  <2> QED  BY <2>1
<1>3. (n - v) * (n + v - 1) = N - n - V + v
  OBVIOUS
<1>4. R <= 2 * V - v
  OBVIOUS
<1> HIDE DEF M, N, V
<1>5. N + M - R >= n
  BY <1>1, <1>2, <1>3, <1>4
<1> QED  BY <1>5 DEF M, N

(* What a step of a circle or disc finds at a pixel: how far it is down    *)
(* and across, and beyond the circle.                                      *)
LEMMA BeyondIs ==
  ASSUME CallShape, call.op \in {"circle", "disc"}, NEW p \in Pixel, NEW a, NEW b,
         From(p)[1] = a, From(p)[2] = b
  PROVE  /\ a \in Nat /\ b \in Nat /\ call.r \in Int /\ call.r * call.r \in Nat
         /\ Beyond(p) = a * a + b * b - call.r * call.r
         /\ a * a \in Nat /\ b * b \in Nat
         /\ (Lower(a, b) = a /\ Upper(a, b) = b) \/ (Lower(a, b) = b /\ Upper(a, b) = a)
         /\ Lower(a, b) <= Upper(a, b)
<1>1. a \in Nat /\ b \in Nat
  BY FromIs
<1>2. call.r \in Int
  BY DEF CallShape
<1>3. call.r * call.r \in Nat
  <2>1. \A n \in Int : n * n >= 0
    OBVIOUS
  <2>2. call.r * call.r \in Int
    BY <1>2
  <2> QED  BY <1>2, <2>1, <2>2
<1>4. a * a \in Nat /\ b * b \in Nat
  BY <1>1, SquareIs
<1>5. /\ (Lower(a, b) = a /\ Upper(a, b) = b) \/ (Lower(a, b) = b /\ Upper(a, b) = a)
      /\ Lower(a, b) <= Upper(a, b)
  BY <1>1 DEF Lower, Upper
<1> QED  BY <1>1, <1>2, <1>3, <1>4, <1>5 DEF Beyond

(* One pixel of a circle's step: it is drawn only when near, and when it   *)
(* is nearer than the next in its row or column.                           *)
LEMMA CirclePixel ==
  ASSUME NEW a \in Nat, NEW b \in Nat, NEW u \in Nat, NEW v \in Nat, NEW R \in Int, v <= u,
         Abs(u * u + v * v - R) <= u
  PROVE  /\ (a = u /\ b = v) \/ (a = v /\ b = u) => Abs(a * a + b * b - R) <= Upper(a, b)
         /\ Lower(a, b) = v /\ Abs(a * a + b * b - R) < Upper(a, b) =>
              (a = u /\ b = v) \/ (a = v /\ b = u)
<1>1. (a = u /\ b = v) \/ (a = v /\ b = u) => Abs(a * a + b * b - R) <= Upper(a, b)
  <2>1. CASE a = u /\ b = v
    <3>1. Upper(a, b) = u
      BY <2>1, BoundsAre
    <3> QED  BY <2>1, <3>1
  <2>2. CASE a = v /\ b = u
    <3>1. Upper(a, b) = u
      BY <2>2, BoundsAre
    <3>2. u * u \in Nat /\ v * v \in Nat
      BY SquareIs
    <3>3. a * a + b * b - R = u * u + v * v - R
      BY <2>2, <3>2
    <3> QED  BY <3>1, <3>3
  <2> QED  BY <2>1, <2>2
<1>2. ASSUME NEW c \in Nat, c # u PROVE Abs(c * c + v * v - R) >= c
  <2>1. c * c \in Nat /\ v * v \in Nat
    BY SquareIs
  <2>2. c * c + v * v - R <= -c \/ c * c + v * v - R >= c
    <3>1. CASE c < u
      <4>1. c * c + v * v - R <= -c
        BY <3>1, BesideIs
      <4> QED  BY <4>1
    <3>2. CASE c > u
      <4>1. c * c + v * v - R >= c
        BY <3>2, BesideIs
      <4> QED  BY <4>1
    <3> QED  BY <1>2, <3>1, <3>2
  <2>3. PICK n \in Int : n = c * c + v * v - R
    BY <2>1
  <2>4. Abs(n) >= c
    BY <2>2, <2>3, AbsIs
  <2> QED  BY <2>3, <2>4
<1>3. ASSUME Lower(a, b) = v, Abs(a * a + b * b - R) < Upper(a, b),
             ~((a = u /\ b = v) \/ (a = v /\ b = u))
      PROVE  FALSE
  <2>1. a * a \in Nat /\ b * b \in Nat /\ v * v \in Nat
    BY SquareIs
  <2>2. PICK n \in Int : n = a * a + b * b - R
    BY <2>1
  <2>3. Abs(n) \in Nat
    BY AbsIs
  <2>4. CASE a <= b
    <3>1. a = v /\ Upper(a, b) = b /\ b # u
      BY <1>3, <2>4, BoundsAre
    <3>2. b * b + v * v - R = n
      BY <2>1, <2>2, <3>1
    <3>3. Abs(n) >= b
      BY <1>2, <3>1, <3>2
    <3> QED  BY <1>3, <2>2, <2>3, <3>1, <3>3
  <2>5. CASE b <= a
    <3>1. b = v /\ Upper(a, b) = a /\ a # u
      BY <1>3, <2>5, BoundsAre
    <3>2. a * a + v * v - R = n
      BY <2>1, <2>2, <3>1
    <3>3. Abs(n) >= a
      BY <1>2, <3>1, <3>2
    <3> QED  BY <1>3, <2>2, <2>3, <3>1, <3>3
  <2> QED  BY <2>4, <2>5
<1> QED  BY <1>1, <1>3

(* One pixel of a disc's step.                                             *)
LEMMA DiscPixel ==
  ASSUME NEW a \in Nat, NEW b \in Nat, NEW u \in Nat, NEW v \in Nat, NEW R \in Int, v <= u,
         Abs(u * u + v * v - R) <= u
  PROVE  /\ (a <= u /\ b = v) \/ (a <= v /\ b = u) => a * a + b * b - R <= Upper(a, b)
         /\ b = v /\ a * a + b * b - R <= 0 => a <= u
         /\ b = u /\ a * a + b * b - R <= 0 /\ u * u + v * v - R + 2 * v + 1 - u > 0 => a <= v
<1>1. a * a \in Nat /\ b * b \in Nat /\ u * u \in Nat /\ v * v \in Nat
  BY SquareIs
<1>2. Upper(a, b) \in Int /\ a <= Upper(a, b) /\ b <= Upper(a, b)
  BY DEF Upper
<1>3. ASSUME a <= u, b = v PROVE a * a + b * b - R <= Upper(a, b)
  <2>1. a * a + v * v - R <= a
    <3>1. (a < u => a * a + v * v - R <= -a) /\ (a = u => a * a + v * v - R <= u)
      BY BesideIs
    <3> QED  BY <1>1, <1>3, <3>1
  <2> QED  BY <1>1, <1>2, <1>3, <2>1
<1>4. ASSUME a <= v, b = u PROVE a * a + b * b - R <= Upper(a, b)
  <2>1. a * a + u * u - R <= u
    BY <1>4, BesideIs
  <2> QED  BY <1>1, <1>2, <1>4, <2>1
<1>5. ASSUME b = v, a * a + b * b - R <= 0, a > u PROVE FALSE
  <2>1. a * a + v * v - R >= a
    BY <1>5, BesideIs
  <2> QED  BY <1>1, <1>5, <2>1
<1>6. ASSUME b = u, a * a + b * b - R <= 0, u * u + v * v - R + 2 * v + 1 - u > 0, a > v
      PROVE  FALSE
  <2>1. a * a + u * u - R > 0
    BY <1>6, BesideIs
  <2> QED  BY <1>1, <1>6, <2>1
<1> QED  BY <1>3, <1>4, <1>5, <1>6

(* The loop of a circle or disc ends.                                      *)
LEMMA CircleEnds ==
  ASSUME DrawInv, CircleStep, x < y
  PROVE  DrawInv'
<1> DEFINE R == call.r * call.r
<1>1. /\ CallShape /\ CanvasTypeOK /\ CircleGoesOn /\ drawing
      /\ call.op \in {"circle", "disc"} /\ call' = call
      /\ hits \in [Pixel -> 0 .. 2]
      /\ drawing' = FALSE /\ UNCHANGED <<hits, x, y, err>>
  BY DEF DrawInv, CanvasInv, CanvasTypeOK, CircleStep
<1>2. x \in Int /\ y \in Int /\ call.r \in Int /\ call.r > 0 /\ 0 <= y
  BY <1>1 DEF CallShape, CanvasTypeOK, CircleGoesOn
<1>3. R \in Nat /\ R > 0 /\ R <= 2 * y * y - y /\ y > 0
  <2>1. call.r * call.r > 0
    BY <1>2
  <2>2. call.r * call.r \in Int
    BY <1>2
  <2>3. call.r * call.r <= 2 * y * y - y
    BY <1>1, <1>2 DEF CircleGoesOn
  <2>4. y # 0
    <3>1. ASSUME y = 0 PROVE FALSE
      <4>1. 2 * y * y - y = 0
        BY <3>1
      <4> QED  BY <2>1, <2>2, <2>3, <4>1
    <3> QED  BY <3>1
  <2> QED  BY <1>2, <2>1, <2>2, <2>3, <2>4
<1>4. \A p : From(p)' = From(p) /\ Beyond(p)' = Beyond(p)
  BY <1>1 DEF From, Beyond
<1>5. CallShape' /\ CanvasTypeOK' /\ CircleGoesOn'
  <2>1. CallShape'
    BY <1>1 DEF CallShape
  <2>2. CanvasTypeOK'
    BY <1>1 DEF CanvasTypeOK
  <2>3. CircleGoesOn'
    BY <1>1 DEF CircleGoesOn
  <2> QED  BY <2>1, <2>2, <2>3
<1>6. CircleIsRound'
  <2>1. CASE call.op = "circle"
    <3>1. ASSUME NEW p \in Pixel
          PROVE  /\ hits[p] > 0 => Abs(Beyond(p)) <= Upper(From(p)[1], From(p)[2])
                 /\ Abs(Beyond(p)) < Upper(From(p)[1], From(p)[2]) => hits[p] > 0
      <4>1. PICK a, b : a = From(p)[1] /\ b = From(p)[2]
        OBVIOUS
      <4>2. /\ hits[p] > 0 => Abs(Beyond(p)) <= Upper(a, b)
            /\ Lower(a, b) < y /\ Abs(Beyond(p)) < Upper(a, b) => hits[p] > 0
        BY <1>1, <2>1, <4>1 DEF CircleGoesOn
      <4>3. /\ a \in Nat /\ b \in Nat /\ R \in Nat
            /\ Beyond(p) = a * a + b * b - R
            /\ a * a \in Nat /\ b * b \in Nat
            /\ (Lower(a, b) = a /\ Upper(a, b) = b) \/ (Lower(a, b) = b /\ Upper(a, b) = a)
            /\ Lower(a, b) <= Upper(a, b)
        BY <1>1, <4>1, BeyondIs
      <4>4. ASSUME y <= Lower(a, b) PROVE ~(Abs(Beyond(p)) < Upper(a, b))
        <5>1. Beyond(p) >= Upper(a, b)
          <6>1. CASE Lower(a, b) = a /\ Upper(a, b) = b
            <7>1. b * b + a * a - R >= b
              BY <1>2, <1>3, <4>3, <4>4, <6>1, OutsideIs
            <7> QED  BY <4>3, <6>1, <7>1
          <6>2. CASE Lower(a, b) = b /\ Upper(a, b) = a
            <7>1. a * a + b * b - R >= a
              BY <1>2, <1>3, <4>3, <4>4, <6>2, OutsideIs
            <7> QED  BY <4>3, <6>2, <7>1
          <6> QED  BY <4>3, <6>1, <6>2
        <5>2. Beyond(p) \in Int /\ Upper(a, b) \in Nat
          BY <4>3
        <5>3. Abs(Beyond(p)) >= Upper(a, b) /\ Abs(Beyond(p)) \in Nat
          BY <5>1, <5>2, AbsIs
        <5> QED  BY <5>2, <5>3
      <4>5. Lower(a, b) \in Nat
        BY <4>3
      <4> QED  BY <1>2, <4>1, <4>2, <4>4, <4>5
    <3>2. \A p \in Pixel :
             /\ hits'[p] > 0 => Abs(Beyond(p)') <= Upper(From(p)'[1], From(p)'[2])
             /\ Abs(Beyond(p)') < Upper(From(p)'[1], From(p)'[2]) => hits'[p] > 0
      BY <1>1, <1>4, <3>1
    <3> QED  BY <3>2 DEF CircleIsRound
  <2>2. CASE call.op # "circle"
    BY <1>1, <2>2 DEF CircleIsRound
  <2> QED  BY <2>1, <2>2
<1>7. DiscIsFull'
  <2>1. CASE call.op = "disc"
    <3>1. ASSUME NEW p \in Pixel
          PROVE  /\ hits[p] > 0 => Beyond(p) <= Upper(From(p)[1], From(p)[2])
                 /\ Beyond(p) <= 0 => hits[p] > 0
      <4>1. From(p)[2] \notin y .. x
        BY <1>1, <1>2, FromIs
      <4> QED  BY <1>1, <2>1, <4>1 DEF CircleGoesOn
    <3>2. \A p \in Pixel :
             /\ hits'[p] > 0 => Beyond(p)' <= Upper(From(p)'[1], From(p)'[2])
             /\ Beyond(p)' <= 0 => hits'[p] > 0
      BY <1>1, <1>4, <3>1
    <3> QED  BY <3>2 DEF DiscIsFull
  <2>2. CASE call.op # "disc"
    BY <1>1, <2>2 DEF DiscIsFull
  <2> QED  BY <2>1, <2>2
<1> QED
  BY <1>1, <1>5, <1>6, <1>7
  DEF DrawInv, CanvasInv, LineGoesOn, LineIsNearest, RectIsFrame, TouchedOnce, BlendBetween

(* A step of the loop.                                                     *)
LEMMA CircleKeeps ==
  ASSUME DrawInv, CircleStep, ~(x < y)
  PROVE  DrawInv'
<1> DEFINE R == call.r * call.r
           b0 == x * x + y * y - R
<1>1. /\ CallShape /\ CanvasTypeOK /\ CircleGoesOn /\ drawing
      /\ call.op \in {"circle", "disc"} /\ call' = call
      /\ hits \in [Pixel -> 0 .. 2]
      /\ hits' = Plotted /\ drawing' = TRUE
      /\ y' = y + 1 /\ x' = IF err <= 0 THEN x ELSE x - 1
      /\ err' = err + (IF err <= 0 THEN 2 * y' + 1 ELSE 2 * (y' - x') + 1)
  BY DEF DrawInv, CanvasInv, CanvasTypeOK, CircleStep
<1>2. /\ x \in Nat /\ y \in Nat /\ y <= x /\ call.r \in Int /\ call.r > 0 /\ x <= call.r
      /\ err \in Int
  BY <1>1 DEF CallShape, CanvasTypeOK, CircleGoesOn
<1>3. R \in Int /\ x * x \in Nat /\ y * y \in Nat /\ b0 \in Int
  <2>1. call.r * call.r \in Int
    BY <1>2
  <2>2. x * x \in Nat /\ y * y \in Nat
    BY <1>2, SquareIs
  <2> QED  BY <2>1, <2>2
<1>4. Abs(x * x + y * y - R) <= x /\ err = x * x + y * y - R + 2 * y + 1 - x
  BY <1>1, <1>2 DEF CircleGoesOn
<1>5. x' \in Int /\ y' \in Int /\ err' \in Int /\ y' >= 0 /\ y' <= x' + 2 /\ x' <= call.r
  BY <1>1, <1>2
<1> HIDE DEF R
<1>6. Rounds(R, err, x', y')
  BY <1>1, <1>2, <1>3, <1>4, <1>5, CircleTurn
<1>7. \A p : From(p)' = From(p) /\ Beyond(p)' = Beyond(p)
  BY <1>1 DEF From, Beyond
<1>8. CallShape'
  BY <1>1, <1>5 DEF CallShape
<1>9. hits' \in [Pixel -> 0 .. 2]
  <2>1. CASE call.op = "circle"
    BY <1>1, <1>2, <2>1, PointsAre
  <2>2. CASE call.op = "disc"
    BY <1>1, <1>2, <2>2, RowsAre
  <2> QED  BY <1>1, <2>1, <2>2
<1>10. CanvasTypeOK'
  BY <1>1, <1>5, <1>9 DEF CanvasTypeOK
<1>11. /\ call'.r > 0 /\ err' = x' * x' + y' * y' - call'.r * call'.r + 2 * y' + 1 - x'
       /\ IF y' <= x' THEN Abs(x' * x' + y' * y' - call'.r * call'.r) <= x'
          ELSE call'.r * call'.r <= 2 * y' * y' - y'
  <2>1. call'.r * call'.r = R /\ call'.r > 0
    BY <1>1, <1>2 DEF R
  <2> QED  BY <1>1, <1>6, <2>1 DEF Rounds
<1>12. CircleGoesOn'
  <2>1. CASE call.op = "circle"
    <3>1. ASSUME NEW p \in Pixel
          PROVE  /\ hits'[p] > 0 => Abs(Beyond(p)) <= Upper(From(p)[1], From(p)[2])
                 /\ Lower(From(p)[1], From(p)[2]) < y'
                    /\ Abs(Beyond(p)) < Upper(From(p)[1], From(p)[2]) => hits'[p] > 0
      <4>1. PICK a, b : a = From(p)[1] /\ b = From(p)[2]
        OBVIOUS
      <4>2. /\ hits[p] > 0 => Abs(Beyond(p)) <= Upper(a, b)
            /\ Lower(a, b) < y /\ Abs(Beyond(p)) < Upper(a, b) => hits[p] > 0
        BY <1>1, <2>1, <4>1 DEF CircleGoesOn
      <4>3. /\ a \in Nat /\ b \in Nat
            /\ Beyond(p) = a * a + b * b - R
            /\ (Lower(a, b) = a /\ Upper(a, b) = b) \/ (Lower(a, b) = b /\ Upper(a, b) = a)
        BY <1>1, <4>1, BeyondIs DEF R
      <4>4. /\ (a = x /\ b = y) \/ (a = y /\ b = x) => Abs(a * a + b * b - R) <= Upper(a, b)
            /\ Lower(a, b) = y /\ Abs(a * a + b * b - R) < Upper(a, b) =>
                 (a = x /\ b = y) \/ (a = y /\ b = x)
        BY <1>2, <1>3, <1>4, <4>3, CirclePixel
      <4>5. hits'[p] > 0 <=> hits[p] > 0 \/ (a = x /\ b = y) \/ (a = y /\ b = x)
        BY <1>1, <1>2, <2>1, <4>1, PointsAre
      <4>6. Lower(a, b) < y' <=> Lower(a, b) < y \/ Lower(a, b) = y
        BY <1>1, <1>2, <4>3
      <4>7. /\ hits'[p] > 0 => Abs(Beyond(p)) <= Upper(a, b)
            /\ Lower(a, b) < y' /\ Abs(Beyond(p)) < Upper(a, b) => hits'[p] > 0
        BY <4>2, <4>3, <4>4, <4>5, <4>6
      <4> QED  BY <4>1, <4>7
    <3>2. \A p \in Pixel :
             /\ hits'[p] > 0 => Abs(Beyond(p)') <= Upper(From(p)'[1], From(p)'[2])
             /\ Lower(From(p)'[1], From(p)'[2]) < y'
                /\ Abs(Beyond(p)') < Upper(From(p)'[1], From(p)'[2]) => hits'[p] > 0
      BY <1>7, <3>1
    <3>3. call'.op = "circle"
      BY <1>1, <2>1
    <3> QED  BY <1>11, <3>2, <3>3 DEF CircleGoesOn
  <2>2. CASE call.op = "disc"
    <3>1. ASSUME NEW p \in Pixel
          PROVE  /\ hits'[p] > 0 => Beyond(p) <= Upper(From(p)[1], From(p)[2])
                 /\ From(p)[2] \notin y' .. x' /\ Beyond(p) <= 0 => hits'[p] > 0
      <4>1. PICK a, b : a = From(p)[1] /\ b = From(p)[2]
        OBVIOUS
      <4>2. /\ hits[p] > 0 => Beyond(p) <= Upper(a, b)
            /\ b \notin y .. x /\ Beyond(p) <= 0 => hits[p] > 0
        BY <1>1, <2>2, <4>1 DEF CircleGoesOn
      <4>3. a \in Nat /\ b \in Nat /\ Beyond(p) = a * a + b * b - R
        BY <1>1, <4>1, BeyondIs DEF R
      <4>4. /\ (a <= x /\ b = y) \/ (a <= y /\ b = x) => a * a + b * b - R <= Upper(a, b)
            /\ b = y /\ a * a + b * b - R <= 0 => a <= x
            /\ b = x /\ a * a + b * b - R <= 0 /\ x * x + y * y - R + 2 * y + 1 - x > 0 => a <= y
        BY <1>2, <1>3, <1>4, <4>3, DiscPixel
      <4>5. hits'[p] > 0 <=> hits[p] > 0 \/ (a <= x /\ b = y) \/ (a <= y /\ b = x)
        BY <1>1, <1>2, <2>2, <4>1, RowsAre
      <4>6. b \notin y' .. x' => b \notin y .. x \/ b = y \/ (b = x /\ err > 0)
        BY <1>1, <1>2, <1>5, <4>3
      <4>7. err > 0 => x * x + y * y - R + 2 * y + 1 - x > 0
        BY <1>4
      <4>8. /\ hits'[p] > 0 => Beyond(p) <= Upper(a, b)
            /\ b \notin y' .. x' /\ Beyond(p) <= 0 => hits'[p] > 0
        BY <4>2, <4>3, <4>4, <4>5, <4>6, <4>7
      <4> QED  BY <4>1, <4>8
    <3>2. \A p \in Pixel :
             /\ hits'[p] > 0 => Beyond(p)' <= Upper(From(p)'[1], From(p)'[2])
             /\ From(p)'[2] \notin y' .. x' /\ Beyond(p)' <= 0 => hits'[p] > 0
      BY <1>7, <3>1
    <3>3. call'.op = "disc"
      BY <1>1, <2>2
    <3> QED  BY <1>11, <3>2, <3>3 DEF CircleGoesOn
  <2> QED  BY <1>1, <2>1, <2>2
<1>13. CircleIsRound' /\ DiscIsFull'
  BY <1>1 DEF CircleIsRound, DiscIsFull, Drawn
<1> QED
  BY <1>1, <1>8, <1>10, <1>12, <1>13
  DEF DrawInv, CanvasInv, LineGoesOn, LineIsNearest, RectIsFrame, TouchedOnce, BlendBetween

(* The calls begin, those without a loop end with it.                      *)
LEMMA PixelDrawn ==
  ASSUME DrawInv, NEW dst \in Level, NEW src \in Level, NEW a \in Level,
         bot_canvas_set_pixel(dst, src, a)
  PROVE  DrawInv'
<1>1. /\ call'.op = "pixel" /\ call'.dst = dst /\ call'.src = src
      /\ call'.now = (IF a = 255 THEN src ELSE IF a = 0 THEN dst ELSE alpha_blend(dst, src, a))
      /\ hits' = Blank /\ drawing' = FALSE /\ UNCHANGED <<x, y, err>>
  BY DEF bot_canvas_set_pixel, Begin, Atomic
<1>2. dst \in 0 .. 255 /\ src \in 0 .. 255 /\ a \in 0 .. 255
  BY CanvasAssumption
<1>3. Lower(dst, src) <= alpha_blend(dst, src, a) /\ alpha_blend(dst, src, a) <= Upper(dst, src)
  <2> DEFINE l == Lower(dst, src)
             u == Upper(dst, src)
             S == src * a
             D == dst * (255 - a)
  <2>1. l \in 0 .. 255 /\ u \in 0 .. 255 /\ l <= dst /\ l <= src /\ dst <= u /\ src <= u
    BY <1>2 DEF Lower, Upper
  <2> HIDE DEF l, u
  <2>2. S \in Int /\ D \in Int
    BY <1>2
  <2>3. S + D >= 255 * l
    <3>1. (src - l) * a >= 0 /\ (dst - l) * (255 - a) >= 0
      BY <1>2, <2>1
    <3>2. (src - l) * a = S - l * a /\ (dst - l) * (255 - a) = D - 255 * l + l * a
      BY <1>2, <2>1
    <3>3. l * a \in Int
      BY <1>2, <2>1
    <3> HIDE DEF S, D
    <3> QED  BY <2>1, <2>2, <3>1, <3>2, <3>3
  <2>4. S + D <= 255 * u
    <3>1. (u - src) * a >= 0 /\ (u - dst) * (255 - a) >= 0
      BY <1>2, <2>1
    <3>2. (u - src) * a = u * a - S /\ (u - dst) * (255 - a) = 255 * u - u * a - D
      BY <1>2, <2>1
    <3>3. u * a \in Int
      BY <1>2, <2>1
    <3> HIDE DEF S, D
    <3> QED  BY <2>1, <2>2, <3>1, <3>2, <3>3
  <2> HIDE DEF S, D
  <2>5. l <= (S + D) \div 255 /\ (S + D) \div 255 <= u
    BY <2>1, <2>2, <2>3, <2>4
  <2> QED  BY <2>5 DEF alpha_blend, l, u, S, D
<1>4. Lower(dst, src) <= call'.now /\ call'.now <= Upper(dst, src)
  <2>1. Lower(dst, src) <= dst /\ Lower(dst, src) <= src /\ dst <= Upper(dst, src) /\ src <= Upper(dst, src)
    BY <1>2 DEF Lower, Upper
  <2> QED  BY <1>1, <1>3, <2>1
<1>5. CallShape'
  BY <1>1 DEF DrawInv, CallShape
<1>6. CanvasTypeOK'
  BY <1>1, BlankIs DEF CanvasTypeOK
<1>7. BlendBetween'
  BY <1>1, <1>4 DEF BlendBetween
<1> QED
  BY <1>1, <1>5, <1>6, <1>7
  DEF DrawInv, CanvasInv, LineGoesOn, CircleGoesOn, LineIsNearest, CircleIsRound, DiscIsFull,
      RectIsFrame, TouchedOnce

LEMMA LineBegins ==
  ASSUME DrawInv, NEW x1 \in Coord, NEW y1 \in Coord, NEW x2 \in Coord, NEW y2 \in Coord,
         bot_canvas_draw_line(x1, y1, x2, y2)
  PROVE  DrawInv'
<1>1. /\ x1 \in Int /\ y1 \in Int /\ x2 \in Int /\ y2 \in Int
  BY CanvasAssumption
<1>2. /\ call'.op = "line" /\ call'.x1 = x1 /\ call'.y1 = y1 /\ call'.x2 = x2 /\ call'.y2 = y2
  BY DEF bot_canvas_draw_line, Begin
<1>3. /\ Across' = Abs(x2 - x1) /\ Down' = Abs(y2 - y1)
      /\ Across' \in Nat /\ Down' \in Nat
  <2>1. x2 - x1 \in Int /\ y2 - y1 \in Int
    BY <1>1
  <2> QED  BY <1>2, <2>1, AbsIs DEF Across, Down
<1>4. SUFFICES CallShape' /\ CanvasTypeOK' /\ LineGoesOn' /\ LineIsNearest' /\ TouchedOnce'
  BY <1>2
  DEF DrawInv, CanvasInv, CircleGoesOn, CircleIsRound, DiscIsFull, RectIsFrame, BlendBetween
(* Where a pixel lies.                                                     *)
<1>5. ASSUME NEW p \in Pixel
      PROVE  /\ p[1] \in Int /\ p[2] \in Int
             /\ Between(p)' <=> /\ Lower(x1, x2) <= p[1] /\ p[1] <= Upper(x1, x2)
                                /\ Lower(y1, y2) <= p[2] /\ p[2] <= Upper(y1, y2)
             /\ Slip(p)' = Abs(p[1] - x1) * Down' - Abs(p[2] - y1) * Across'
             /\ Abs(p[1] - x1) \in Nat /\ Abs(p[2] - y1) \in Nat
  <2>1. p[1] \in Int /\ p[2] \in Int
    BY PixelIs
  <2>2. Abs(p[1] - x1) \in Nat /\ Abs(p[2] - y1) \in Nat
    <3>1. p[1] - x1 \in Int /\ p[2] - y1 \in Int
      BY <1>1, <2>1
    <3> QED  BY <3>1, AbsIs
  <2> QED  BY <1>2, <2>1, <2>2 DEF Between, Slip, From
<1>6. CASE y1 = y2
  <2>1. /\ hits' = hline(Blank, x1, x2, y1) /\ drawing' = FALSE /\ UNCHANGED <<x, y, err>>
    BY <1>6 DEF bot_canvas_draw_line, Atomic
  <2>2. /\ hits' \in [Pixel -> 0 .. 2]
        /\ \A p \in Pixel : /\ hits'[p] > 0 <=> p[2] = y1 /\ Lower(x1, x2) <= p[1]
                                                 /\ p[1] <= Upper(x1, x2)
                            /\ hits'[p] <= 1
    BY <1>1, <2>1, BlankIs, HlineIs
  <2>3. Down' = 0 /\ Upper(Across', Down') = Across'
    <3>1. Down' = 0
      BY <1>1, <1>3, <1>6, AbsIs
    <3> QED  BY <1>3, <3>1, BoundsAre
  <2>4. \A p \in Pixel :
           /\ hits'[p] > 0 => Between(p)' /\ 2 * Abs(Slip(p)') <= Upper(Across', Down')
           /\ Between(p)' /\ 2 * Abs(Slip(p)') < Upper(Across', Down') => hits'[p] > 0
    <3> SUFFICES ASSUME NEW p \in Pixel
                 PROVE  /\ hits'[p] > 0 => Between(p)' /\ 2 * Abs(Slip(p)') <= Upper(Across', Down')
                        /\ Between(p)' => hits'[p] > 0
      OBVIOUS
    <3>1. Lower(y1, y2) = y1 /\ Upper(y1, y2) = y1
      BY <1>1, <1>6 DEF Lower, Upper
    <3>2. hits'[p] > 0 <=> Between(p)'
      BY <1>1, <1>5, <2>2, <3>1
    <3>3. ASSUME hits'[p] > 0 PROVE 2 * Abs(Slip(p)') <= Upper(Across', Down')
      <4>1. Abs(p[2] - y1) = 0
        BY <1>1, <1>5, <2>2, <3>3 DEF Abs
      <4>2. Abs(p[1] - x1) \in Int /\ Slip(p)' = Abs(p[1] - x1) * 0 - 0 * Across'
        BY <1>5, <2>3, <4>1
      <4>3. Slip(p)' = 0
        BY <1>3, <4>2
      <4>4. Abs(Slip(p)') = 0
        BY <4>3 DEF Abs
      <4> QED  BY <1>3, <2>3, <4>4
    <3> QED  BY <3>2, <3>3
  <2>5. CallShape'
    BY <1>1, <1>2, <2>1 DEF DrawInv, CallShape
  <2> QED
    BY <2>1, <2>2, <2>4, <2>5 DEF CanvasTypeOK, LineGoesOn, LineIsNearest, TouchedOnce
<1>7. CASE y1 # y2 /\ x1 = x2
  <2>1. /\ hits' = vline(Blank, x1, y1, y2) /\ drawing' = FALSE /\ UNCHANGED <<x, y, err>>
    BY <1>7 DEF bot_canvas_draw_line, Atomic
  <2>2. /\ hits' \in [Pixel -> 0 .. 2]
        /\ \A p \in Pixel : /\ hits'[p] > 0 <=> p[1] = x1 /\ Lower(y1, y2) <= p[2]
                                                 /\ p[2] <= Upper(y1, y2)
                            /\ hits'[p] <= 1
    BY <1>1, <2>1, BlankIs, VlineIs
  <2>3. Across' = 0 /\ Upper(Across', Down') = Down'
    <3>1. Across' = 0
      BY <1>1, <1>3, <1>7, AbsIs
    <3> QED  BY <1>3, <3>1, BoundsAre
  <2>4. \A p \in Pixel :
           /\ hits'[p] > 0 => Between(p)' /\ 2 * Abs(Slip(p)') <= Upper(Across', Down')
           /\ Between(p)' /\ 2 * Abs(Slip(p)') < Upper(Across', Down') => hits'[p] > 0
    <3> SUFFICES ASSUME NEW p \in Pixel
                 PROVE  /\ hits'[p] > 0 => Between(p)' /\ 2 * Abs(Slip(p)') <= Upper(Across', Down')
                        /\ Between(p)' => hits'[p] > 0
      OBVIOUS
    <3>1. Lower(x1, x2) = x1 /\ Upper(x1, x2) = x1
      BY <1>1, <1>7 DEF Lower, Upper
    <3>2. hits'[p] > 0 <=> Between(p)'
      BY <1>1, <1>5, <2>2, <3>1
    <3>3. ASSUME hits'[p] > 0 PROVE 2 * Abs(Slip(p)') <= Upper(Across', Down')
      <4>1. Abs(p[1] - x1) = 0
        BY <1>1, <1>5, <2>2, <3>3 DEF Abs
      <4>2. Abs(p[2] - y1) \in Int /\ Slip(p)' = 0 * Down' - Abs(p[2] - y1) * 0
        BY <1>5, <2>3, <4>1
      <4>3. Slip(p)' = 0
        BY <1>3, <4>2
      <4>4. Abs(Slip(p)') = 0
        BY <4>3 DEF Abs
      <4> QED  BY <1>3, <2>3, <4>4
    <3> QED  BY <3>2, <3>3
  <2>5. CallShape'
    BY <1>1, <1>2, <2>1 DEF DrawInv, CallShape
  <2> QED
    BY <2>1, <2>2, <2>4, <2>5 DEF CanvasTypeOK, LineGoesOn, LineIsNearest, TouchedOnce
<1>8. CASE y1 # y2 /\ x1 # x2
  <2>1. /\ x' = x1 /\ y' = y1 /\ err' = Across' - Down' /\ drawing' = TRUE /\ hits' = Blank
    BY <1>3, <1>8 DEF bot_canvas_draw_line
  <2>2. Across' > 0 /\ Down' > 0
    BY <1>1, <1>3, <1>8 DEF Abs
  <2>3. CallShape'
    BY <1>1, <1>2, <1>3, <2>1 DEF CallShape
  <2>4. CanvasTypeOK'
    <3>1. /\ Lower(x1, x2) <= x1 /\ x1 <= Upper(x1, x2)
          /\ Lower(y1, y2) <= y1 /\ y1 <= Upper(y1, y2)
      BY <1>1 DEF Lower, Upper
    <3> QED  BY <1>2, <2>1, <3>1, BlankIs DEF CanvasTypeOK, Between
  <2>5. LineGoesOn'
    <3>1. PICK q : q = <<x1, y1>>
      OBVIOUS
    <3>2. Slip(q)' = 0 /\ From(q)' = <<0, 0>>
      <4>1. From(q)' = <<0, 0>>
        BY <1>1, <1>2, <3>1 DEF From, Abs
      <4>2. Slip(q)' = 0 * Down' - 0 * Across'
        BY <4>1 DEF Slip
      <4> QED  BY <1>3, <4>1, <4>2
    <3>3. err' = Across' - Down' - Slip(q)' /\ 2 * Abs(Slip(q)') <= Upper(Across', Down')
      <4>1. Abs(0) = 0 /\ Upper(Across', Down') \in Int /\ Upper(Across', Down') >= Across'
        BY <1>3 DEF Abs, Upper
      <4> QED  BY <1>3, <2>1, <3>2, <4>1
    <3>4. ASSUME NEW p \in Pixel
          PROVE  /\ ~(hits'[p] > 0)
                 /\ ~(IF Across' >= Down' THEN From(p)'[1] < From(q)'[1]
                      ELSE From(p)'[2] < From(q)'[2])
      <4>1. From(p)'[1] \in Nat /\ From(p)'[2] \in Nat
        BY <1>2, <1>5 DEF From
      <4> QED  BY <2>1, <3>2, <4>1, BlankIs
    <3>5. q = <<x', y'>>
      BY <2>1, <3>1
    <3> QED  BY <2>2, <3>3, <3>4, <3>5 DEF LineGoesOn
  <2>6. LineIsNearest'
    BY <2>1 DEF LineIsNearest, Drawn
  <2>7. TouchedOnce'
    BY <2>1, BlankIs DEF TouchedOnce
  <2> QED  BY <2>3, <2>4, <2>5, <2>6, <2>7
<1> QED  BY <1>6, <1>7, <1>8

LEMMA RectDrawn ==
  ASSUME DrawInv, NEW x1 \in Coord, NEW y1 \in Coord, NEW w \in Extent, NEW h \in Extent,
         bot_canvas_draw_rect(x1, y1, w, h)
  PROVE  DrawInv'
<1>1. x1 \in Int /\ y1 \in Int /\ w \in Int /\ h \in Int
  BY CanvasAssumption
<1>2. /\ call'.op = "rect" /\ call'.x1 = x1 /\ call'.y1 = y1 /\ call'.w = w /\ call'.h = h
      /\ drawing' = FALSE /\ UNCHANGED <<x, y, err>>
      /\ hits' = IF w <= 0 \/ h <= 0 THEN Blank
                 ELSE vline(vline(hline(hline(Blank, x1, x1 + w - 1, y1),
                                        x1, x1 + w - 1, y1 + h - 1),
                                  x1, y1, y1 + h - 1), x1 + w - 1, y1, y1 + h - 1)
  BY DEF bot_canvas_draw_rect, Begin, Atomic
<1>3. /\ hits' \in [Pixel -> 0 .. 2]
      /\ \A p \in Pixel : hits'[p] > 0 <=>
            /\ x1 <= p[1] /\ p[1] < x1 + w /\ y1 <= p[2] /\ p[2] < y1 + h
            /\ \/ p[1] \in {x1, x1 + w - 1} \/ p[2] \in {y1, y1 + h - 1}
  <2>1. CASE w <= 0 \/ h <= 0
    <3>1. hits' = Blank
      BY <1>2, <2>1
    <3>2. \A p \in Pixel : ~(x1 <= p[1] /\ p[1] < x1 + w /\ y1 <= p[2] /\ p[2] < y1 + h)
      BY <1>1, <2>1, PixelIs
    <3> QED  BY <3>1, <3>2, BlankIs
  <2>2. CASE w > 0 /\ h > 0
    <3> DEFINE r == x1 + w - 1
               b == y1 + h - 1
               h1 == hline(Blank, x1, r, y1)
               h2 == hline(h1, x1, r, b)
               h3 == vline(h2, x1, y1, b)
               h4 == vline(h3, r, y1, b)
    <3>1. hits' = h4
      BY <1>1, <1>2, <2>2
    <3>2. r \in Int /\ b \in Int /\ x1 <= r /\ y1 <= b
      BY <1>1, <2>2
    <3>3. \A n \in Int : (n < x1 + w <=> n <= r) /\ (n < y1 + h <=> n <= b)
      BY <1>1
    <3> HIDE DEF r, b
    <3>4. Lower(x1, r) = x1 /\ Upper(x1, r) = r /\ Lower(y1, b) = y1 /\ Upper(y1, b) = b
      BY <1>1, <3>2 DEF Lower, Upper
    <3>5. /\ h1 \in [Pixel -> 0 .. 2]
          /\ \A p \in Pixel : h1[p] > 0 <=> p[2] = y1 /\ x1 <= p[1] /\ p[1] <= r
      BY <1>1, <3>2, <3>4, BlankIs, HlineIs
    <3> HIDE DEF h1
    <3>6. /\ h2 \in [Pixel -> 0 .. 2]
          /\ \A p \in Pixel : h2[p] > 0 <=> h1[p] > 0 \/ (p[2] = b /\ x1 <= p[1] /\ p[1] <= r)
      BY <1>1, <3>2, <3>4, <3>5, HlineIs
    <3> HIDE DEF h2
    <3>7. /\ h3 \in [Pixel -> 0 .. 2]
          /\ \A p \in Pixel : h3[p] > 0 <=> h2[p] > 0 \/ (p[1] = x1 /\ y1 <= p[2] /\ p[2] <= b)
      BY <1>1, <3>2, <3>4, <3>6, VlineIs
    <3> HIDE DEF h3
    <3>8. /\ h4 \in [Pixel -> 0 .. 2]
          /\ \A p \in Pixel : h4[p] > 0 <=> h3[p] > 0 \/ (p[1] = r /\ y1 <= p[2] /\ p[2] <= b)
      BY <1>1, <3>2, <3>4, <3>7, VlineIs
    <3> HIDE DEF h4
    <3>9. ASSUME NEW p \in Pixel
          PROVE  h4[p] > 0 <=>
                    /\ x1 <= p[1] /\ p[1] < x1 + w /\ y1 <= p[2] /\ p[2] < y1 + h
                    /\ \/ p[1] \in {x1, r} \/ p[2] \in {y1, b}
      <4>1. p[1] \in Int /\ p[2] \in Int
        BY PixelIs
      <4>2. h4[p] > 0 <=> \/ p[2] = y1 /\ x1 <= p[1] /\ p[1] <= r
                          \/ p[2] = b /\ x1 <= p[1] /\ p[1] <= r
                          \/ p[1] = x1 /\ y1 <= p[2] /\ p[2] <= b
                          \/ p[1] = r /\ y1 <= p[2] /\ p[2] <= b
        BY <3>5, <3>6, <3>7, <3>8
      <4>3. (p[1] < x1 + w <=> p[1] <= r) /\ (p[2] < y1 + h <=> p[2] <= b)
        BY <3>3, <4>1
      <4> QED  BY <1>1, <3>2, <4>1, <4>2, <4>3
    <3> QED  BY <3>1, <3>8, <3>9 DEF r, b
  <2> QED  BY <1>1, <2>1, <2>2
<1>4. CallShape'
  BY <1>1, <1>2 DEF DrawInv, CallShape
<1>5. CanvasTypeOK'
  BY <1>2, <1>3 DEF CanvasTypeOK
<1>6. RectIsFrame'
  BY <1>2, <1>3 DEF RectIsFrame, InBox
<1> QED
  BY <1>2, <1>4, <1>5, <1>6
  DEF DrawInv, CanvasInv, LineGoesOn, CircleGoesOn, LineIsNearest, CircleIsRound, DiscIsFull,
      TouchedOnce, BlendBetween

LEMMA BoxDrawn ==
  ASSUME DrawInv, NEW x1 \in Coord, NEW y1 \in Coord, NEW w \in Extent, NEW h \in Extent,
         bot_canvas_fill_rect(x1, y1, w, h)
  PROVE  DrawInv'
<1>1. x1 \in Int /\ y1 \in Int /\ w \in Int /\ h \in Int /\ Width \in Nat /\ Height \in Nat
  BY CanvasAssumption
<1>2. /\ call'.op = "box" /\ call'.x1 = x1 /\ call'.y1 = y1 /\ call'.w = w /\ call'.h = h
      /\ drawing' = FALSE /\ UNCHANGED <<x, y, err>>
      /\ hits' = [p \in Pixel |-> IF /\ w > 0 /\ h > 0
                                     /\ Upper(x1, 0) <= p[1] /\ p[1] < Lower(x1 + w, Width)
                                     /\ Upper(y1, 0) <= p[2] /\ p[2] < Lower(y1 + h, Height)
                                  THEN 1 ELSE 0]
  BY DEF bot_canvas_fill_rect, Begin, Atomic
<1>3. ASSUME NEW p \in Pixel
      PROVE  hits'[p] \in 0 .. 1 /\ (hits'[p] > 0 <=> /\ x1 <= p[1] /\ p[1] < x1 + w
                                                      /\ y1 <= p[2] /\ p[2] < y1 + h)
  <2>1. /\ p[1] \in 0 .. Width - 1 /\ p[2] \in 0 .. Height - 1
    BY DEF Pixel
  <2>2. /\ Upper(x1, 0) <= p[1] <=> x1 <= p[1]
        /\ p[1] < Lower(x1 + w, Width) <=> p[1] < x1 + w
        /\ Upper(y1, 0) <= p[2] <=> y1 <= p[2]
        /\ p[2] < Lower(y1 + h, Height) <=> p[2] < y1 + h
    BY <1>1, <2>1 DEF Upper, Lower
  <2>3. x1 <= p[1] /\ p[1] < x1 + w /\ y1 <= p[2] /\ p[2] < y1 + h => w > 0 /\ h > 0
    BY <1>1, <2>1
  <2> QED  BY <1>2, <2>2, <2>3
<1>4. hits' \in [Pixel -> 0 .. 2]
  <2>1. \A p \in Pixel : hits'[p] \in 0 .. 2
    BY <1>3
  <2>2. hits' = [p \in Pixel |-> hits'[p]]
    BY <1>2
  <2> QED  BY <2>1, <2>2
<1>5. CallShape'
  BY <1>1, <1>2 DEF DrawInv, CallShape
<1>6. CanvasTypeOK'
  BY <1>2, <1>4 DEF CanvasTypeOK
<1>7. RectIsFrame' /\ TouchedOnce'
  BY <1>2, <1>3 DEF RectIsFrame, InBox, TouchedOnce
<1> QED
  BY <1>2, <1>5, <1>6, <1>7
  DEF DrawInv, CanvasInv, LineGoesOn, CircleGoesOn, LineIsNearest, CircleIsRound, DiscIsFull,
      BlendBetween

LEMMA CircleBegins ==
  ASSUME DrawInv, NEW x1 \in Coord, NEW y1 \in Coord, NEW r \in Extent,
         NEW op \in {"circle", "disc"}, Circle(op, x1, y1, r)
  PROVE  DrawInv'
<1>1. x1 \in Int /\ y1 \in Int /\ r \in Int
  BY CanvasAssumption
<1>2. /\ call'.op = op /\ call'.x1 = x1 /\ call'.y1 = y1 /\ call'.r = r
      /\ hits' = Blank /\ drawing' = (r > 0)
      /\ x' = r /\ y' = 0 /\ err' = 1 - r
  BY DEF Circle, Begin
<1>3. CallShape'
  BY <1>1, <1>2 DEF CallShape
<1>4. CanvasTypeOK'
  <2>1. hits' \in [Pixel -> 0 .. 2]
    BY <1>2, BlankIs
  <2>2. drawing' => 0 <= y' /\ y' <= x' + 2 /\ x' <= call'.r
    <3> SUFFICES ASSUME r > 0 PROVE 0 <= y' /\ y' <= x' + 2 /\ x' <= call'.r
      BY <1>2
    <3> QED  BY <1>1, <1>2
  <2> QED  BY <1>2, <2>1, <2>2 DEF CanvasTypeOK
<1>5. CircleGoesOn'
  <2> SUFFICES ASSUME r > 0 PROVE CircleGoesOn'
    BY <1>2 DEF CircleGoesOn
  <2>1. r * r \in Nat
    BY <1>1, SquareIs
  <2>2. /\ call'.r > 0 /\ y' <= x'
        /\ x' * x' + y' * y' - call'.r * call'.r = 0
        /\ err' = x' * x' + y' * y' - call'.r * call'.r + 2 * y' + 1 - x'
    BY <1>1, <1>2, <2>1
  <2>3. Abs(x' * x' + y' * y' - call'.r * call'.r) <= x'
    BY <1>1, <1>2, <2>2 DEF Abs
  <2>4. \A p \in Pixel : ~(hits'[p] > 0)
    BY <1>2, BlankIs
  <2>5. ASSUME NEW p \in Pixel
        PROVE  /\ ~(Lower(From(p)'[1], From(p)'[2]) < y')
               /\ ~(From(p)'[2] \notin y' .. x' /\ Beyond(p)' <= 0)
    <3>1. p[1] \in Int /\ p[2] \in Int
      BY PixelIs
    <3>2. PICK a, b : a = Abs(p[1] - x1) /\ b = Abs(p[2] - y1)
      OBVIOUS
    <3>3. a \in Nat /\ b \in Nat
      BY <1>1, <3>1, <3>2, AbsIs
    <3>4. From(p)'[1] = a /\ From(p)'[2] = b
      BY <1>2, <3>2 DEF From
    <3>5. Beyond(p)' = a * a + b * b - r * r
      BY <1>2, <3>4 DEF Beyond
    <3>6. b > r => a * a + b * b - r * r > 0
      <4>1. a * a \in Nat /\ b * b \in Nat /\ (r < b => r * r + r + b <= b * b)
        BY <1>1, <3>3, SquareIs
      <4> QED  BY <1>1, <2>1, <3>3, <4>1
    <3>7. Lower(a, b) >= 0
      BY <3>3 DEF Lower
    <3>8. a * a + b * b - r * r \in Int
      BY <2>1, <3>3, SquareIs
    <3>9. ASSUME b \notin 0 .. r, a * a + b * b - r * r <= 0 PROVE FALSE
      BY <1>1, <3>3, <3>6, <3>8, <3>9
    <3>10. Lower(a, b) \in Int
      BY <3>3 DEF Lower
    <3> QED  BY <1>2, <3>4, <3>5, <3>7, <3>9, <3>10
  <2> QED  BY <2>2, <2>3, <2>4, <2>5 DEF CircleGoesOn
<1>6. CircleIsRound' /\ DiscIsFull'
  BY <1>2 DEF CircleIsRound, DiscIsFull, Drawn
<1> QED
  BY <1>2, <1>3, <1>4, <1>5, <1>6
  DEF DrawInv, CanvasInv, LineGoesOn, LineIsNearest, RectIsFrame, TouchedOnce, BlendBetween

(***************************************************************************)
(* What each drawing call of BotUI has drawn when it returns: the nearest  *)
(* pixels of a line, a circle of pixels less than about half a pixel away, *)
(* a disc without a hole, rectangles cut at the edges of the canvas, a     *)
(* blended colour between the two; for any canvas, any arguments and       *)
(* whatever of the shape is off the canvas.                                *)
(***************************************************************************)
THEOREM ShapesAreTrue == CanvasSpec => []CanvasInv
<1>1. CanvasInit => DrawInv
  <2> SUFFICES ASSUME CanvasInit PROVE DrawInv
    OBVIOUS
  <2>1. call.op = "none" /\ drawing = FALSE /\ x = 0 /\ y = 0 /\ err = 0 /\ hits = Blank
    BY DEF CanvasInit
  <2>2. hits \in [Pixel -> 0 .. 2]
    BY <2>1, BlankIs
  <2>3. CallShape
    <3>1. drawing \in BOOLEAN /\ ~drawing
      BY <2>1
    <3>2. x \in Int /\ y \in Int /\ err \in Int
      BY <2>1
    <3> QED  BY <2>1, <3>1, <3>2 DEF CallShape
  <2> QED
    BY <2>1, <2>2, <2>3
    DEF DrawInv, CanvasInv, CanvasTypeOK, LineGoesOn, CircleGoesOn, LineIsNearest, CircleIsRound,
        DiscIsFull, RectIsFrame, TouchedOnce, BlendBetween
<1>2. DrawInv /\ CanvasNext => DrawInv'
  BY PixelDrawn, LineBegins, RectDrawn, BoxDrawn, CircleBegins, LineKeeps, CircleEnds, CircleKeeps
  DEF CanvasNext
<1>3. DrawInv /\ UNCHANGED canvasVars => DrawInv'
  <2> SUFFICES ASSUME DrawInv, UNCHANGED canvasVars PROVE DrawInv'
    OBVIOUS
  <2>1. UNCHANGED <<call, hits, x, y, err, drawing>>
    BY DEF canvasVars
  <2> QED
    BY <2>1
    DEF DrawInv, CallShape, CanvasInv, CanvasTypeOK, LineGoesOn, CircleGoesOn, LineIsNearest,
        CircleIsRound, DiscIsFull, RectIsFrame, TouchedOnce, BlendBetween, Drawn, From, Across,
        Down, Between, Slip, Beyond, InBox
<1>4. DrawInv => CanvasInv
  BY DEF DrawInv
<1> QED  BY <1>1, <1>2, <1>3, <1>4, PTL DEF CanvasSpec

(***************************************************************************)
(* The fill tool of BotPaint, for a picture of any size, any colours and   *)
(* any allocations that fail.                                              *)
(***************************************************************************)
(* Pixels and what hangs together.                                         *)

LEMMA PointIsPair ==
    ASSUME NEW p \in Point
    PROVE  /\ p = <<p[1], p[2]>>
           /\ p[1] \in 0 .. Columns - 1 /\ p[2] \in 0 .. Lines - 1
  BY DEF Point

LEMMA PairIsPoint ==
    ASSUME NEW col \in 0 .. Columns - 1, NEW row \in 0 .. Lines - 1
    PROVE  <<col, row>> \in Point
  BY DEF Point

LEMMA StartInRegion ==
    start \in Point => start \in Region
  BY DEF Region

LEMMA RegionInPicture ==
    Region \subseteq Point
  BY DEF Region

LEMMA RegionGrows ==
    ASSUME start \in Point, NEW p \in Region, NEW q \in Near(p), before[q] = target
    PROVE  q \in Region
<1>1. q \in Point
  BY DEF Near
<1>2. ASSUME NEW S \in SUBSET Point, start \in S, Sealed(S)
      PROVE  q \in S
  <2>1. p \in S
    BY <1>2 DEF Region
  <2> QED  BY <1>2, <2>1 DEF Sealed
<1> QED  BY <1>1, <1>2 DEF Region

LEMMA RegionIsLeast ==
    ASSUME start \in Point, NEW S \in SUBSET Point, start \in S, Sealed(S)
    PROVE  Region \subseteq S
  BY DEF Region

LEMMA RegionIsTarget ==
    ASSUME NEW q \in Region
    PROVE  before[q] = target
<1>1. start \in Point
  BY DEF Region
<1> DEFINE S == {r \in Point : before[r] = target}
<1>2. start \in S
  BY <1>1 DEF target
<1>3. Sealed(S)
  BY DEF Sealed, Near
<1> HIDE DEF S
<1>4. Region \subseteq S
  <2>1. S \subseteq Point  BY DEF S
  <2> QED  BY <1>1, <1>2, <1>3, <2>1, RegionIsLeast
<1> QED  BY <1>4 DEF S

(* The given picture, start and colour do not change, so neither does what *)
(* is to be filled.                                                        *)
LEMMA GivenStays ==
    ASSUME UNCHANGED given
    PROVE  /\ before' = before /\ start' = start /\ fill' = fill
           /\ target' = target /\ Region' = Region
  BY DEF given, target, Region, Sealed

LEMMA SubSeqFacts ==
    ASSUME NEW S, NEW s \in Seq(S), Len(s) >= 1
    PROVE  LET t == SubSeq(s, 1, Len(s) - 1)
           IN  t \in Seq(S) /\ Len(t) = Len(s) - 1 /\ \A k \in 1 .. Len(t) : t[k] = s[k]
<1>1. Len(s) \in Nat /\ Len(s) - 1 \in Nat /\ 1 \in Int
  OBVIOUS
<1>2. \A k \in 1 .. Len(s) - 1 : s[k] \in S
  BY <1>1
<1>3. /\ SubSeq(s, 1, Len(s) - 1) \in Seq(S)
      /\ Len(SubSeq(s, 1, Len(s) - 1)) = IF 1 <= Len(s) - 1 THEN Len(s) - 1 - 1 + 1 ELSE 0
      /\ \A k \in 1 .. Len(s) - 1 - 1 + 1 : SubSeq(s, 1, Len(s) - 1)[k] = s[1 + k - 1]
  BY <1>1, <1>2, SubSeqProperties
<1>4. Len(SubSeq(s, 1, Len(s) - 1)) = Len(s) - 1
  <2> DEFINE n == Len(s)
             m == Len(SubSeq(s, 1, n - 1))
  <2>1. n \in Int /\ n >= 1 /\ m = IF 1 <= n - 1 THEN n - 1 - 1 + 1 ELSE 0
    BY <1>1, <1>3
  <2> HIDE DEF n, m
  <2>2. m = n - 1
    BY <2>1
  <2> QED  BY <2>2 DEF n, m
<1>5. \A k \in 1 .. Len(s) - 1 : SubSeq(s, 1, Len(s) - 1)[k] = s[k]
  <2> TAKE k \in 1 .. Len(s) - 1
  <2>1. k \in 1 .. Len(s) - 1 - 1 + 1 /\ 1 + k - 1 = k
    BY <1>1
  <2> QED  BY <1>3, <2>1
<1> QED  BY <1>3, <1>4, <1>5

-----------------------------------------------------------------------------
LEMMA FillInitInv == FillInit => FillInv
<1> SUFFICES ASSUME FillInit PROVE FillInv
  OBVIOUS
<1>0. \/ stack = <<start>> /\ start \in Point /\ fpc = "pop"
      \/ stack = <<>> /\ fpc = "done"
  BY DEF FillInit
<1>1. FillTypeOK
  <2>1. stack \in Seq(Point)
    <3>1. CASE stack = <<start>> /\ start \in Point
      BY <3>1
    <3>2. CASE stack = <<>>
      BY <3>2
    <3> QED  BY <1>0, <3>1, <3>2
  <2>2. before \in [Point -> Colour] /\ pic \in [Point -> Colour]
    BY FloodFillAssumption DEF FillInit
  <2>3. cap \in Nat /\ room \in Nat /\ short \in BOOLEAN
    BY FloodFillAssumption DEF FillInit
  <2>4. at \in Point \cup {<<Columns, 0>>}
    BY DEF FillInit
  <2> QED  BY <1>0, <2>1, <2>2, <2>3, <2>4 DEF FillInit, FillTypeOK
<1>2. Stacked \subseteq {start} /\ (Stacked # {} => start \in Point)
  BY DEF FillInit, Stacked
<1>3. Within
  BY <1>2, StartInRegion DEF FillInit, Within
<1>4. RunOK /\ RoomOK
  <2>1. Len(stack) <= 1
    BY <1>0
  <2>2. cap = InitialCap /\ room = InitialCap
    BY DEF FillInit
  <2> QED  BY <1>0, <2>1, <2>2, FloodFillAssumption DEF RunOK, RoomOK
<1>5. Frontier
  <2> SUFFICES ASSUME ~short, start \in Point, target # fill
               PROVE  /\ start \in Stacked
                      /\ \A p \in Point : ~(pic[p] = fill /\ before[p] = target)
    BY DEF Frontier, Pending, Near
  <2>1. stack = <<start>>
    BY DEF FillInit
  <2> QED  BY <2>1 DEF FillInit, Stacked
<1>6. (Working => start \in Point /\ target # fill) /\ (fpc = "done" => stack = <<>>)
  BY DEF FillInit, Working
<1> QED  BY <1>1, <1>3, <1>4, <1>5, <1>6 DEF FillInv

LEMMA PopKeepsFill ==
    ASSUME FillInv, Pop
    PROVE  FillInv'
<1> USE DEF FillInv
<1>0. UNCHANGED <<pic, cap, room, i, short>> /\ UNCHANGED given /\ fpc = "pop"
  BY DEF Pop
<1>g. /\ before' = before /\ start' = start /\ fill' = fill
      /\ target' = target /\ Region' = Region
  BY <1>0, GivenStays
<1>w. start \in Point /\ target # fill
  BY <1>0 DEF Working
<1>1. CASE stack = <<>>
  <2>1. fpc' = "done" /\ UNCHANGED <<stack, at, left, right>>
    BY <1>1 DEF Pop
  <2>2. Stacked' = Stacked
    BY <2>1 DEF Stacked
  <2>3. FillTypeOK' /\ RunOK' /\ RoomOK'
    BY <1>0, <1>g, <2>1 DEF FillTypeOK, RunOK, RoomOK
  <2>4. Within'
    BY <1>0, <1>g, <2>1, <2>2 DEF Within
  <2>5. Frontier'
    BY <1>0, <1>g, <2>1, <2>2 DEF Frontier, Pending, Near
  <2> QED  BY <1>1, <2>1, <2>3, <2>4, <2>5 DEF Working
<1>2. CASE stack # <<>>
  <2> DEFINE p == stack[Len(stack)]
  <2>1. /\ stack \in Seq(Point) /\ Len(stack) \in Nat /\ Len(stack) >= 1
        /\ stack' = SubSeq(stack, 1, Len(stack) - 1)
    BY <1>2 DEF Pop, FillTypeOK
  <2>2. /\ p \in Point /\ p \in Stacked
        /\ stack' \in Seq(Point) /\ Len(stack') = Len(stack) - 1
        /\ \A k \in 1 .. Len(stack') : stack'[k] = stack[k]
    <3>1. p \in Point
      BY <2>1
    <3>2. p \in Stacked
      BY <2>1 DEF Stacked
    <3>3. /\ stack' \in Seq(Point) /\ Len(stack') = Len(stack) - 1
          /\ \A k \in 1 .. Len(stack') : stack'[k] = stack[k]
      BY <2>1, SubSeqFacts
    <3> QED  BY <3>1, <3>2, <3>3
  <2>3. Stacked \subseteq Stacked' \cup {p} /\ Stacked' \subseteq Stacked
    BY <2>1, <2>2 DEF Stacked
  <2>4. p \in Region
    BY <2>2 DEF Within
  <2>5. p[1] \in 0 .. Columns - 1
    BY <2>2, PointIsPair
  <2>6. CASE pic[p] = target
    <3>1. at' = p /\ left' = p[1] /\ right' = p[1] /\ fpc' = "left"
      BY <1>2, <2>6 DEF Pop
    <3>2. \A q \in Point : q[2] = p[2] /\ p[1] <= q[1] /\ q[1] <= p[1] => q = p
      <4> TAKE q \in Point
      <4>1. q = <<q[1], q[2]>> /\ p = <<p[1], p[2]>> /\ q[1] \in Int
        BY <2>2, PointIsPair
      <4> QED  BY <2>5, <4>1
    <3>3. Run' = {p}
      BY <2>2, <2>5, <3>1, <3>2 DEF Run
    <3>4. FillTypeOK'
      BY <1>0, <1>g, <2>2, <2>5, <3>1 DEF FillTypeOK
    <3>5. RunOK'
      BY <2>2, <2>5, <3>1, FloodFillAssumption DEF RunOK
    <3>6. RoomOK'
      BY <1>0, <2>1, <2>2, <3>1 DEF RoomOK, FillTypeOK
    <3>7. Within'
      BY <1>0, <1>g, <2>3, <2>4, <2>6, <3>1, <3>3 DEF Within
    <3>8. Frontier'
      BY <1>0, <1>g, <2>3, <3>1, <3>3 DEF Frontier, Pending, Near
    <3> QED  BY <1>w, <1>g, <3>1, <3>4, <3>5, <3>6, <3>7, <3>8
  <2>7. CASE pic[p] # target
    <3>1. UNCHANGED <<at, left, right, fpc>>
      BY <1>2, <2>7 DEF Pop
    <3>2. FillTypeOK' /\ RunOK'
      BY <1>0, <1>g, <2>2, <3>1 DEF FillTypeOK, RunOK
    <3>3. RoomOK'
      BY <1>0, <2>1, <2>2, <3>1 DEF RoomOK, FillTypeOK
    <3>4. Within'
      BY <1>0, <1>g, <2>3, <3>1 DEF Within
    <3>5. Frontier'
      BY <1>0, <1>g, <1>w, <2>3, <2>7, <3>1 DEF Frontier, Pending, Near
    <3> QED  BY <1>w, <1>g, <1>0, <3>1, <3>2, <3>3, <3>4, <3>5
  <2> QED  BY <2>6, <2>7
<1> QED  BY <1>1, <1>2

LEMMA ScanLeftKeepsFill ==
    ASSUME FillInv, ScanLeft
    PROVE  FillInv'
<1> USE DEF FillInv
<1>0. /\ UNCHANGED <<pic, stack, cap, room, at, right, i, short>> /\ UNCHANGED given
      /\ fpc = "left"
  BY DEF ScanLeft
<1>g. /\ before' = before /\ start' = start /\ fill' = fill
      /\ target' = target /\ Region' = Region
  BY <1>0, GivenStays
<1>w. /\ start \in Point /\ target # fill /\ Stacked' = Stacked
      /\ at \in Point /\ 0 <= left /\ left <= at[1] /\ at[1] = right /\ right < Columns
      /\ left \in Int /\ right \in Int
      /\ at[1] \in 0 .. Columns - 1 /\ at[2] \in 0 .. Lines - 1
  BY <1>0, PointIsPair DEF Working, Stacked, RunOK, FillTypeOK
<1>1. CASE left > 0 /\ pic[<<left - 1, at[2]>>] = target
  <2> DEFINE n == <<left - 1, at[2]>>
  <2>1. left' = left - 1 /\ fpc' = "left"
    BY <1>0, <1>1 DEF ScanLeft
  <2>2. n \in Point
    <3>1. left - 1 \in 0 .. Columns - 1
      BY <1>1, <1>w, FloodFillAssumption
    <3> QED  BY <3>1, <1>w, PairIsPoint
  <2>3. Run' = Run \cup {n}
    <3>1. ASSUME NEW q \in Point
          PROVE  q \in Run' <=> q \in Run \/ q = n
      <4>1. q = <<q[1], q[2]>> /\ q[1] \in Int
        BY PointIsPair
      <4>2. q \in Run' <=> q[2] = at[2] /\ left - 1 <= q[1] /\ q[1] <= right
        BY <1>0, <2>1 DEF Run
      <4>3. q \in Run <=> q[2] = at[2] /\ left <= q[1] /\ q[1] <= right
        BY DEF Run
      <4>4. q = n <=> q[1] = left - 1 /\ q[2] = at[2]
        BY <4>1
      <4> QED  BY <1>w, <4>1, <4>2, <4>3, <4>4
    <3>2. Run \subseteq Point /\ Run' \subseteq Point
      BY DEF Run
    <3> QED  BY <2>2, <3>1, <3>2
  <2>4. n \in Region
    <3> DEFINE m == <<left, at[2]>>
    <3>1. m \in Point
      <4>1. left \in 0 .. Columns - 1
        BY <1>w, FloodFillAssumption
      <4> QED  BY <1>w, <4>1, PairIsPoint
    <3>2. m \in Run
      BY <1>w, <3>1 DEF Run
    <3>3. m \in Region
      BY <1>0, <3>2 DEF Within
    <3>4. n \in Near(m)
      BY <1>w, <2>2, <3>1 DEF Near
    <3>5. before[n] = target
      BY <1>1, <1>w, <2>2 DEF Within
    <3> QED  BY <1>w, <3>3, <3>4, <3>5, RegionGrows
  <2>5. FillTypeOK' /\ RoomOK'
    BY <1>0, <1>g, <1>w, <2>1 DEF FillTypeOK, RoomOK
  <2>6. RunOK'
    BY <1>0, <1>1, <1>w, <2>1 DEF RunOK
  <2>7. Within'
    <3>1. Run' \subseteq Region /\ \A q \in Run' : pic[q] = target
      BY <1>0, <1>1, <2>3, <2>4 DEF Within
    <3> QED  BY <1>0, <1>g, <1>w, <3>1 DEF Within
  <2>8. Frontier'
    BY <1>0, <1>g, <1>w, <2>1, <2>3 DEF Frontier, Pending, Near
  <2> QED  BY <1>0, <1>g, <1>w, <2>1, <2>5, <2>6, <2>7, <2>8
<1>2. CASE ~(left > 0 /\ pic[<<left - 1, at[2]>>] = target)
  <2>1. left' = left /\ fpc' = "right"
    BY <1>0, <1>2 DEF ScanLeft
  <2>2. Run' = Run
    BY <1>0, <2>1 DEF Run
  <2>3. FillTypeOK' /\ RoomOK'
    BY <1>0, <1>g, <2>1 DEF FillTypeOK, RoomOK
  <2>4. RunOK'
    BY <1>0, <1>g, <1>2, <1>w, <2>1 DEF RunOK
  <2>5. Within'
    BY <1>0, <1>g, <1>w, <2>1, <2>2 DEF Within
  <2>6. Frontier'
    BY <1>0, <1>g, <1>w, <2>1, <2>2 DEF Frontier, Pending, Near
  <2> QED  BY <1>0, <1>g, <1>w, <2>1, <2>3, <2>4, <2>5, <2>6
<1> QED  BY <1>1, <1>2

LEMMA RunDoneKeepsFill ==
    ASSUME FillInv, RunDone
    PROVE  FillInv'
<1> USE DEF FillInv
<1>0. /\ UNCHANGED <<pic, stack, cap, room, at, left, right, i, short>> /\ UNCHANGED given
      /\ fpc = "push" /\ i > right /\ fpc' = "pop"
  BY DEF RunDone
<1>g. /\ before' = before /\ start' = start /\ fill' = fill
      /\ target' = target /\ Region' = Region
  BY <1>0, GivenStays
<1>w. start \in Point /\ target # fill /\ Stacked' = Stacked
  BY <1>0 DEF Working, Stacked
<1>1. FillTypeOK' /\ RoomOK' /\ RunOK'
  BY <1>0, <1>g DEF FillTypeOK, RoomOK, RunOK
<1>2. Within'
  BY <1>0, <1>g, <1>w DEF Within
<1>3. Frontier'
  <2>1. \A p \in Run : ~(i <= p[1])
    <3> TAKE p \in Run
    <3>1. p \in Point /\ p[1] <= right
      BY DEF Run
    <3>2. p[1] \in Int
      BY <3>1, PointIsPair
    <3> QED  BY <1>0, <3>1, <3>2 DEF FillTypeOK
  <2> QED  BY <1>0, <1>g, <1>w, <2>1 DEF Frontier, Pending, Near
<1> QED  BY <1>0, <1>g, <1>w, <1>1, <1>2, <1>3

LEMMA PushFailsKeepsFill ==
    ASSUME FillInv, PushFails
    PROVE  FillInv'
<1> USE DEF FillInv
<1>0. /\ UNCHANGED <<pic, stack, room, at, left, right, i>> /\ UNCHANGED given
      /\ fpc = "push" /\ fpc' = "pop" /\ cap' = 2 * cap /\ short' = TRUE
  BY DEF PushFails
<1>g. /\ before' = before /\ start' = start /\ fill' = fill
      /\ target' = target /\ Region' = Region
  BY <1>0, GivenStays
<1>w. start \in Point /\ target # fill /\ Stacked' = Stacked
  BY <1>0 DEF Working, Stacked
<1>1. FillTypeOK' /\ RoomOK' /\ RunOK' /\ Frontier'
  BY <1>0, <1>g DEF FillTypeOK, RoomOK, RunOK, Frontier
<1>2. Within'
  BY <1>0, <1>g, <1>w DEF Within
<1> QED  BY <1>0, <1>g, <1>w, <1>1, <1>2

LEMMA ScanRightKeepsFill ==
    ASSUME FillInv, ScanRight
    PROVE  FillInv'
<1> USE DEF FillInv
<1>0. /\ UNCHANGED <<stack, cap, room, at, left, short>> /\ UNCHANGED given
      /\ fpc = "right"
  BY DEF ScanRight
<1>g. /\ before' = before /\ start' = start /\ fill' = fill
      /\ target' = target /\ Region' = Region
  BY <1>0, GivenStays
<1>w. /\ start \in Point /\ target # fill /\ Stacked' = Stacked
      /\ at \in Point /\ 0 <= left /\ left <= at[1] /\ at[1] <= right /\ right < Columns
      /\ left \in Int /\ right \in Int
      /\ at[1] \in 0 .. Columns - 1 /\ at[2] \in 0 .. Lines - 1
  BY <1>0, PointIsPair DEF Working, Stacked, RunOK, FillTypeOK
<1>r. Run \subseteq Point /\ Run \subseteq Region /\ \A q \in Run : pic[q] = target
  BY <1>0 DEF Run, Within
<1>1. CASE right < Columns - 1 /\ pic[<<right + 1, at[2]>>] = target
  <2> DEFINE n == <<right + 1, at[2]>>
  <2>1. right' = right + 1 /\ fpc' = "right" /\ pic' = pic /\ i' = i
    BY <1>0, <1>1 DEF ScanRight
  <2>2. n \in Point
    <3>1. right + 1 \in 0 .. Columns - 1
      BY <1>1, <1>w, FloodFillAssumption
    <3> QED  BY <3>1, <1>w, PairIsPoint
  <2>3. Run' = Run \cup {n}
    <3>1. ASSUME NEW q \in Point
          PROVE  q \in Run' <=> q \in Run \/ q = n
      <4>1. q = <<q[1], q[2]>> /\ q[1] \in Int
        BY PointIsPair
      <4>2. q \in Run' <=> q[2] = at[2] /\ left <= q[1] /\ q[1] <= right + 1
        BY <1>0, <2>1 DEF Run
      <4>3. q \in Run <=> q[2] = at[2] /\ left <= q[1] /\ q[1] <= right
        BY DEF Run
      <4>4. q = n <=> q[1] = right + 1 /\ q[2] = at[2]
        BY <4>1
      <4> QED  BY <1>w, <4>1, <4>2, <4>3, <4>4
    <3>2. Run \subseteq Point /\ Run' \subseteq Point
      BY DEF Run
    <3> QED  BY <2>2, <3>1, <3>2
  <2>4. n \in Region
    <3> DEFINE m == <<right, at[2]>>
    <3>1. m \in Point
      <4>1. right \in 0 .. Columns - 1
        BY <1>w, FloodFillAssumption
      <4> QED  BY <1>w, <4>1, PairIsPoint
    <3>2. m \in Run
      BY <1>w, <3>1 DEF Run
    <3>3. n \in Near(m)
      BY <1>w, <2>2, <3>1 DEF Near
    <3>4. before[n] = target
      BY <1>1, <1>w, <2>2 DEF Within
    <3> QED  BY <1>w, <1>r, <3>2, <3>3, <3>4, RegionGrows
  <2>5. FillTypeOK' /\ RoomOK'
    BY <1>0, <1>g, <1>w, <2>1 DEF FillTypeOK, RoomOK
  <2>6. RunOK'
    BY <1>0, <1>1, <1>g, <1>w, <2>1, FloodFillAssumption DEF RunOK
  <2>7. Within'
    <3>1. Run' \subseteq Region /\ \A q \in Run' : pic[q] = target
      BY <1>1, <1>r, <2>3, <2>4
    <3> QED  BY <1>0, <1>g, <1>w, <2>1, <3>1 DEF Within
  <2>8. Frontier'
    BY <1>0, <1>g, <1>w, <2>1, <2>3 DEF Frontier, Pending, Near
  <2> QED  BY <1>0, <1>g, <1>w, <2>1, <2>5, <2>6, <2>7, <2>8
<1>2. CASE ~(right < Columns - 1 /\ pic[<<right + 1, at[2]>>] = target)
  <2>1. /\ right' = right /\ fpc' = "push" /\ i' = left
        /\ pic' = [q \in Point |-> IF q[2] = at[2] /\ left <= q[1] /\ q[1] <= right
                                   THEN fill ELSE pic[q]]
    BY <1>0, <1>2 DEF ScanRight
  <2>2. Run' = Run
    BY <1>0, <2>1 DEF Run
  <2>3. \A q \in Point : pic'[q] = IF q \in Run THEN fill ELSE pic[q]
    BY <2>1 DEF Run
  <2>4. FillTypeOK'
    <3>1. pic' \in [Point -> Colour]
      BY <2>1 DEF FillTypeOK
    <3> QED  BY <1>0, <1>g, <1>w, <2>1, <3>1 DEF FillTypeOK
  <2>5. RoomOK' /\ RunOK'
    BY <1>0, <1>w, <2>1 DEF RoomOK, RunOK
  <2>6. Within'
    <3>1. \A q \in Run : before[q] = target
      BY <1>r, RegionIsTarget
    <3>2. \A q \in Point : pic'[q] # before[q] =>
              pic'[q] = fill /\ before[q] = target /\ q \in Region
      BY <1>r, <2>3, <3>1 DEF Within
    <3> QED  BY <1>0, <1>g, <1>w, <1>r, <2>1, <2>2, <3>2 DEF Within
  <2>7. Frontier'
    <3> SUFFICES ASSUME ~short
                 PROVE  /\ pic'[start] = target => start \in Stacked
                        /\ \A p \in Point : \A q \in Near(p) :
                              pic'[p] = fill /\ before[p] = target /\ pic'[q] = target =>
                                  \/ q \in Stacked
                                  \/ p \in Run /\ left <= p[1] /\ q[1] = p[1]
      BY <1>0, <1>g, <1>w, <2>1, <2>2 DEF Frontier, Pending, Near
    <3>1. pic'[start] = target => start \in Stacked
      BY <1>0, <1>w, <2>3 DEF Frontier, Pending
    <3>2. ASSUME NEW p \in Point, NEW q \in Near(p),
                 pic'[p] = fill, before[p] = target, pic'[q] = target
          PROVE  q \in Stacked \/ (p \in Run /\ left <= p[1] /\ q[1] = p[1])
      <4>1. q \in Point /\ q \notin Run /\ pic[q] = target
        BY <1>w, <2>3, <3>2 DEF Near
      <4>2. CASE p \notin Run
        <5>1. pic[p] = fill
          BY <2>3, <3>2, <4>2
        <5> QED  BY <1>0, <1>w, <3>2, <4>1, <5>1 DEF Frontier, Pending
      <4>3. CASE p \in Run /\ q[1] = p[1]
        BY <4>3 DEF Run
      <4>4. CASE p \in Run /\ q[1] # p[1]
        <5>1. /\ p[2] = at[2] /\ left <= p[1] /\ p[1] <= right
              /\ q[2] = p[2] /\ q[1] \in {p[1] - 1, p[1] + 1}
          BY <3>2, <4>4 DEF Near, Run
        <5>2. p[1] \in Int /\ q[1] \in 0 .. Columns - 1 /\ q = <<q[1], q[2]>>
          BY <4>1, PointIsPair
        <5>3. ~(left <= q[1] /\ q[1] <= right)
          BY <4>1, <5>1 DEF Run
        <5>4. CASE q[1] = left - 1
          BY <1>0, <1>w, <4>1, <5>1, <5>2, <5>4 DEF RunOK
        <5>5. CASE q[1] = right + 1
          <6>1. right < Columns - 1
            BY <1>w, <5>2, <5>5, FloodFillAssumption
          <6> QED  BY <1>2, <4>1, <5>1, <5>2, <5>5, <6>1
        <5> QED  BY <1>w, <5>1, <5>2, <5>3, <5>4, <5>5
      <4> QED  BY <4>2, <4>3, <4>4
    <3> QED  BY <3>1, <3>2
  <2> QED  BY <1>0, <1>g, <1>w, <2>1, <2>4, <2>5, <2>6, <2>7
<1> QED  BY <1>1, <1>2

(* What is pushed for a pixel of the run.                                  *)
LEMMA WantedFacts ==
    ASSUME pic \in [Point -> Colour], NEW col \in 0 .. Columns - 1, NEW row \in Int
    PROVE  /\ Wanted(col, row) \in Seq(Point) /\ Len(Wanted(col, row)) \in 0 .. 1
           /\ \A k \in 1 .. Len(Wanted(col, row)) :
                 /\ Wanted(col, row)[k] = <<col, row>> /\ <<col, row>> \in Point
                 /\ pic[<<col, row>>] = target
           /\ <<col, row>> \in Point /\ pic[<<col, row>>] = target =>
                 Len(Wanted(col, row)) = 1 /\ Wanted(col, row)[1] = <<col, row>>
<1> DEFINE n == <<col, row>>
<1>1. CASE row \in 0 .. Lines - 1 /\ pic[n] = target
  <2>1. n \in Point
    BY <1>1, PairIsPoint
  <2>2. Wanted(col, row) = <<n>>
    BY <1>1 DEF Wanted
  <2> HIDE DEF n
  <2>3. <<n>> \in Seq(Point) /\ Len(<<n>>) = 1 /\ <<n>>[1] = n
    BY <2>1
  <2>4. /\ Wanted(col, row) \in Seq(Point) /\ Len(Wanted(col, row)) = 1 /\ Wanted(col, row)[1] = n
        /\ pic[n] = target
    BY <1>1, <2>2, <2>3
  <2> QED  BY <2>1, <2>4 DEF n
<1>2. CASE ~(row \in 0 .. Lines - 1 /\ pic[n] = target)
  <2>1. Wanted(col, row) = <<>>
    BY <1>2 DEF Wanted
  <2>2. n \in Point => row \in 0 .. Lines - 1
    BY DEF Point
  <2> QED  BY <1>2, <2>1, <2>2
<1> QED  BY <1>1, <1>2

LEMMA PushKeepsFill ==
    ASSUME FillInv, Push
    PROVE  FillInv'
<1> USE DEF FillInv
<1> DEFINE W1 == Wanted(i, at[2] - 1)
           W2 == Wanted(i, at[2] + 1)
           pushed == stack \o W1 \o W2
           up == <<i, at[2] - 1>>
           down == <<i, at[2] + 1>>
<1>0. /\ UNCHANGED <<pic, at, left, right, short>> /\ UNCHANGED given
      /\ fpc = "push" /\ i <= right
      /\ cap' = IF Tight THEN 2 * cap ELSE cap
      /\ room' = IF Tight THEN cap' ELSE room
  BY DEF Push
<1>g. /\ before' = before /\ start' = start /\ fill' = fill
      /\ target' = target /\ Region' = Region
  BY <1>0, GivenStays
<1>w. /\ start \in Point /\ target # fill
      /\ at \in Point /\ 0 <= left /\ left <= i /\ right < Columns
      /\ left \in Int /\ right \in Int /\ i \in Int
      /\ at[1] \in 0 .. Columns - 1 /\ at[2] \in 0 .. Lines - 1
  BY <1>0, PointIsPair DEF Working, RunOK, FillTypeOK
<1>i. i \in 0 .. Columns - 1
  BY <1>0, <1>w, FloodFillAssumption
<1>1. /\ W1 \in Seq(Point) /\ Len(W1) \in 0 .. 1
      /\ \A k \in 1 .. Len(W1) : W1[k] = up /\ up \in Point /\ pic[up] = target
      /\ up \in Point /\ pic[up] = target => Len(W1) = 1 /\ W1[1] = up
  <2>1. at[2] - 1 \in Int /\ pic \in [Point -> Colour]
    BY <1>w DEF FillTypeOK
  <2> QED  BY <1>i, <2>1, WantedFacts
<1>2. /\ W2 \in Seq(Point) /\ Len(W2) \in 0 .. 1
      /\ \A k \in 1 .. Len(W2) : W2[k] = down /\ down \in Point /\ pic[down] = target
      /\ down \in Point /\ pic[down] = target => Len(W2) = 1 /\ W2[1] = down
  <2>1. at[2] + 1 \in Int /\ pic \in [Point -> Colour]
    BY <1>w DEF FillTypeOK
  <2> QED  BY <1>i, <2>1, WantedFacts
<1>p. (Len(pushed) <= room' => stack' = pushed /\ i' = i + 1 /\ fpc' = fpc) /\
      (~(Len(pushed) <= room') => fpc' = "beyond" /\ stack' = stack /\ i' = i)
  BY DEF Push
<1>t. Tight <=> Len(stack) + 2 >= cap
  BY DEF Tight
<1> HIDE DEF W1, W2, up, down
<1>3. /\ pushed \in Seq(Point)
      /\ Len(pushed) = Len(stack) + Len(W1) + Len(W2)
      /\ \A k \in 1 .. Len(stack) : pushed[k] = stack[k]
      /\ \A k \in 1 .. Len(W1) : pushed[Len(stack) + k] = W1[k]
      /\ \A k \in 1 .. Len(W2) : pushed[Len(stack) + Len(W1) + k] = W2[k]
      /\ \A k \in 1 .. Len(pushed) :
            \/ k \in 1 .. Len(stack)
            \/ k - Len(stack) \in 1 .. Len(W1)
            \/ k - (Len(stack) + Len(W1)) \in 1 .. Len(W2)
  <2> DEFINE s1 == stack \o W1
  <2>0. stack \in Seq(Point)
    BY DEF FillTypeOK
  <2>1. /\ s1 \in Seq(Point) /\ Len(s1) = Len(stack) + Len(W1)
        /\ \A k \in 1 .. Len(s1) : s1[k] = IF k <= Len(stack) THEN stack[k] ELSE W1[k - Len(stack)]
    BY <1>1, <2>0, ConcatProperties
  <2> HIDE DEF s1
  <2>2. /\ s1 \o W2 \in Seq(Point) /\ Len(s1 \o W2) = Len(s1) + Len(W2)
        /\ \A k \in 1 .. Len(s1) + Len(W2) :
              (s1 \o W2)[k] = IF k <= Len(s1) THEN s1[k] ELSE W2[k - Len(s1)]
    <3>1. s1 \in Seq(Point) /\ W2 \in Seq(Point)
      BY <1>2, <2>1
    <3> QED  BY ONLY <3>1, ConcatProperties
  <2>3. Len(stack) \in Nat /\ Len(W1) \in Nat /\ Len(W2) \in Nat
    BY <2>0, <1>1, <1>2
  <2>4. pushed = s1 \o W2
    BY DEF s1
  <2> HIDE DEF pushed
  <2> DEFINE a == Len(stack)
             b == Len(W1)
             c == Len(W2)
  <2>5. /\ Len(s1) = a + b /\ Len(pushed) = a + b + c /\ a \in Nat /\ b \in Nat /\ c \in Nat
        /\ \A k \in 1 .. a + b : s1[k] = IF k <= a THEN stack[k] ELSE W1[k - a]
        /\ \A k \in 1 .. a + b + c : pushed[k] = IF k <= a + b THEN s1[k] ELSE W2[k - (a + b)]
    BY <2>1, <2>2, <2>3, <2>4
  <2> HIDE DEF a, b, c
  <2>6. \A k \in 1 .. a : pushed[k] = stack[k]
    BY <2>5
  <2>7. \A k \in 1 .. b : pushed[a + k] = W1[k]
    <3> TAKE k \in 1 .. b
    <3>1. a + k \in 1 .. a + b /\ a + k \in 1 .. a + b + c /\ ~(a + k <= a) /\ a + k - a = k
      BY <2>5
    <3> QED  BY <2>5, <3>1
  <2>8. \A k \in 1 .. c : pushed[a + b + k] = W2[k]
    <3> TAKE k \in 1 .. c
    <3>1. a \in Nat /\ b \in Nat /\ c \in Nat
      BY <2>5
    <3> DEFINE n == a + b + k
    <3>2. n \in 1 .. a + b + c /\ ~(n <= a + b) /\ n - (a + b) = k
      BY <3>1
    <3>3. \A q \in 1 .. a + b + c : ~(q <= a + b) => pushed[q] = W2[q - (a + b)]
      BY <2>5
    <3> HIDE DEF n
    <3>4. pushed[n] = W2[n - (a + b)]
      BY <3>2, <3>3
    <3>5. pushed[n] = W2[k]
      BY <3>2, <3>4
    <3> QED  BY <3>5 DEF n
  <2>9. \A k \in 1 .. a + b + c : \/ k \in 1 .. a
                                  \/ k - a \in 1 .. b
                                  \/ k - (a + b) \in 1 .. c
    BY <2>5
  <2> QED  BY <2>2, <2>4, <2>5, <2>6, <2>7, <2>8, <2>9 DEF a, b, c
<1>4. Len(stack) \in Nat /\ Len(W1) \in 0 .. 1 /\ Len(W2) \in 0 .. 1
      /\ cap \in Nat /\ room \in Nat
  BY <1>1, <1>2 DEF FillTypeOK
<1> HIDE DEF pushed
<1>5. ~short => Len(pushed) <= room' /\ room' = cap' /\ cap' >= 2
  <2> SUFFICES ASSUME ~short
               PROVE  Len(pushed) <= room' /\ room' = cap' /\ cap' >= 2
    OBVIOUS
  <2>1. room = cap /\ cap >= 2 /\ Len(stack) <= cap
    BY DEF RoomOK
  <2>2. Len(pushed) = Len(stack) + Len(W1) + Len(W2)
    BY <1>3
  <2> DEFINE n == Len(stack)
             m == Len(pushed)
             w1 == Len(W1)
             w2 == Len(W2)
  <2>3. /\ n \in Nat /\ w1 \in 0 .. 1 /\ w2 \in 0 .. 1 /\ m = n + w1 + w2 /\ n <= cap
        /\ cap' = IF n + 2 >= cap THEN 2 * cap ELSE cap
        /\ room' = IF n + 2 >= cap THEN cap' ELSE room
    BY <1>0, <1>4, <1>t, <2>1, <2>2
  <2> HIDE DEF n, m, w1, w2
  <2>4. m <= room' /\ room' = cap' /\ cap' >= 2
    BY <1>4, <2>1, <2>3
  <2> QED  BY <2>4 DEF m
<1>6. cap' \in Nat /\ room' \in Nat
  BY <1>0, <1>4
<1>7. CASE ~(Len(pushed) <= room')
  <2>1. fpc' = "beyond" /\ stack' = stack /\ i' = i /\ short /\ Stacked' = Stacked
    BY <1>5, <1>7, <1>p DEF Stacked
  <2>2. FillTypeOK' /\ RoomOK' /\ RunOK' /\ Frontier'
    BY <1>0, <1>6, <1>g, <2>1 DEF FillTypeOK, RoomOK, RunOK, Frontier
  <2>3. Within'
    BY <1>0, <1>g, <2>1 DEF Within
  <2> QED  BY <1>0, <1>g, <1>w, <2>1, <2>2, <2>3 DEF Working
<1>8. CASE Len(pushed) <= room'
  <2>1. stack' = pushed /\ i' = i + 1 /\ fpc' = "push"
    BY <1>0, <1>8, <1>p
  <2>2. Stacked \subseteq Stacked'
    BY <1>3, <1>4, <2>1 DEF Stacked
  <2>3. up \in Point /\ pic[up] = target => up \in Stacked'
    <3> SUFFICES ASSUME up \in Point, pic[up] = target
                 PROVE  up \in Stacked'
      OBVIOUS
    <3>0. Len(W1) = 1 /\ W1[1] = up
      BY <1>1
    <3>1. pushed[Len(stack) + 1] = up
      <4>1. \A k \in 1 .. Len(W1) : pushed[Len(stack) + k] = W1[k]
        BY <1>3
      <4>2. 1 \in 1 .. Len(W1)
        BY <3>0
      <4> QED  BY <3>0, <4>1, <4>2
    <3>2. Len(stack) + 1 \in 1 .. Len(pushed)
      <4>1. Len(pushed) = Len(stack) + Len(W1) + Len(W2)
        BY <1>3
      <4> QED  BY <1>4, <3>0, <4>1
    <3> QED  BY <2>1, <3>1, <3>2 DEF Stacked
  <2>4. down \in Point /\ pic[down] = target => down \in Stacked'
    <3> SUFFICES ASSUME down \in Point, pic[down] = target
                 PROVE  down \in Stacked'
      OBVIOUS
    <3>0. Len(W2) = 1 /\ W2[1] = down
      BY <1>2
    <3>1. pushed[Len(stack) + Len(W1) + 1] = down
      <4>1. \A k \in 1 .. Len(W2) : pushed[Len(stack) + Len(W1) + k] = W2[k]
        BY <1>3
      <4>2. 1 \in 1 .. Len(W2)
        BY <3>0
      <4> QED  BY <3>0, <4>1, <4>2
    <3>2. Len(stack) + Len(W1) + 1 \in 1 .. Len(pushed)
      <4>1. Len(pushed) = Len(stack) + Len(W1) + Len(W2)
        BY <1>3
      <4> QED  BY <1>4, <3>0, <4>1
    <3> QED  BY <2>1, <3>1, <3>2 DEF Stacked
  <2>5. \A q \in Stacked' : \/ q \in Stacked
                            \/ q \in {up, down} /\ q \in Point /\ pic[q] = target
    <3> SUFFICES ASSUME NEW k \in 1 .. Len(pushed)
                 PROVE  \/ pushed[k] \in Stacked
                        \/ /\ pushed[k] \in {up, down} /\ pushed[k] \in Point
                           /\ pic[pushed[k]] = target
      BY <2>1 DEF Stacked
    <3>1. CASE k \in 1 .. Len(stack)
      BY <1>3, <3>1 DEF Stacked
    <3>2. CASE k - Len(stack) \in 1 .. Len(W1)
      <4>1. pushed[Len(stack) + (k - Len(stack))] = W1[k - Len(stack)]
        BY <1>3, <3>2
      <4>2. Len(stack) + (k - Len(stack)) = k
        BY <1>4, <1>3
      <4>3. pushed[k] = up /\ up \in Point /\ pic[up] = target
        BY <1>1, <3>2, <4>1, <4>2
      <4> QED  BY <4>3
    <3>3. CASE k - (Len(stack) + Len(W1)) \in 1 .. Len(W2)
      <4>1. pushed[Len(stack) + Len(W1) + (k - (Len(stack) + Len(W1)))]
                = W2[k - (Len(stack) + Len(W1))]
        BY <1>3, <3>3
      <4>2. Len(stack) + Len(W1) + (k - (Len(stack) + Len(W1))) = k
        BY <1>4, <1>3
      <4>3. pushed[k] = down /\ down \in Point /\ pic[down] = target
        BY <1>2, <3>3, <4>1, <4>2
      <4> QED  BY <4>3
    <3> QED  BY <1>3, <3>1, <3>2, <3>3
  <2>6. FillTypeOK' /\ RoomOK' /\ RunOK'
    <3>1. i' \in Int /\ left <= i' /\ stack' \in Seq(Point)
      BY <1>3, <1>w, <2>1
    <3>2. FillTypeOK'
      BY <1>0, <1>6, <1>g, <2>1, <3>1 DEF FillTypeOK
    <3>3. RoomOK'
      BY <1>0, <1>5, <1>8, <2>1 DEF RoomOK
    <3>4. RunOK'
      BY <1>0, <1>w, <2>1, <3>1 DEF RunOK
    <3> QED  BY <3>2, <3>3, <3>4
  <2>7. Within'
    <3> DEFINE m == <<i, at[2]>>
    <3>1. m \in Point
      BY <1>i, <1>w, PairIsPoint
    <3>2. \A q \in Stacked' : q \in Region
      <4>1. m \in Region
        <5>1. m \in Run
          BY <1>0, <1>w, <3>1 DEF Run
        <5> QED  BY <1>0, <5>1 DEF Within
      <4>2. ASSUME NEW q \in {up, down}, q \in Point, pic[q] = target
            PROVE  q \in Region
        <5>1. before[q] = target
          BY <1>w, <4>2 DEF Within
        <5>2. q \in Near(m)
          BY <1>w, <4>2 DEF Near, up, down
        <5> QED  BY <1>w, <4>1, <5>1, <5>2, RegionGrows
      <4>3. Stacked \subseteq Region
        BY DEF Within
      <4> QED  BY <2>5, <4>2, <4>3
    <3>3. Run' = Run
      BY <1>0 DEF Run
    <3> QED  BY <1>0, <1>g, <2>1, <3>2, <3>3 DEF Within
  <2>8. Frontier'
    <3> SUFFICES ASSUME ~short
                 PROVE  /\ pic[start] = target => start \in Stacked'
                        /\ \A p \in Point : \A q \in Near(p) :
                              pic[p] = fill /\ before[p] = target /\ pic[q] = target =>
                                  \/ q \in Stacked'
                                  \/ p \in Run /\ i + 1 <= p[1] /\ q[1] = p[1]
      <4>1. Run' = Run
        BY <1>0 DEF Run
      <4> QED  BY <1>0, <1>g, <1>w, <2>1, <4>1 DEF Frontier, Pending, Near
    <3>1. pic[start] = target => start \in Stacked'
      BY <1>0, <1>w, <2>2 DEF Frontier, Pending
    <3>2. ASSUME NEW p \in Point, NEW q \in Near(p),
                 pic[p] = fill, before[p] = target, pic[q] = target
          PROVE  q \in Stacked' \/ (p \in Run /\ i + 1 <= p[1] /\ q[1] = p[1])
      <4>1. q \in Stacked \/ (p \in Run /\ i <= p[1] /\ q[1] = p[1])
        BY <1>0, <1>w, <3>2 DEF Frontier, Pending
      <4>2. p[1] \in Int /\ q \in Point /\ q = <<q[1], q[2]>> /\ p[2] \in Int
        BY PointIsPair DEF Near
      <4>3. CASE p \in Run /\ p[1] = i /\ q[1] = p[1]
        <5>1. q[2] = at[2] - 1 \/ q[2] = at[2] + 1
          BY <4>2, <4>3 DEF Near, Run
        <5>2. q = up \/ q = down
          BY <4>2, <4>3, <5>1 DEF up, down
        <5> QED  BY <2>3, <2>4, <3>2, <4>2, <5>2
      <4> QED  BY <1>w, <2>2, <4>1, <4>2, <4>3
    <3> QED  BY <3>1, <3>2
  <2> QED  BY <1>0, <1>g, <1>w, <2>1, <2>6, <2>7, <2>8
<1> QED  BY <1>7, <1>8

LEMMA StutterKeepsFill ==
    ASSUME FillInv, UNCHANGED fillVars
    PROVE  FillInv'
<1>0. /\ UNCHANGED <<pic, stack, cap, room, at, left, right, i, short, fpc>>
      /\ UNCHANGED given
  BY DEF fillVars, given
<1>g. /\ before' = before /\ start' = start /\ fill' = fill
      /\ target' = target /\ Region' = Region
  BY <1>0, GivenStays
<1>w. Stacked' = Stacked /\ Run' = Run /\ (Working' <=> Working)
  BY <1>0 DEF Stacked, Run, Working
<1>1. FillTypeOK' /\ RunOK' /\ RoomOK'
  BY <1>0, <1>g DEF FillInv, FillTypeOK, RunOK, RoomOK
<1>2. Within' /\ Frontier'
  BY <1>0, <1>g, <1>w DEF FillInv, Within, Frontier, Pending, Near
<1> QED  BY <1>0, <1>g, <1>w, <1>1, <1>2 DEF FillInv

-----------------------------------------------------------------------------
(* What is painted lies within the region, the scanned run is as long as   *)
(* it can be, and what is left to paint is on the stack, in the run or     *)
(* beside it, whatever the picture, at every step of flood_fill.           *)
THEOREM FillInvariant == FillSpec => []FillInv
<1>1. FillInit => FillInv
  BY FillInitInv
<1>2. FillInv /\ [FillNext]_fillVars => FillInv'
  <2> SUFFICES ASSUME FillInv, [FillNext]_fillVars
               PROVE  FillInv'
    OBVIOUS
  <2>1. CASE Pop        BY <2>1, PopKeepsFill
  <2>2. CASE ScanLeft   BY <2>2, ScanLeftKeepsFill
  <2>3. CASE ScanRight  BY <2>3, ScanRightKeepsFill
  <2>4. CASE Push       BY <2>4, PushKeepsFill
  <2>5. CASE PushFails  BY <2>5, PushFailsKeepsFill
  <2>6. CASE RunDone    BY <2>6, RunDoneKeepsFill
  <2>7. CASE UNCHANGED fillVars  BY <2>7, StutterKeepsFill
  <2> QED  BY <2>1, <2>2, <2>3, <2>4, <2>5, <2>6, <2>7 DEF FillNext, FillStep
<1> QED  BY <1>1, <1>2, PTL DEF FillSpec

(* When nothing waits any more, the painted pixels are closed: the whole   *)
(* region is among them.                                                   *)
LEMMA DoneIsRegion == FillInv => FillIsRegion
<1> SUFFICES ASSUME FillInv, fpc = "done"
             PROVE  /\ \A q \in Point : pic[q] # before[q] => pic[q] = fill /\ q \in Region
                    /\ short \/ \A q \in Region : pic[q] = fill
  BY DEF FillIsRegion
<1>1. \A q \in Point : pic[q] # before[q] => pic[q] = fill /\ q \in Region
  BY DEF FillInv, Within
<1>2. ASSUME ~short PROVE \A q \in Region : pic[q] = fill
  <2>1. CASE start \notin Point
    BY <2>1 DEF Region
  <2>2. CASE start \in Point /\ target = fill
    <3>1. ASSUME NEW q \in Region PROVE pic[q] = fill
      BY <2>2, RegionIsTarget, RegionInPicture DEF FillInv, Within
    <3> QED  BY <3>1
  <2>3. CASE start \in Point /\ target # fill
    <3> DEFINE S == {q \in Point : pic[q] = fill /\ before[q] = target}
    <3>1. Stacked = {} /\ \A q \in Point : ~Pending(q)
      <4>1. stack = <<>>
        BY DEF FillInv
      <4> QED  BY <4>1 DEF Stacked, Pending
    <3>2. start \in S
      <4>1. pic[start] # target
        BY <1>2, <2>3, <3>1 DEF FillInv, Frontier
      <4> QED  BY <2>3, <4>1 DEF FillInv, Within, target
    <3>3. Sealed(S)
      <4> SUFFICES ASSUME NEW p \in S, NEW q \in Near(p), before[q] = target
                   PROVE  q \in S
        BY DEF Sealed
      <4>1. q \in Point
        BY DEF Near
      <4>2. pic[q] # target
        BY <1>2, <2>3, <3>1, <4>1 DEF FillInv, Frontier
      <4> QED  BY <4>1, <4>2 DEF FillInv, Within
    <3>4. S \in SUBSET Point
      OBVIOUS
    <3> HIDE DEF S
    <3>5. Region \subseteq S
      BY <2>3, <3>2, <3>3, <3>4, RegionIsLeast
    <3> QED  BY <3>5 DEF S
  <2> QED  BY <2>1, <2>2, <2>3
<1> QED  BY <1>1, <1>2

(* BotPaint's fill paints what hangs together with the pixel that was hit, *)
(* and nothing else, in a picture of any size; and it never writes past    *)
(* its stack unless the stack could not grow.                              *)
THEOREM FillIsSafe == FillSpec => []FillSafe
<1>1. FillInv => FillSafe
  BY DoneIsRegion DEF FillSafe, StackFits, FillInv, RoomOK
<1> QED  BY <1>1, FillInvariant, PTL
=============================================================================
