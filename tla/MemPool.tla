------------------------------ MODULE MemPool ------------------------------
(***************************************************************************)
(* The memory pool of libbot, src/sdk/libbot/src/bot_mem.c: blocks of one  *)
(* size, a map of which are taken, and a counter.                          *)
(*                                                                         *)
(* A block has one content, 0 when it is zeroed.  The callers keep to the  *)
(* header: a pointer that is freed was returned by the allocator and is    *)
(* freed once, or again while nobody has it (which the pool ignores).      *)
(***************************************************************************)
EXTENDS Integers, FiniteSets

CONSTANTS MaxBlocks,       \* max_blocks
          Clients, NoOne,
          Value            \* what clients write

ASSUME MemPoolAssumption == /\ MaxBlocks \in Nat \ {0}
                            /\ NoOne \notin Clients
                            /\ 0 \in Value

VARIABLES freeMap,     \* block -> whether it is allocated
          usedBlocks,  \* the counter
          memory,      \* block -> its content
          holder       \* block -> who got it, NoOne

poolVars == <<freeMap, usedBlocks, memory, holder>>

Blocks == 1..MaxBlocks
Allocated == {b \in Blocks : freeMap[b]}

-----------------------------------------------------------------------------
(* bot_pool_create: everything zeroed by calloc. *)
PoolInit ==
    /\ freeMap = [b \in Blocks |-> FALSE]
    /\ usedBlocks = 0
    /\ memory = [b \in Blocks |-> 0]
    /\ holder = [b \in Blocks |-> NoOne]

(* bot_pool_alloc: the first block that is free, unless the counter says   *)
(* that there is none.                                                     *)
Alloc(c) ==
    /\ usedBlocks < MaxBlocks
    /\ \E b \in Blocks :
         /\ ~freeMap[b] /\ \A a \in Blocks : a < b => freeMap[a]
         /\ freeMap' = [freeMap EXCEPT ![b] = TRUE]
         /\ holder' = [holder EXCEPT ![b] = c]
    /\ usedBlocks' = usedBlocks + 1
    /\ UNCHANGED memory

(* Mutant of Free: the block keeps its content. *)
FreeKeeps(b) ==
    /\ freeMap[b]
    /\ freeMap' = [freeMap EXCEPT ![b] = FALSE]
    /\ usedBlocks' = usedBlocks - 1
    /\ holder' = [holder EXCEPT ![b] = NoOne]
    /\ UNCHANGED memory

(* bot_pool_free: a block that is not allocated is left alone. *)
Free(b) ==
    /\ freeMap[b]
    /\ freeMap' = [freeMap EXCEPT ![b] = FALSE]
    /\ usedBlocks' = usedBlocks - 1
    /\ memory' = [memory EXCEPT ![b] = 0]
    /\ holder' = [holder EXCEPT ![b] = NoOne]

(* A client writes to a block that it got. *)
WriteBlock(c, b, v) ==
    /\ holder[b] = c
    /\ memory' = [memory EXCEPT ![b] = v]
    /\ UNCHANGED <<freeMap, usedBlocks, holder>>

PoolNext == \/ \E c \in Clients : Alloc(c)
            \/ \E b \in Blocks : Free(b)
            \/ \E c \in Clients, b \in Blocks, v \in Value : WriteBlock(c, b, v)

PoolSpec == PoolInit /\ [][PoolNext]_poolVars

-----------------------------------------------------------------------------
(* Properties *)

(* The state is of its type. *)
PoolTypeOK ==
    /\ freeMap \in [Blocks -> BOOLEAN]
    /\ usedBlocks \in 0..MaxBlocks
    /\ memory \in [Blocks -> Value]
    /\ holder \in [Blocks -> Clients \cup {NoOne}]

(* The counter that decides whether there is a block is the number of      *)
(* blocks that are taken, and those are the ones that somebody has.        *)
UsedIsCount ==
    /\ usedBlocks = Cardinality(Allocated)
    /\ \A b \in Blocks : freeMap[b] <=> holder[b] # NoOne

(* What bot_pool_alloc hands out is zeroed: no client reads what another   *)
(* left in the block.                                                      *)
FreshIsZero == \A b \in Blocks : ~freeMap[b] => memory[b] = 0

(* An allocation is refused only when every block is taken. *)
RefusedWhenFull == usedBlocks >= MaxBlocks => \A b \in Blocks : freeMap[b]

PoolInv == PoolTypeOK /\ UsedIsCount /\ FreshIsZero
=============================================================================
