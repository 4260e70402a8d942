---------------------------- MODULE BuddyAllocator ----------------------------
(***************************************************************************)
(* BuddyAllocator<MAX_ALLOCATABLE_BYTES> of                                *)
(* allocator/src/buddy_allocator.rs over the intrusive free lists of       *)
(* intrusive_linked_list/src/lib.rs.  The unit of memory is                *)
(* MINIMUM_ALLOCATABLE_BYTES, the size of a list node.  Each operation     *)
(* runs under the allocator's lock and is one action.                      *)
(***************************************************************************)
EXTENDS IntrusiveLinkedList, FiniteSetsExt

CONSTANTS
    LEVELS,  \* number of free lists; the largest block has 2^(LEVELS-1) units
    Chunks,  \* addresses of the blocks alloc_heap can deliver
    Layouts, \* the [size, align] of the requests
    MaxLive  \* bound: allocations alive at a time

(* MINIMUM_ALLOCATABLE_BYTES_LEVELS is 0 in units of the smallest block. *)
shl[n \in Nat] == IF n = 0 THEN 1 ELSE 2 * shl[n - 1] \* 1 << n
level2size(level) == shl[level]
MAX_ALLOCATABLE_BYTES == level2size(LEVELS - 1)

Levels == 0 .. LEVELS - 1
Block(ptr, level) == ptr .. ptr + level2size(level) - 1
Cells(blocks) == UNION {Block(x[1], x[2]) : x \in blocks}
Memory == Cells(Chunks \X {LEVELS - 1})

ASSUME LevelsAssumption == LEVELS \in Nat \ {0}
ASSUME ChunksAssumption ==
    /\ IsFiniteSet(Chunks)
    /\ \A c \in Chunks : /\ c \in Nat
                         /\ c > LEVELS
                         /\ c % MAX_ALLOCATABLE_BYTES = 0
(* alloc is called for requests of up to MAX_ALLOCATABLE_BYTES (lib.rs:120). *)
ASSUME LayoutsAssumption ==
    \A l \in Layouts : /\ l.size \in 1 .. MAX_ALLOCATABLE_BYTES
                       /\ \E k \in Levels : l.align = level2size(k)

VARIABLES
    next,       \* first word of every cell: the heads 0 .. LEVELS-1 and the memory
    total_size,
    allocated,
    chunks,     \* ghost: the chunks alloc_heap has delivered
    live        \* ghost: the allocations, [ptr, size, align]

vars == <<next, total_size, allocated, chunks, live>>

(* size2level_next_power: the level of the smallest block that holds size. *)
size2level_next_power(size) == Min({k \in Levels : level2size(k) >= size})

(* required_size in alloc *)
RequiredLevel(l) == size2level_next_power(Max({l.size, l.align}))

(* BuddyAllocator::new *)
Init ==
    /\ next = [c \in Levels \cup Memory |-> IF c \in Levels THEN NULL ELSE JUNK]
    /\ total_size = 0
    /\ allocated = 0
    /\ chunks = {}
    /\ live = {}

-------------------------------------------------------------------------------
(* alloc *)

Available(level) == {k \in level .. LEVELS - 1 : ~is_none(next, k)}

Split_WrongHalf(n, i) ==
    LET block == n[i]
    IN  push(push(pop(n, i), i - 1, block + level2size(i)), i - 1, block)

(* One turn of the split loop: the head of list i becomes two blocks of i - 1. *)
Split(n, i) ==
    LET block == n[i]
    IN  push(push(pop(n, i), i - 1, block + level2size(i - 1)), i - 1, block)

SplitDown(n, from, to) ==
    LET After[j \in 0 .. from - to] ==
          IF j = 0 THEN n ELSE Split(After[j - 1], from + 1 - j)
    IN  After[from - to]

(* The owner of [ptr, ptr + size) may store anything there. *)
Scribbled(n, ptr, level) == [c \in DOMAIN n |-> IF c \in Block(ptr, level) THEN JUNK ELSE n[c]]

(* Splits n down from free_level and takes the first block of the level. *)
Take(n, free_level, l) ==
    LET level == RequiredLevel(l)
        split == SplitDown(n, free_level, level)
        ptr == split[level]
    IN  /\ next' = Scribbled(pop(split, level), ptr, level)
        /\ allocated' = allocated + level2size(level)
        /\ live' = live \cup {[ptr |-> ptr, size |-> l.size, align |-> l.align]}

alloc(l) ==
    /\ Cardinality(live) < MaxLive
    /\ Available(RequiredLevel(l)) # {}
    /\ Take(next, Min(Available(RequiredLevel(l))), l)
    /\ UNCHANGED <<total_size, chunks>>

(***************************************************************************)
(* No block is large enough: alloc_heap is asked for a chunk, which        *)
(* set_memory puts on the top list.  If it has none, alloc is an Err and   *)
(* no step.                                                                *)
(***************************************************************************)
set_memory(n, c) == push_back(n, LEVELS - 1, c)

alloc_refill(l, c) ==
    /\ Cardinality(live) < MaxLive
    /\ Available(RequiredLevel(l)) = {}
    /\ c \notin chunks
    /\ chunks' = chunks \cup {c}
    /\ total_size' = total_size + MAX_ALLOCATABLE_BYTES
    /\ Take(set_memory(next, c), LEVELS - 1, l)

-------------------------------------------------------------------------------
(* dealloc *)

Buddy(ptr, level) ==
    IF ptr % level2size(level + 1) = 0 THEN ptr + level2size(level)
                                       ELSE ptr - level2size(level)

MergeStep_NoMerge(acc, level) ==
    IF acc.done THEN acc
    ELSE [acc EXCEPT !.n = add_with_sort(@, level, acc.ptr), !.done = TRUE]

(* One turn of the merge loop, at a level below the top. *)
MergeStep(acc, level) ==
    LET buddy_addr == Buddy(acc.ptr, level)
    IN  IF acc.done THEN acc
        ELSE IF Linked(acc.n, level, buddy_addr)
        THEN [acc EXCEPT !.n = remove_if(@, level, buddy_addr), !.ptr = Min({@, buddy_addr})]
        ELSE [acc EXCEPT !.n = add_with_sort(@, level, acc.ptr), !.done = TRUE]

Merge(n, ptr, level) ==
    LET turns == LEVELS - 1 - level
        After[j \in 0 .. turns] ==
          IF j = 0 THEN [n |-> n, ptr |-> ptr, done |-> FALSE]
                   ELSE MergeStep(After[j - 1], level - 1 + j)
        acc == After[turns]
    IN  IF acc.done THEN acc.n ELSE push_back(acc.n, LEVELS - 1, acc.ptr)

dealloc_NoAccount(r) ==
    /\ next' = Merge(next, r.ptr, size2level_next_power(r.size))
    /\ live' = live \ {r}
    /\ UNCHANGED <<total_size, allocated, chunks>>

(* The level comes from the layout's size alone. *)
dealloc(r) ==
    LET level == size2level_next_power(r.size)
    IN  /\ next' = Merge(next, r.ptr, level)
        /\ allocated' = allocated - level2size(level)
        /\ live' = live \ {r}
        /\ UNCHANGED <<total_size, chunks>>

-------------------------------------------------------------------------------
Next ==
    \/ \E l \in Layouts : alloc(l)
    \/ \E l \in Layouts, c \in Chunks : alloc_refill(l, c)
    \/ \E r \in live : dealloc(r)

Spec == Init /\ [][Next]_vars

-------------------------------------------------------------------------------
FreeBlocks(level) == ToSet(Nodes(next, level))
Free == UNION {FreeBlocks(k) \X {k} : k \in Levels}
Taken == {<<r.ptr, RequiredLevel(r)>> : r \in live}
Delivered == Cells(chunks \X {LEVELS - 1})

(***************************************************************************)
(* push, pop, remove_if and add_with_sort: every free list ends, links no  *)
(* memory twice and never runs through memory that is in use.              *)
(***************************************************************************)
FreeListsSound ==
    \A k \in Levels : JUNK \notin FreeBlocks(k) /\ IsInjective(Nodes(next, k))

(***************************************************************************)
(* alloc, the split loop and the merge loop: free blocks and allocations   *)
(* never overlap, lie in memory alloc_heap delivered, and are aligned to   *)
(* their size, so an allocation has the alignment its layout asks for.     *)
(***************************************************************************)
BlocksDisjoint ==
    /\ \A x, y \in Free \cup Taken : x # y => Block(x[1], x[2]) \cap Block(y[1], y[2]) = {}
    /\ \A x \in Free \cup Taken :
          /\ x[1] % level2size(x[2]) = 0
          /\ Block(x[1], x[2]) \subseteq Delivered
    /\ \A r \in live : r.ptr % r.align = 0

(***************************************************************************)
(* Nothing leaks: all memory the heap delivered is in a free block or in   *)
(* an allocation, and the two counters say how much there is of it and how *)
(* much is allocated (the tests assert that allocated is 0 in the end).    *)
(***************************************************************************)
NothingLeaks ==
    /\ Cells(Free) \cup Cells(Taken) = Delivered
    /\ total_size = Cardinality(Delivered)
    /\ allocated = Cardinality(Cells(Taken))

(***************************************************************************)
(* dealloc merges as far as it can: below the top no two buddies are both  *)
(* free, so once everything is freed every chunk is whole again.           *)
(***************************************************************************)
Coalesced ==
    \A k \in 0 .. LEVELS - 2 : \A ptr \in FreeBlocks(k) : Buddy(ptr, k) \notin FreeBlocks(k)
===============================================================================
