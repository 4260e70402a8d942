-------------------------- MODULE RangeListAllocator --------------------------
(***************************************************************************)
(* MemoryBlock of allocator/src/range_list_allocator.rs behind the entry   *)
(* points of allocator/src/lib.rs, each of which runs under one lock and   *)
(* is one action.  Addresses count units of memory.                        *)
(*                                                                         *)
(* Before finalization the lists hold the available and the reserved       *)
(* memory the device tree names; check_regions subtracts one from the      *)
(* other; from then on the reserved list records the live allocations and  *)
(* the tables grow into memory taken from the allocator itself.            *)
(***************************************************************************)
EXTENDS RangeLists

CONSTANTS
    Top,              \* every address is below Top
    CAPACITY,         \* entries of a static table (128)
    MAX_REGIONS,      \* largest list check_regions accepts (120)
    HEADROOM,         \* free entries wanted before an operation (10)
    ENTRIES_PER_UNIT, \* table entries that fit one unit of memory
    TABLE_ALIGN,      \* alignment of a grown table (4096)
    Available,        \* the regions add_available_region is called with
    Reservations,     \* the regions add_reserved_region is called with
    Requests,         \* [size, align, range] of allocate_dynamic_reserved_region
    Layouts,          \* [size, align] of the allocations
    BootBytes,        \* what trim_for_boot may keep for the boot loader
    MaxLive,          \* bound: allocations alive at a time
    MaxDynamic        \* bound: dynamic reservations made

ASSUME TablesAssumption ==
    /\ {CAPACITY, MAX_REGIONS, HEADROOM, ENTRIES_PER_UNIT, TABLE_ALIGN} \subseteq Nat \ {0}
    /\ CAPACITY >= 3 /\ HEADROOM >= 3
    /\ ENTRIES_PER_UNIT <= CAPACITY

ASSUME InputsAssumption ==
    /\ Top \in Nat
    /\ \A r \in Available \cup Reservations :
          r \in [address : Nat, size : Nat] /\ End(r) <= Top
    /\ \A q \in Requests : /\ q.size \in Nat /\ q.align \in Nat \ {0}
                           /\ q.range = <<>> \/ q.range \in Nat \X Nat
    /\ \A l \in Layouts : l.size \in Nat \ {0} /\ l.align \in Nat \ {0}
    /\ BootBytes \subseteq Nat \ {0}

VARIABLES
    regions, reserved,           \* the two lists
    region_capacity, reserved_capacity,
    allocatable,
    fault,                       \* the panic that stopped the machine, or "none"
    dynamic, live, tables,       \* ghosts: ranges handed out by dynamic reservation,
                                 \* by allocation, and taken for the tables
    pinned,                      \* ghost: addresses reserved explicitly
    managed,                     \* ghost: addresses made allocatable by finalize
    handoff                      \* ghost: what trim_for_boot returned

vars == <<regions, reserved, region_capacity, reserved_capacity, allocatable, fault,
          dynamic, live, tables, pinned, managed, handoff>>

UnitsOf(ranges) == UNION {Units(r) : r \in ranges}

(* The part of the state the operations compute on. *)
Block == [regions |-> regions, reserved |-> reserved,
          rcap |-> region_capacity, vcap |-> reserved_capacity,
          tables |-> tables, fault |-> fault, addr |-> NONE]

Install(b) ==
    /\ regions' = b.regions
    /\ reserved' = b.reserved
    /\ region_capacity' = b.rcap
    /\ reserved_capacity' = b.vcap
    /\ tables' = b.tables
    /\ fault' = b.fault

(* MemoryBlock::init *)
Init ==
    /\ regions = <<>> /\ reserved = <<>>
    /\ region_capacity = CAPACITY /\ reserved_capacity = CAPACITY
    /\ allocatable = FALSE
    /\ fault = "none"
    /\ dynamic = {} /\ live = {} /\ tables = {}
    /\ pinned = {} /\ managed = {} /\ handoff = {}

-------------------------------------------------------------------------------
(* Before finalization *)

(* add_region_internal refuses a full table before it looks at the region. *)
HasRoom(list, capacity) == Len(list) + 1 <= capacity

(* A region that is added while the table is full is an Err and no step. *)
add_available_region(r) ==
    /\ fault = "none"
    /\ ~allocatable
    /\ HasRoom(regions, region_capacity)
    /\ regions' = AddRegion(regions, r)
    /\ UNCHANGED <<reserved, region_capacity, reserved_capacity, allocatable, fault,
                   dynamic, live, tables, pinned, managed, handoff>>

add_reserved_region(r) ==
    /\ fault = "none"
    /\ ~allocatable
    /\ HasRoom(reserved, reserved_capacity)
    /\ reserved' = AddRegion(reserved, r)
    /\ pinned' = pinned \cup Units(r)
    /\ UNCHANGED <<regions, region_capacity, reserved_capacity, allocatable, fault,
                   dynamic, live, tables, managed, handoff>>

allocate_dynamic_reserved_region(q) ==
    LET spot == DynamicSpot(regions, reserved, q, Top)
    IN  /\ fault = "none"
        /\ ~allocatable
        /\ Cardinality(dynamic) < MaxDynamic
        /\ spot # NONE
        /\ HasRoom(reserved, reserved_capacity)
        /\ reserved' = AddRegion(reserved, Region(spot, q.size))
        /\ dynamic' = dynamic \cup {Region(spot, q.size)}
        /\ UNCHANGED <<regions, region_capacity, reserved_capacity, allocatable, fault,
                       live, tables, pinned, managed, handoff>>

(* Mutant: an error part of the way ends the loop, and the allocator is finalized. *)
finalize_IgnoresError ==
    LET result == SubtractAll(regions, reserved, region_capacity)
    IN  /\ fault = "none"
        /\ ~allocatable
        /\ Len(regions) <= MAX_REGIONS /\ Len(reserved) <= MAX_REGIONS
        /\ regions' = result.list
        /\ reserved' = <<>>
        /\ allocatable' = TRUE
        /\ managed' = Cover(result.list)
        /\ UNCHANGED <<region_capacity, reserved_capacity, fault, dynamic, live, tables,
                       pinned, handoff>>

(***************************************************************************)
(* finalize: check_regions.  An error part of the way leaves the regions   *)
(* subtracted so far, keeps the reserved list and does not finalize.       *)
(***************************************************************************)
finalize ==
    LET result == SubtractAll(regions, reserved, region_capacity)
    IN  /\ fault = "none"
        /\ ~allocatable
        /\ Len(regions) <= MAX_REGIONS /\ Len(reserved) <= MAX_REGIONS
        /\ regions' = result.list
        /\ reserved' = (IF result.err THEN reserved ELSE <<>>)
        /\ allocatable' = ~result.err
        /\ managed' = (IF result.err THEN managed ELSE Cover(result.list))
        /\ UNCHANGED <<region_capacity, reserved_capacity, fault, dynamic, live, tables,
                       pinned, handoff>>

-------------------------------------------------------------------------------
(* After finalization.  The operations below are stages on a Block. *)

Panic(b, why) == [b EXCEPT !.fault = why]

(* A list may not grow past its table: copy_within would panic. *)
FitsTable(list, capacity) == Len(list) <= capacity

(***************************************************************************)
(* allocate_region_internal.  Cutting an unaligned region in two needs one *)
(* more entry for a moment even if the aligned part is used up entirely.   *)
(***************************************************************************)
allocate_region_internal(b, size, alignment) ==
    LET i == FirstFit(b.regions, size, alignment)
        a == NextMultipleOf(b.regions[i].address, alignment)
        widest == Len(b.regions) + (IF a # b.regions[i].address THEN 1 ELSE 0)
        record == AddRecord(b.reserved, Region(a, size))
    IN  IF Fitting(b.regions, size, alignment) = {} THEN [b EXCEPT !.addr = NONE]
        ELSE IF widest > b.rcap \/ ~FitsTable(record, b.vcap)
        THEN Panic(b, "out_of_bounds")
        ELSE [b EXCEPT !.regions = CutOut(@, i, a, size), !.reserved = record, !.addr = a]

(* overflow_wrapping: both tables move to fresh memory and double. *)
TableUnits(b) == ((b.rcap + b.vcap) * 2) \div ENTRIES_PER_UNIT

overflow_wrapping(b) ==
    LET c == allocate_region_internal(b, TableUnits(b), TABLE_ALIGN)
    IN  IF c.fault # "none" THEN c
        ELSE IF c.addr = NONE THEN Panic(c, "out_of_memory")
        ELSE [c EXCEPT !.rcap = 2 * @, !.vcap = 2 * @,
                       !.tables = @ \cup {Region(c.addr, TableUnits(b))}]

ensure_overflow_headroom_Off(b) == b

ensure_overflow_headroom(b) ==
    IF Len(b.regions) + HEADROOM > b.rcap \/ Len(b.reserved) + HEADROOM > b.vcap
    THEN overflow_wrapping(b) ELSE b

(* allocate_region: an allocation that fails may still have grown the tables. *)
allocate_region(l) ==
    LET b == ensure_overflow_headroom(Block)
        c == allocate_region_internal(b, l.size, l.align)
    IN  /\ fault = "none"
        /\ allocatable
        /\ Cardinality(live) < MaxLive
        /\ IF b.fault # "none"
           THEN Install(b) /\ UNCHANGED live
           ELSE /\ Install(c)
                /\ live' = (IF c.fault # "none" \/ c.addr = NONE THEN live
                            ELSE live \cup {Region(c.addr, l.size)})
        /\ UNCHANGED <<allocatable, dynamic, pinned, managed, handoff>>

(* Freeing [a, a + size) in both lists; either may be full. *)
Return(b, a, size) ==
    LET record == remove_reserved_alloc_record(b.reserved, a, size)
        list == AddRecord(b.regions, Region(a, size))
    IN  IF ~FitsTable(record, b.vcap) \/ ~FitsTable(list, b.rcap)
        THEN Panic(b, "out_of_bounds")
        ELSE [b EXCEPT !.reserved = record, !.regions = list]

deallocate_region(r) ==
    LET b == ensure_overflow_headroom(Block)
        c == IF b.fault # "none" THEN b ELSE Return(b, r.address, r.size)
    IN  /\ fault = "none"
        /\ allocatable
        /\ Install(c)
        /\ live' = (IF c.fault # "none" THEN live ELSE live \ {r})
        /\ UNCHANGED <<allocatable, dynamic, pinned, managed, handoff>>

(***************************************************************************)
(* trim_for_boot: keep n units for the boot loader, return the reserved    *)
(* list (with those n units in it) and forget all other free memory.       *)
(***************************************************************************)
trim_for_boot_ReserveFirst(n) ==
    LET b == ensure_overflow_headroom(Block)
        c == allocate_region_internal(b, n, 1)
    IN  /\ fault = "none" /\ allocatable
        /\ b.fault = "none" /\ c.fault = "none" /\ c.addr # NONE
        /\ Install(Return([c EXCEPT !.regions = <<>>, !.rcap = CAPACITY], c.addr, n))
        /\ handoff' = Cover(b.reserved)
        /\ UNCHANGED <<allocatable, dynamic, live, pinned, managed>>

trim_for_boot(n) ==
    LET b == ensure_overflow_headroom(Block)
        c == allocate_region_internal(b, n, 1)
    IN  /\ fault = "none"
        /\ allocatable
        /\ IF b.fault # "none" \/ c.fault # "none" \/ c.addr = NONE
           THEN Install(IF b.fault # "none" THEN b ELSE c) /\ UNCHANGED handoff
           ELSE /\ Install(Return([c EXCEPT !.regions = <<>>, !.rcap = CAPACITY], c.addr, n))
                /\ handoff' = Cover(c.reserved)
        /\ UNCHANGED <<allocatable, dynamic, live, pinned, managed>>

-------------------------------------------------------------------------------
(* What is done before finalize but to add regions, and after it. *)
Later ==
    \/ \E q \in Requests : allocate_dynamic_reserved_region(q)
    \/ finalize
    \/ \E l \in Layouts : allocate_region(l)
    \/ \E r \in live : deallocate_region(r)
    \/ \E n \in BootBytes : trim_for_boot(n)

Next ==
    \/ \E r \in Available : add_available_region(r)
    \/ \E r \in Reservations : add_reserved_region(r)
    \/ Later

Spec == Init /\ [][Next]_vars

(***************************************************************************)
(* The lists are made for callers that are tidy: no region they add is     *)
(* empty, or reaches two or more entries of its list that begin after it.  *)
(***************************************************************************)
Spans(s, r) ==
    \E i, j \in DOMAIN s : i < j /\ r.address < s[i].address /\ s[j].address <= End(r)
Fine(s, r) == r.size # 0 /\ ~Spans(s, r)

TidyNext ==
    \/ \E r \in Available : Fine(regions, r) /\ add_available_region(r)
    \/ \E r \in Reservations : Fine(reserved, r) /\ add_reserved_region(r)
    \/ Later

(* Spec with such callers. *)
TidySpec == Init /\ [][TidyNext]_vars

-------------------------------------------------------------------------------
Ranges == [address : 0 .. Top - 1, size : 1 .. Top]

(***************************************************************************)
(* Types of the lists, the tables' capacities and the ghost state: entries *)
(* of a list are not empty, if no region that is added is.                 *)
(***************************************************************************)
TypeOK ==
    /\ regions \in Seq(Ranges) /\ reserved \in Seq(Ranges)
    /\ region_capacity \in Nat /\ reserved_capacity \in Nat
    /\ allocatable \in BOOLEAN
    /\ fault \in {"none", "out_of_memory", "out_of_bounds"}
    /\ dynamic \cup live \cup tables \subseteq Ranges
    /\ pinned \cup managed \cup handoff \subseteq 0 .. Top - 1

Trimmed == handoff # {}

(* Sorted, and at least one address between neighbours. *)
Separated(s) == \A i \in 1 .. Len(s) - 1 : End(s[i]) < s[i + 1].address

(***************************************************************************)
(* add_region_internal and every later operation: both lists stay sorted   *)
(* with no overlapping and no mergeable neighbours, which is more than the *)
(* guarantee stated at range_list_allocator.rs:217-219.  It is kept for   *)
(* callers that are tidy: the code merges a region with one entry behind   *)
(* its start only, and check_regions splits a region at an empty           *)
(* reservation and leaves the two halves side by side.                     *)
(***************************************************************************)
ListsCanonical == Separated(regions) /\ Separated(reserved)

(***************************************************************************)
(* After finalize no memory is given out twice: dynamic reservations,      *)
(* allocations and tables are pairwise disjoint, and none of them is free; *)
(* explicit reservations are apart from allocations, tables and free       *)
(* memory.  An explicit reservation and a dynamic one may overlap, if the  *)
(* explicit one was made later (DynamicIsFresh is about the other order).  *)
(***************************************************************************)
NoDoubleOwner ==
    allocatable =>
        /\ \A r, q \in dynamic \cup live \cup tables :
               r # q => Units(r) \cap Units(q) = {}
        /\ dynamic \cap live = {} /\ dynamic \cap tables = {} /\ live \cap tables = {}
        /\ UnitsOf(dynamic \cup live \cup tables) \cap Cover(regions) = {}
        /\ pinned \cap (UnitsOf(live \cup tables) \cup Cover(regions)) = {}

(***************************************************************************)
(* No memory is lost by allocation, by deallocation or by growing the      *)
(* tables: until it is trimmed, what finalize enabled is free, live, or    *)
(* a table, and the reserved list records exactly the part that is used.   *)
(***************************************************************************)
MemoryConserved ==
    allocatable =>
        /\ Cover(reserved) = UnitsOf(live \cup tables)
        /\ ~Trimmed => managed = Cover(regions) \cup UnitsOf(live \cup tables)

(***************************************************************************)
(* A dynamic reservation lies in available memory and takes nothing that   *)
(* is reserved already (add_reserved_region_dynamic).                      *)
(***************************************************************************)
DynamicIsFresh ==
    [][\A r \in dynamic' \ dynamic :
          /\ Units(r) \subseteq Cover(regions)
          /\ Units(r) \cap Cover(reserved) = {}]_vars

(***************************************************************************)
(* trim_for_boot: the list handed to the next stage covers all memory the  *)
(* boot loader uses or may still allocate after the hand-off, its grown    *)
(* tables included.                                                        *)
(***************************************************************************)
HandoffCovers ==
    Trimmed => Cover(regions) \cup UnitsOf(live \cup tables) \subseteq handoff

(***************************************************************************)
(* ensure_overflow_headroom: no operation runs past the end of a table.    *)
(***************************************************************************)
TablesSuffice == fault # "out_of_bounds"
===============================================================================
