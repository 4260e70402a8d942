# Verification of the ELF boot loader

TLA+ models of this boot loader (Rust, AArch64, `no_std`), from its locks and
allocators to the boot sequence that ends in the jump to the kernel. TLC checks
them on small instances; TLAPS proves the locks, the range list and the buddy
allocator, the global allocator's accounts, the virtio queue, the FAT32 reads and the
memory of the boot sequence correct for every value of their constants. Paths below are relative to `src/`.

## 1. Inventory of the system

| Component | State | Operations | Correct when |
|---|---|---|---|
| `RwLock` (`mutex/src/lib.rs` 88-204) | one atomic word: reader count and write flag | `read`, `write`, `Deref`/`DerefMut`, guard drops | writers exclude everybody, data is never stale, a writer that claimed the lock gets it |
| `SpinLock` (`mutex/src/lib.rs` 11-86) | one atomic flag | `lock`, `try_lock`, guard drop | mutual exclusion; nobody takes it twice |
| Range list allocator (`allocator/src/range_list_allocator.rs`) | sorted tables of free and of reserved ranges, static until they grow into memory they manage | registering memory and reservations, dynamic reservation, `check_regions`, allocate, free, `trim_for_boot` | nothing is given out twice, lost, or missing from the list handed to the kernel |
| Buddy allocator (`allocator/src/buddy_allocator.rs`, `intrusive_linked_list/src/lib.rs`) | one free list per power of two, linked through the free blocks; two counters | `alloc` (split, refill), `dealloc` (merge) | blocks disjoint and aligned, all memory accounted for, buddies merged |
| Global allocator (`allocator/src/lib.rs`) | both allocators, a `SpinLock` each | `init`, `alloc`, `dealloc`, wrappers of the above | memory is in one account at a time; locks are taken in one order |
| virtio block driver (`virtio/src/queue.rs`, `virtio/src/lib.rs`, `file/block-device/src/virtio_blk.rs`) | descriptor free list, ring indices, descriptor table and rings shared with the device | `init`, `read_at`, `write_at`, `flush`, `uninstall` | descriptors come back exactly once, the device touches only live requests, results are the device's, calls end |
| File system front end (`file/src/lib.rs`, `file/filesystem/src/lib.rs`) | index of partition drivers; handles with weak references | set-up, `open`, `read_at`, `read`, `flush`, drop | one driver per partition; a handle works while its device lives |
| FAT32 (`file/filesystem/src/filesystem/fat32*`) | volume layout; an iterator with a cached window of the FAT | mount, path lookup, read | names find their entries, reads are the file's bytes, walks end |
| Device tree (`dtb/src/lib.rs`) | none; a cursor over the blob | `find_node`, `find_reserved_memory_node`, `find_memory_reservation_block`, `make_dtb` | every region is reported once, translated; the new tree is well formed |
| Boot sequence (`bootloader/src/main.rs`) | the order of the above | boot, panic | memory apart, hand-off complete, sound machines boot, panics are reported |
| PL011 (`arch_hal/aarch64_hal/pl011/src/lib.rs`) | registers, transmit FIFO | `init`, `write`, `flush` | what is printed is sent |
| ELF, paging, typed registers, xtask | registers or none | decoding, register access, code generation | local |

**Interaction.** The boot sequence registers memory from the device tree with
the range list allocator, finalizes it, and from then on every `Box`, `Vec` and
`Arc` goes to the buddy allocator, which refills from the range list allocator.
The virtio driver allocates its queue there, links its free descriptors with
the same intrusive list, and serves FAT32. At the end `trim_for_boot` turns the
range list into the reservations the new device tree hands to the kernel.

**What is hard here.** Interleavings and memory orderings in the locks; two
locks nested in both orders; lists whose links live in the memory they lend
out; tables that grow into themselves; error exits in the middle of a sequence
of updates; a device that works concurrently on the callers' stacks; wrapping
indices; chains, names and trees that come from a disk or from firmware; wait
loops without timeouts. `PROJECT.json` lists each hazard at its line with the
properties that would catch it.

## 2. Modules

| Module | Models | State and actions |
|---|---|---|
| `HappensBefore` | the part of the memory model the locks rely on | what happens before each thread and before an Acquire of the lock word, as sets of accesses |
| `ReaderWriter` | abstract readers-writer lock with writer preference | readers, claimant, whether it writes |
| `RwLock` (`RwLockProofs`) | `RwLock<T>` | the word; per thread a program counter and the value of its last load. One action per atomic operation and per access |
| `RangeLists` | list algorithms of the range list allocator, as operators | |
| `RangeListAllocator` (`RangeListProofs`) | `MemoryBlock` behind the crate's entry points | both lists, capacities, `allocatable`; one action per entry point, panics as a final `fault` |
| `IntrusiveLinkedList` | the list, as operators on the first words of memory | |
| `BuddyAllocator` (`BuddyProofs`) | `BuddyAllocator` | memory words, counters; `alloc`, `alloc` with refill, `dealloc` |
| `GlobalAllocator` (`GlobalAllocatorProofs`) | `GLOBAL_ALLOCATOR` and its two `SpinLock`s | who holds each lock, both allocators as sets of chunks, per thread its call; taking a lock, choosing a chunk and recording it are steps |
| `VirtioBlk` (`VirtioBlkProofs`) | driver, queue 0 and device | free list, indices, descriptor table, rings; per call a program counter and its descriptors; one action per lock-protected queue operation |
| `Fat32` | mounting, the chain iterator, name comparison, as operators | |
| `Storage` (`StorageProofs`) | `StorageDevice`, `PartitionIndex`, `FileHandle` over `Fat32` | the disk, the live device, its drivers, a handle, the call under way; one step per cluster |
| `DeviceTree` | parser and generator | the words of the tree, the cursor and the recursion's records of the walk, what the closure heard; one step per token or closure call |
| `Pl011` | the UART, as operators and two device actions | text still to push, FIFO, shift register, what the line carried |
| `Boot` (`BootProofs`) | `main` and the panic handler, over `Pl011` | the machine, where `main` stands, how far it walked `/reserved-memory`, the memory each party holds; one action per stage of `main`, the steps that register memory each with the failures of its `unwrap` |
| `MC*` | instances for TLC | inputs only |

The modules in parentheses hold the theorems about a component (section 5).

Abstractions.

* *RwLock*: `compare_exchange_weak` may fail at any time; the protected data is
  not represented, only which accesses are ordered before which.
* *Range lists*: an address counts units; a table is the sequence of its valid
  entries plus a capacity, and an operation that would shift entries past the
  capacity is the panic `copy_within` raises.
* *Buddy*: the unit is `MINIMUM_ALLOCATABLE_BYTES`; memory lent to a caller
  reads as `JUNK`, so a list that runs through it is seen.
* *GlobalAllocator*: memory counts in chunks of `MAX_ALLOCATABLE_BYTES`; a
  chunk is free, reserved, in the buddy lists or with a caller. A failed
  exchange on a `SpinLock` changes nothing and is no step.
* *VirtioBlk*: rejected calls change nothing and are no step; building a
  descriptor is part of the step that pops it; read and write requests have the
  same shape; caches and fences are left out, the device sees memory in order.
  `init` is one step with the outcomes success, refusal before the queue
  exists, and failure after; it assumes a device that clears `QueueReady` on
  reset. The device is external: modelled from the virtio behaviour the driver
  relies on, answering in any order with any status.
* *Storage*: a byte of the disk is its place, so a buffer filled by a read
  names the bytes that went into it; a name is a sequence of characters, the
  same for upper and lower case, and a checksum is the short name it was
  computed from. Every device read may fail. The types keep a `StorageDevice` and its handles
  on one thread, so calls do not overlap.
* *DeviceTree*: memory counts in 32-bit words, a string takes one; cells are
  digits to the base `CELL` and a `usize` holds two. Arithmetic
  that would wrap panics, as in the dev profile the project builds with. No
  tree of the instance is cut short so that the code reads outside it.
* *Boot*: a machine is a record of what `main` finds: arguments, devices, files,
  `/memory` nodes, the reservation block, the children of `/reserved-memory` in
  their order, and the walks of the tree that end in an error. The allocator
  gives out any free memory that fits, the heap grows in any call that
  allocates, the disk has the files or not, any read may fail. The inside of
  those calls is in the modules above. The allocator's two lists are here the
  memory they cover. How many entries they have depends on how regions were
  merged, so it is anything between one per run of memory (`Pieces`) and one per
  addition: a table may overflow as soon as the additions exceed it, and a step
  succeeds only if the runs fit. That leaves out the order of merges and
  nothing else: every `unwrap` of `main.rs:89-116` fails where the code's may,
  for a walk that errs, a full table, the limit of `check_regions`, a split
  without room, and a reservation that is outside the memory, empty or on top of
  another (`Neat`; such a one may be refused or pass). A null new tree ends in
  `null_tree`, where the code has undefined behaviour. A message is a few
  symbols, each pushed into the FIFO by a step of its own.

## 3. Runs

| Run | Bounds | Shows |
|---|---|---|
| `rwlock` | 3 threads, flag bit 4, 236 thousand states | type, `WordCountsGuards`, `MutualExclusion`, `WritesVisible`, liveness `WriterDrains`, refinement `RWSpec` |
| `rwlock_reads` | same | violation: the writer does not synchronise with the readers it waited for (`mutex/src/lib.rs:152`) |
| `rangelist` | 23 addresses, 3 memory nodes, 4 reservations, 1 dynamic reservation, 3 live allocations, tables of 6, tidy callers (`TidySpec`), 352 thousand states | `ListsCanonical`, `NoDoubleOwner`, `MemoryConserved`, `HandoffCovers`, `TablesSuffice`, `DynamicIsFresh` |
| `buddy` | 4 levels, 2 chunks, 4 sizes, 7 live, 94 thousand states | `FreeListsSound`, `BlocksDisjoint`, `NothingLeaks`, `Coalesced` |
| `virtioblk` | 2 callers, queue of 4, indices modulo 8, 224 thousand states | `DescriptorsConserved`, `RingsBalanced`, `SerialSynchronous`, `ResultsTrue`, liveness `CallReturns` |
| `virtioblk_shared` | 2 overlapping calls | violation: not thread-safe (`file/block-device-api/src/lib.rs:6`) |
| `globalalloc` | 2 threads, 3 chunks, 8 calls, 189 thousand states | `ChunksAccounted`, `HandoffComplete`, `OnlyInitOrTrimDeadlocks`, liveness `CallReturns` |
| `global_trim` | same, 5 calls | violation: `trim_for_boot` can wait for the lock it holds (`allocator/src/lib.rs:222`) |
| `storage` | 4 calls, 2 devices, sound and damaged disks, 140 thousand states | `ReadsExact`, `FoundIsNamed`, `NotFoundIsAbsent`, `HandlesStayOpen`, `PanicsOnlyOutside`, liveness `CallEnds` |
| `dtb` | trees up to depth 4 with NOPs, mixed cells, `ranges`, static and dynamic reservations, damaged ones; one generated tree; 227 thousand states | `WalkExact`, `GeneratedSound` |
| `boot` | 32 machines, FIFO of 2, tables of 5 with a limit of 4, requests of up to 2 units, 471 thousand states | `MemoryApart`, `HandoffReserved`, `OutputExact`, liveness `GoodBoots` |
| `boot_panic` | same | violation: the panic message may never be written (`main.rs:286`, `pl011/src/lib.rs:91`) |

Why the bounds suffice. Three threads give a reader, a waiting writer and a
third party of either kind. The range list instance holds overlapping, adjacent
and nested ranges, both ends of every split, and grows its tables; one
reservation lies in a memory node that may not be registered yet, so that
`finalize` fails after it has subtracted others, and is called again, with
success if the memory is added once more; the
constants keep the code's relations (limit below capacity, headroom above their
difference). Four buddy levels give merges over three levels. The virtio queue
of four admits two flushes, or one transfer and a call that runs out half way;
indices modulo 8 wrap twice around the ring. Calls that do not overlap go on
forever; a behaviour with calls that do overlap has at most `MaxShared` (2) of
them. Two threads and three chunks let one thread refill while the other trims
or initialises; eight calls are a whole life from `init` over registering to
`trim_for_boot` and allocations after it. The disks of `storage` have chains
shorter and longer than the cached window of the FAT, in order and not,
fragmented, cyclic, ending early and leaving the volume, short and long names
that share prefixes, names over two slots, and FATs too short for their volume;
four calls open, read, drop the device and use the old handle. The machines of
`boot` are some that have everything, with a little and with more memory, and
one for each thing that may be missing or too small: two UARTs, memory cut up by
reservations, dynamic reservations that fit or do not, an image longer than its
header says, a heap that must refill in `trim_for_boot`, each walk of the tree
damaged, reservations outside the memory, empty and overlapping ones, and memory
nodes and reservations at the limit of `check_regions`, above it, and above the
tables.

The instances stay inside what the code is written for where section 4 lists a
limit: the callers of `rangelist` add no region that is empty or spans two others
(`Fine`), its reservations leave room in the table, no `/memory` nodes of `boot`
overlap, no layout of `buddy` has an alignment above its size.
`WalkExact` says which trees it is about (`Plain`); the other trees of the
instance drive the error paths.

Deadlock is checked for `rwlock` and `buddy`. It is off where the program may
really stop: a panic, the loop at the end of `main`, threads that wait for each
other in the global allocator, a call to a virtio device that was reset, and
callers that have used up their calls.

Fairness. `WriterDrains` assumes that a running thread re-reads the word it
spins on and that read guards are dropped; nothing is assumed of threads trying
to enter, since spin locks promise nothing there. `virtioblk` assumes that a
caller keeps running and that a live, notified device fetches and answers,
`globalalloc` that every thread that can take a step does (each lock is held for
a bounded number of steps, and the number of calls is bounded, so weak fairness
is enough), `storage` that the one thread inside a call goes on, `boot` that the
processor runs and the transmitter sends.

## 4. Findings and known limits

Four runs show a disagreement between a line of the repository and the code:
`rwlock_reads`, `virtioblk_shared`, `global_trim` and `boot_panic`.
`PROJECT.json` quotes the lines. Limits met while modelling, which the
properties above exclude by a condition or the instances leave out:

* *Range lists.* A region that spans two or more recorded ones is merged
  with one neighbour only (`range_list_allocator.rs:163`; the comment at 217-219
  requires no overlap). The same happens when memory is added again after a failed `finalize` has split it.
  Reservations that split regions can fill a table within the limit of 120
  (378), and the next split panics. Regions of size zero are accepted
  (`allocator/src/lib.rs:167-191`) and `main` passes the tree's values on
  unchecked: an empty region is stored like any other, so a list can hold empty
  entries, an empty reservation inside a region splits it into two halves
  without a gap, and one at the end
  of the last region makes `finalize` fail, which ends the boot. A reservation
  registered after a dynamic one may lie on top of it; the two are merged.
* *Buddy.* `dealloc` takes the level from the size alone
  (`buddy_allocator.rs:143`), `alloc` from size and alignment: a layout with
  align > size leaves part of its block allocated.
* *virtio.* A status byte other than OK, IOERR and UNSUPP runs into
  `unreachable!()` (`virtio_blk.rs:271,410`); the model's device does not answer
  with one, and no property depends on it.
* *Global allocator.* `init` and `trim_for_boot` take the buddy lock under the
  range lock. Threads that call `alloc` at the same time can block them;
  `OnlyInitOrTrimDeadlocks` shows that nothing else can.
* *FAT32.* A path that gives only the start of a long name, up to the end of a
  slot's part, opens the file (`fat32.rs:306`). Long name slots that straddle
  two clusters are not seen (220). A directory whose chain is cyclic is
  searched forever. First clusters are not checked against the volume
  (`fat.rs:114`); a path component that is a file is searched like a directory
  (382); zero divisors in the boot sector are not refused first
  (`filesystem.rs:52,61`), so mounting panics.
* *Device tree.* Only the first entry of a `ranges` property is used, an empty
  one reads past the property, and a matched node's own `ranges` translate its
  `reg`; a root with `ranges` panics; an address below its range, or a `reg`
  that is no multiple of its stride, underflows, and a stride of zero loops. A
  `/reserved-memory` without properties, or not below the root, is missed. A
  reservation (0, 0) ends the list. `make_dtb` assumes that the reservation
  block comes first.
* *Boot.* A dynamic reservation is placed before the program and the tree are
  registered (`main.rs:102`). `push((program_start, stack_start))` (184) is
  read as address and size, which covers more than the program. A file longer
  than the header's image size is read past its allocation (162). The new
  tree's allocation is not checked for null (190). The reservations of the tree
  `main` is started with, static and dynamic, reach the new tree only as far as
  `/qemu.dtb` names them: `finalize` drops them from the allocator's list.
  `HandoffReserved` is about the program, the image, the heap and the new tree.

## 5. Proofs

Eight modules hold theorems; `PROJECT.json` lists those a reader should know. Each
follows the same lines: an inductive invariant that contains the property, the
lemma that `Init` establishes it, one lemma per action (or per conjunct, one
case per action) that it is kept, and the theorems last.

| Module | `Spec` keeps | For every |
|---|---|---|
| `RwLockProofs` | `TypeOK`, `WordCountsGuards`, `MutualExclusion`, `WritesVisible`; implements `ReaderWriter` | finite set of threads smaller than the write flag |
| `RangeListProofs` | `TypeOK`, `ListsCanonical`, `NoDoubleOwner`, `MemoryConserved`, `HandoffCovers`, `DynamicIsFresh` for `Tidy` callers; `TablesSuffice` if they also leave room (`StartsWithRoom`) | memory size, table size, headroom, memory nodes, reservations, requests |
| `BuddyProofs` | `FreeListsSound`, `BlocksDisjoint`, `Coalesced`; `NothingLeaks` if alignments fit (`AlignFits`) | number of levels, finite set of chunks, set of layouts, number of allocations |
| `GlobalAllocatorProofs` | `TypeOK`, `ChunksAccounted`, `HandoffComplete`, `OnlyInitOrTrimDeadlocks` | set of threads and of chunks |
| `VirtioBlkProofs` | `TypeOK`, `DescriptorsConserved`, `RingsBalanced`, `SerialSynchronous`, `ResultsTrue` | finite set of callers, queue size and index range |
| `BootProofs` | `MemoryApart`, `HandoffReserved`, `OutputExact` | machine, size of the UART's FIFO |
| `StorageProofs` | `HandlesStayOpen`, `PanicsOnlyOutside`, `ReadsExact` | disk, geometry, window size, number of calls, request |
| `NaturalRecursion` | (lemmas only) least elements, induction with a set, existence of recursively defined functions | set of values |

**RwLock.** The assumptions are those named in `RwLock`: the flag is positive,
there are fewer threads than its value (2^63 in the code), `NoThread` is no
thread. None of the properties is inductive alone. `TypeOK` says of
`current_state` that its flag is clear: whoever is about to exchange loaded such
a word, so a successful exchange means the flag is clear *now*, and a reader's
increment does not reach it. `WordInv` adds to the count that a writer past its
wait has no readers beside it. Each action moves at most one thread between the
sets the count is about, so each step of `WordStep` is one cardinality lemma.
`ViewInv` adds that while nobody writes, the word's view has every write: the
Release of the guard drop puts it there and the Acquire of either exchange takes
it out; it needs `WordInv` to know that the claimant is the only writer.
Refinement follows from both, one case per action.

**Range lists.** Two things the code does not promise are hypotheses on the
callers; the constants allow any regions, empty ones included. `Tidy`: no
`add_available_region` or `add_reserved_region` adds a region that is empty or
that spans two recorded ones which begin after it. Neither half can be dropped:
the code merges a spanning region with one neighbour only, and it stores an
empty one, so that `TypeOK` fails, and splits a region at it without leaving a
gap, so that `ListsCanonical` fails (section 4). TLC checks the same
specification, `TidySpec`. `StartsWithRoom`, for
`TablesSuffice` alone: `finalize` leaves one entry of the regions table unused;
reservations that split regions can fill it, and the growth of
the tables needs an entry to allocate their own memory from. Every `finalize` of
`rangelist` meets it. `NoDoubleOwner` compares dynamic
reservations, allocations, tables and free memory in pairs, and explicit
reservations with allocations, tables and free memory; explicit reservations
are not compared with dynamic ones, which they may overlap. `TablesAssumption` asks for a
capacity and a headroom of three at least (128 and 10 in the code) and that one
unit holds no more entries than a table.

Every list operation is a splice: it replaces a run of entries by at most two.
`Spliced` says when the result is again sorted, apart and what it covers; adding
(`Grown`), cutting (`Shrunk`) and the removal of whole entries are instances of it,
and `Located` says what the search for the place returns. One level up, `Taken`,
`Ensured`, `Allocated`, `GivenBack` and `Kept` say of each entry point's body that
the two lists stay canonical (`Sound`), that together they cover what they
covered (`Total`), and how many entries are left (`Room`). `Headroom` is why the
tables suffice: a growth is asked for while the entries that the growth itself
uses are still there. Two loops are recursive functions: `check_regions`, which
subtracts the reservations one by one (`Subtracted`), and the search for a dynamic
reservation (`DynamicFresh`); both are unfolded with `NaturalRecursion`. The
invariant is in two halves, `SetUp` before `finalize`, when the lists may overlap
each other, and `Running` after it, when they may not, joined by the record of
what was registered (`Ghosts`).

**Buddy allocator.** `ChunksAssumption` says what the code assumes of
`alloc_heap`: finitely many chunks, each aligned to its size; `LayoutsAssumption`
what `lib.rs` and `Layout` promise of a request: at most the size of a chunk, and
an alignment that is a power of two. None of the four properties is inductive: the
words of free memory must be read as lists first. `Lists(n, B)` says that they are
the lists of the blocks `B`, one chain of distinct cells per head, and `WalkIs`
that following the links, a recursion on the contents of memory, returns that
chain. Every list operation then is one of two changes: a cell enters a chain
(`Inserted`: `push`, `push_back`, `add_with_sort`) or leaves it (`Removed`: `pop`,
`remove_if`). Neither touches another chain, and neither does what the owner of an
allocation writes (`Scribbles`).

On top of the lists, `Parts` says that the blocks are disjoint and aligned, `Merged`
that no two are buddies. Both loops are recursive functions over their turns, and
`LoopRuns` carries an invariant through them. In the split loop one block, the next
to be split, may be beside its free buddy (`Splitting`); in the merge loop one block
is in no list yet (`Joining`). Either way the union of the cells is what it was, so a
split or a merge neither loses nor doubles memory. `Holding` divides what the heap
delivered between the free cells and the allocations. These are `Inv`, and the first
three properties follow for all layouts. `NothingLeaks` needs `AlignFits`: no
alignment is larger than the block the size alone asks for. Without it the level of
`dealloc` is below that of `alloc` (the limit of section 4), part of the block is
given back, which `Holding` covers, and the rest is lost.

**Global allocator.** `ControlInv` says where each call may stand, `LockInv`
which locks a thread holds there, exactly. It has the one exception the code
has: a `trim_for_boot` that waits for the range lock it already holds.
`ChosenInv` says what a chosen chunk still is in the step that uses it: free when
a large allocation or a refill records it, cached when `alloc` takes it, the
caller's when it is freed. With the locks, nobody else can have changed that between the two steps, and
the accounts are kept. `LockOrder` follows from `LockInv`: only a call that
takes both locks the other way round waits for the buddy lock while it holds
the range lock.

**virtio.** `Phase` ties a call's program counter to the descriptors it has.
`Shares` states the conservation of descriptors once, and each queue operation
moves one descriptor between two shares. The rings count modulo the index range;
four lemmas on wrapping differences replace the arithmetic. The assumptions are
the queue's: its size divides the index range and is below it. The proof refuted an
earlier form of the model, in which the requests the device works on were a set
of index and head: an index that had wrapped around could meet its own earlier
entry and the two would count as one. They are a sequence now.

`SerialInv` carries the two properties of calls that do not share the driver.
In any specification a call's three descriptors are filled and linked from
`add_descriptor` until it frees them (`Filled`): `DescriptorsConserved` says that
no other call can have them. With callers that take turns it adds that at most
one call is under way (`Alone`), that its request is in one place only (`Places`,
out of the counts of `RingsBalanced`), that all that is in the rings or with the
device is that request (`Owned`), and that its status says OK only after the
device answered (`Answered`). The device follows the chain by
recursion; `ChainUnfolds` and `ChainIsRequest` unfold the walk over the call's
descriptors, which are distinct and therefore fit in the queue size that bounds it.

**Boot.** `MachinesAssumption` says that addresses and sizes are unsigned, that
a region is a run of addresses and that `/memory` nodes do not overlap.
`MemoryApart` compares what `main` allocates, the image, the heap and the memory
kept back, with the program, the tree and the reservations, and with each other
as far as the code keeps them apart: after `trim_for_boot` the heap is served from
the memory kept back. It does not compare reservations with each other, as a
dynamic one may lie on the program or the tree.
`FreeInv` says, stage by stage, that what the allocator has left is clear of all
that is held. It rests on what has been registered by then: while the walk of
`/reserved-memory` goes on, the reservation block, the children visited and
the dynamic regions (`Listed`), and all of the tree's reservations before
`finalize`. `ListInv` says that after the trim whatever the heap can still take is
already in the list, which is why `Push` and `MakeTree` may allocate.
For `OutputExact`, what the line carried, the shift register, the FIFO and the text
still to push are, in this order, all that was printed with its line ends
expanded (`OutputInv`). The expansion is recursive; that it distributes over
concatenation (`CrlfConcat`) is proved by induction, and `main` prints only when
nothing is left to push.

**Storage.** `DisksAssumption` says that numbers on a disk are unsigned, that a
FAT has an entry wherever one fits in it, and that directory clusters are
sequences of slots. It says nothing of the FAT's contents: cyclic, short and
damaged chains are covered. The window argument is arithmetic: the sectors read
around an entry hold that entry (`WindowCovers`), and the iterator goes on from
inside the volume or not at all (`InWindow`).

For `ReadsExact` the chain of a file is a recursive function over the FAT. That
it exists and unfolds (`ChainUnfolds`) and that an ended chain stays ended is
proved by induction, from the well-foundedness of the naturals in the library
(`LeastOf`, `Induction`, `RecursionExists` in `NaturalRecursion`). `Reading` says that the iterator stands at cluster `i`
of that chain, and `Progress` which blocks of the request are in the buffer
then, and that the loop is at most one cluster past the request. The rest is
that blocks, clusters and bytes divide alike (`DivNested`, `BelowCeil`). The
proof refuted an earlier `Sound`, which took the marks for bad and reserved
clusters for links on volumes of 2^28 clusters and more.

**Only model-checked.** All liveness, which is outside the prover's reach.
`FoundIsNamed` and `NotFoundIsAbsent` of the file system and both properties of
the device tree, which compare a walk with a recursive definition of what it
should find.

## 6. Not modelled

ELF decoding, paging, typed registers and macros, xtask: stateless decoders,
single register accesses, compile-time or host-side code. Within the modelled
parts: `Debug` output (the only user of `try_lock`), logging, cache
maintenance, the byte layout of rings and requests, `change_allocator`,
`read_char` and the timer's `wait` (unused), `str_to_usize`, `AlignedSliceBox`
(an allocation and its release), the register set-up and the MMU and cache
instructions before the `eret`. The file system operations that are `todo!()`
in the code panic in the model.

## 7. Plan

Modelling is complete but for section 6, and every invariant is proved but for the
four that compare a walk with a recursive definition of its result: `FoundIsNamed`,
`NotFoundIsAbsent`, `WalkExact` and `GeneratedSound`. Proving them would take those
definitions as recursive functions, as `Chain` is in `ReadsExact`.
