--------------------------------- MODULE Boot ---------------------------------
(***************************************************************************)
(* The boot sequence: main of bootloader/src/main.rs from the first        *)
(* instruction to the eret, with the debug UART, the allocator, the disk   *)
(* and the two device trees as main uses them, and the panic handler.      *)
(*                                                                         *)
(* Memory counts in units.  What the allocator, the file system and the    *)
(* tree code do inside a call is in their own modules; here they give out  *)
(* some free memory, find what is there or fail, and the unwraps of main   *)
(* fail with them.  The two lists of the allocator are the memory they     *)
(* cover.  How many entries they have depends on how regions were merged:  *)
(* at least one for each run of memory, at most one for each addition.     *)
(***************************************************************************)
EXTENDS Pl011, FiniteSets

CONSTANTS
    Machines,    \* what main may find: arguments, devices, memory, files
    ImageAlign,  \* alignment of the kernel image
    KeepSize,    \* memory trim_for_boot keeps back
    MaxRequest,  \* the most one request to the heap takes from the allocator
    TableSize,   \* entries of the allocator's two tables
    MaxRegions   \* entries finalize accepts in each

ASSUME SizesAssumption ==
    /\ {ImageAlign, KeepSize, MaxRequest, TableSize, MaxRegions} \subseteq Nat \ {0}
    /\ MaxRegions <= TableSize

Run(addr, size) == addr .. addr + size - 1
IsRun(r) == \A a, b \in r : a .. b \subseteq r

(***************************************************************************)
(* A machine: its /memory nodes, the entries of the memory reservation     *)
(* block and of the children of /reserved-memory (fixed, or dynamic with a *)
(* size), in the order of the tree, and the searches of the tree whose     *)
(* walk ends in an error.  /memory nodes do not overlap, as overlapping    *)
(* ones can stay apart in the allocator's list (Tidy, RangeListProofs).    *)
(***************************************************************************)
ASSUME MachinesAssumption ==
    \A x \in Machines :
        /\ x.program_start \in Nat /\ x.stack_start \in Nat
        /\ x.tree \subseteq Nat /\ IsRun(x.tree)
        /\ {x.image.file, x.image.image_size, x.image.text_offset} \subseteq Nat
        /\ x.memory \in Seq(SUBSET Nat) /\ x.block \in Seq(SUBSET Nat)
        /\ x.nodes \in Seq([dynamic : BOOLEAN, at : SUBSET Nat, size : Nat])
        /\ \A i \in DOMAIN x.memory : IsRun(x.memory[i])
        /\ \A i, j \in DOMAIN x.memory : i # j => x.memory[i] \cap x.memory[j] = {}
        /\ \A i \in DOMAIN x.block : IsRun(x.block[i])
        /\ \A i \in DOMAIN x.nodes :
              IsRun(x.nodes[i].at) /\ (x.nodes[i].dynamic => x.nodes[i].at = {})
        /\ x.damaged \subseteq {"uart", "memory", "nodes", "disk"}

VARIABLES
    m,         \* the machine
    pc,        \* where main stands
    debug,     \* DEBUG_UART is set
    said,      \* ghost: what println was given
    why,       \* ghost: what a panic was about
    claimed,   \* reserved regions before finalize
    node,      \* the entry of /reserved-memory the walk has reached
    dynamic,   \* ghost: the dynamic regions of /reserved-memory
    free,      \* free memory of the allocator
    heap,      \* memory the allocator gave out, but for the image
    image,     \* the memory allocated for the image
    loaded,    \* the memory the image was read into
    kept,      \* what trim_for_boot kept back
    reserved,  \* reserved_memory, as the units it covers
    newtree,   \* where the new tree is
    handoff    \* ghost: the memory the new tree reserves

memory ==
    <<claimed, node, dynamic, free, heap, image, loaded, kept, reserved, newtree, handoff>>
vars == <<uart, m, pc, debug, said, why, memory>>

Init ==
    /\ UartInit
    /\ m \in Machines
    /\ pc = "args"
    /\ debug = FALSE
    /\ said = <<>> /\ why = ""
    /\ claimed = {} /\ node = 1 /\ dynamic = {} /\ free = {} /\ heap = {} /\ image = {}
    /\ loaded = {} /\ kept = {} /\ reserved = {} /\ newtree = {} /\ handoff = {}

(* Memory of a size the allocator can give out. *)
Fits(size, align) ==
    {Run(a, size) : a \in {b \in free : b % align = 0 /\ Run(b, size) \subseteq free}}

(* A request is served by what the heap has, or takes free memory. *)
HeapMoves ==
    \E S \in {{}} \cup UNION {Fits(n, 1) : n \in 1 .. MaxRequest} :
        heap' = heap \cup S /\ free' = free \ S
HeapServes == HeapMoves /\ heap' # {}
(* There is no memory for some request. *)
HeapFails == \E n \in 1 .. MaxRequest : Fits(n, 1) = {}

(* main runs on once its last message is in the FIFO. *)
At(p) == pc = p /\ pending = <<>>
Panic(w) == pc' = "panic" /\ why' = w /\ UNCHANGED <<uart, said>>
Goto(p) == pc' = p /\ UNCHANGED <<uart, said, why>>

(* println: the text and a newline. *)
Println(text, next) ==
    /\ pc' = next
    /\ write(Append(text, "\n"))
    /\ said' = said \o Append(text, "\n")
    /\ UNCHANGED why

-------------------------------------------------------------------------------
(* Arguments, UART, exception level, timer *)

ParseArgs ==
    /\ At("args")
    /\ IF m.arg THEN Goto("uart") ELSE Panic("arguments")
    /\ UNCHANGED <<m, debug, memory>>

(* Mutant: the search does not stop at the first UART, and a second set fails. *)
UartFound_All(n) == n = 1
(* find_node for the UART breaks at the first one. *)
UartFound(n) == n >= 1

FindUart ==
    /\ At("uart")
    /\ \/ /\ "uart" \in m.damaged
          /\ Panic("tree")
          /\ UNCHANGED debug
       \/ /\ "uart" \notin m.damaged
          /\ debug' = UartFound(m.uarts)
          /\ Goto("hello")
    /\ UNCHANGED <<m, memory>>

(* The first println: _print unwraps DEBUG_UART, which stays set from then on. *)
Hello ==
    /\ At("hello")
    /\ IF debug THEN Println(<<"a", "\r", "\n">>, "el") ELSE Panic("no uart")
    /\ UNCHANGED <<m, debug, memory>>

CheckEl ==
    /\ At("el")
    /\ IF m.el = 2 THEN Println(<<"b">>, "timer") ELSE Panic("el")   \* get_timer_frequency prints
    /\ UNCHANGED <<m, debug, memory>>

SystemTimer ==
    /\ At("timer")
    /\ IF m.frequency # 0 THEN Println(<<"c">>, "memory") ELSE Panic("timer")
    /\ UNCHANGED <<m, debug, memory>>

-------------------------------------------------------------------------------
(* The allocator is set up *)

(* What the first n of a sequence of regions cover. *)
Covered(regions, n) == UNION {regions[i] : i \in 1 .. n}
Ram == Covered(m.memory, Len(m.memory))
(* The reservations of the tree that have an address. *)
Firmware == Covered(m.block, Len(m.block)) \cup UNION {m.nodes[i].at : i \in DOMAIN m.nodes}
Program == m.program_start .. m.stack_start - 1

(* Runs of memory: the fewest entries a list that covers S can have. *)
Pieces(S) == Cardinality({u \in S : u - 1 \notin S})
(* A list that covers S and was made by n additions takes one more; it is full. *)
MayAdd(S) == Pieces(S) < TableSize
MayBeFull(n) == n >= TableSize

(* The regions main reserves at addresses it is given. *)
Fixed ==
    {<<"block", i, m.block[i]>> : i \in DOMAIN m.block}
      \cup {<<"node", i, m.nodes[i].at>> : i \in {j \in DOMAIN m.nodes : ~m.nodes[j].dynamic}}
      \cup {<<"own", 1, Program>>, <<"own", 2, m.tree>>}
(* No region to reserve is empty or lies on another, and one dynamic region at most. *)
Neat ==
    /\ \A x, y \in Fixed : x[3] # {} /\ (x # y => x[3] \cap y[3] = {})
    /\ \A i, j \in DOMAIN m.nodes : m.nodes[i].dynamic /\ m.nodes[j].dynamic => i = j

(* find_node for the /memory nodes. *)
AddMemory ==
    /\ At("memory")
    /\ \/ /\ "memory" \notin m.damaged
          /\ \A i \in DOMAIN m.memory : MayAdd(Covered(m.memory, i - 1))
          /\ free' = Ram
          /\ Goto("block")
       \/ /\ "memory" \in m.damaged
          /\ Panic("tree")
          /\ UNCHANGED free
       \/ /\ MayBeFull(Len(m.memory) - 1)
          /\ Panic("regions")
          /\ UNCHANGED free
    /\ UNCHANGED <<m, debug, claimed, node, dynamic, heap, image, loaded, kept, reserved, newtree,
                   handoff>>

(* find_memory_reservation_block. *)
AddBlock ==
    /\ At("block")
    /\ \/ /\ \A i \in DOMAIN m.block : MayAdd(Covered(m.block, i - 1))
          /\ claimed' = Covered(m.block, Len(m.block))
          /\ Goto("nodes")
       \/ /\ MayBeFull(Len(m.block) - 1)
          /\ Panic("regions")
          /\ UNCHANGED claimed
    /\ UNCHANGED <<m, debug, node, dynamic, free, heap, image, loaded, kept, reserved, newtree,
                   handoff>>

(* How many reservations came before the entry the walk has reached. *)
Earlier == Len(m.block) + node - 1

(* An entry of find_reserved_memory_node with an address of its own. *)
AddStatic ==
    /\ At("nodes") /\ node <= Len(m.nodes) /\ ~m.nodes[node].dynamic
    /\ \/ /\ MayAdd(claimed)
          /\ claimed' = claimed \cup m.nodes[node].at
          /\ node' = node + 1
          /\ Goto("nodes")
       \/ /\ MayBeFull(Earlier)
          /\ Panic("regions")
          /\ UNCHANGED <<claimed, node>>
    /\ UNCHANGED <<m, debug, dynamic, free, heap, image, loaded, kept, reserved, newtree, handoff>>

(* Where a dynamic region may be placed: clear of what is reserved so far *)
(* (the search can miss a reservation behind one that lies over it).      *)
Places(size) ==
    {s \in {Run(a, size) : a \in Ram} : s \subseteq Ram /\ (Neat => s \cap claimed = {})} \ {{}}

(* A dynamic one: placed, or passed over where the search finds no place. *)
AddDynamic ==
    /\ At("nodes") /\ node <= Len(m.nodes) /\ m.nodes[node].dynamic
    /\ \/ \E r \in Places(m.nodes[node].size) \cup {{}} :
             /\ r # {} => MayAdd(claimed)
             /\ dynamic' = dynamic \cup r
             /\ claimed' = claimed \cup r
             /\ node' = node + 1
             /\ Goto("nodes")
       \/ /\ Places(m.nodes[node].size) # {} /\ MayBeFull(Earlier)
          /\ Panic("regions")
          /\ UNCHANGED <<claimed, node, dynamic>>
    /\ UNCHANGED <<m, debug, free, heap, image, loaded, kept, reserved, newtree, handoff>>

(* The walk ends; a damaged one ends with an error, anywhere. *)
EndNodes ==
    /\ At("nodes")
    /\ \/ "nodes" \in m.damaged /\ Panic("tree")
       \/ "nodes" \notin m.damaged /\ node > Len(m.nodes) /\ Goto("own")
    /\ UNCHANGED <<m, debug, memory>>

(* Mutant: the device tree main goes on reading is not reserved. *)
OwnRegions_NoTree == Program
(* The program with its stack, and the device tree. *)
OwnRegions == Program \cup m.tree

(* The tables may be too small for what is added to them, for finalize to accept it, *)
(* or for the pieces finalize cuts the memory into.                                  *)
TablesMayOverflow ==
    LET n == Len(m.memory)
        r == Len(m.block) + Len(m.nodes) + 2
    IN  MayBeFull(r - 1) \/ n > MaxRegions \/ r > MaxRegions \/ n + r > TableSize

(* The last two reservations, and finalize: every reservation lies in memory.  It   *)
(* errs too at an empty one at the end of a region, and at one on top of another    *)
(* that add_reserved_region did not merge with it.                                  *)
Finalize ==
    /\ At("own")
    /\ LET all == claimed \cup OwnRegions
       IN  \/ /\ MayAdd(claimed) /\ MayAdd(claimed \cup Program)
              /\ Pieces(Ram) <= MaxRegions /\ Pieces(all) <= MaxRegions
              /\ all \subseteq Ram /\ Pieces(Ram \ all) <= TableSize
              /\ claimed' = all /\ free' = Ram \ all
              /\ Println(<<"d">>, "disk")
           \/ /\ ~(all \subseteq Ram) \/ ~Neat \/ TablesMayOverflow
              /\ Panic("regions")
              /\ UNCHANGED <<claimed, free>>
    /\ UNCHANGED <<m, debug, node, dynamic, heap, image, loaded, kept, reserved, newtree, handoff>>

-------------------------------------------------------------------------------
(* The kernel image and the tree to hand on are read *)

(* What the steps of a call to the file system leave alone. *)
FileFrame == UNCHANGED <<m, debug, claimed, node, dynamic, image, kept, reserved, newtree, handoff>>

(* new_virtio for each device until one works. *)
FindDisk ==
    /\ At("disk")
    /\ \/ /\ "disk" \in m.damaged
          /\ HeapMoves
          /\ Panic("tree")
       \/ /\ "disk" \notin m.damaged /\ \E i \in DOMAIN m.disks : m.disks[i]
          /\ HeapServes
          /\ Goto("open")
       \/ /\ "disk" \notin m.damaged /\ ~\E i \in DOMAIN m.disks : m.disks[i]
          /\ HeapMoves
          /\ Panic("no disk")
    /\ UNCHANGED loaded /\ FileFrame

(* The heap can neither serve nor grow: the alloc_error_handler loops. *)
AllocError ==
    /\ pc \in {"disk", "open", "header", "load", "qemu_dtb", "push"} /\ pending = <<>> /\ HeapFails
    /\ Goto("alloc_error")
    /\ UNCHANGED <<m, debug, memory>>

OpenImage ==
    /\ At("open")
    /\ HeapServes
    /\ \/ m.image.found /\ Println(<<"e">>, "header")
       \/ ~m.image.found /\ Panic("no image")
       \/ Panic("read error")
    /\ UNCHANGED loaded /\ FileFrame

(* The header is read (read_at refuses more than the file holds) and checked. *)
ReadHeader ==
    /\ At("header")
    /\ HeapServes
    /\ \/ m.image.file > 0 /\ m.image.magic /\ Goto("alloc")
       \/ ~(m.image.file > 0 /\ m.image.magic) /\ Panic("bad image")
       \/ Panic("read error")
    /\ UNCHANGED loaded /\ FileFrame

AllocImage ==
    /\ At("alloc")
    /\ LET size == m.image.image_size + m.image.text_offset
       IN  \/ /\ \E r \in Fits(size, ImageAlign) : image' = r /\ free' = free \ r
              /\ Println(<<"f">>, "load")
           \/ /\ Fits(size, ImageAlign) = {}
              /\ Panic("out of memory")
              /\ UNCHANGED <<image, free>>
    /\ UNCHANGED <<m, debug, claimed, node, dynamic, heap, loaded, kept, reserved, newtree,
                   handoff>>

Lowest(S) == CHOOSE a \in S : \A b \in S : a <= b

LoadImage ==
    /\ At("load")
    /\ HeapServes
    /\ \/ /\ loaded' = Run(Lowest(image) + m.image.text_offset, m.image.file)
          /\ Goto("qemu_dtb")
       \/ /\ UNCHANGED loaded
          /\ Panic("read error")
    /\ FileFrame

(* /qemu.dtb is read into memory of its own, and the device closed. *)
ReadTree ==
    /\ At("qemu_dtb")
    /\ HeapServes
    /\ \/ m.modified.ok /\ Println(<<"g">>, "trim")
       \/ ~m.modified.ok /\ Panic("no tree")
       \/ Panic("read error")
    /\ UNCHANGED loaded /\ FileFrame

-------------------------------------------------------------------------------
(* Handing the memory on *)

(* trim_for_boot: memory is kept back, what was given out is listed, the    *)
(* rest of the free memory is let go.  Its Vec comes from the heap; without *)
(* room there the call waits for its own lock (GlobalAllocator).            *)
Trim ==
    /\ At("trim")
    /\ \/ /\ m.room
          /\ \E k \in Fits(KeepSize, 1) :
                kept' = k /\ free' = k /\ reserved' = heap \cup image \cup k
          /\ Println(<<"h">>, "push")
       \/ /\ ~m.room /\ Fits(KeepSize, 1) # {}
          /\ Goto("deadlock")
          /\ UNCHANGED <<kept, free, reserved>>
       \/ /\ Fits(KeepSize, 1) = {}
          /\ Panic("out of memory")
          /\ UNCHANGED <<kept, free, reserved>>
    /\ UNCHANGED <<m, debug, claimed, node, dynamic, heap, image, loaded, newtree, handoff>>

(* Mutant: address and size the other way round. *)
Pushed_Swapped == Run(m.stack_start, m.program_start)
(* The pair (program_start, stack_start), as make_dtb reads it: an address and a size. *)
Pushed == Run(m.program_start, m.stack_start)

Push ==
    /\ At("push")
    /\ HeapServes
    /\ reserved' = reserved \cup Pushed
    /\ Goto("make_dtb")
    /\ UNCHANGED <<m, debug, claimed, node, dynamic, image, loaded, kept, newtree, handoff>>

(* The new tree is made from /qemu.dtb, in memory allocated after the trim. *)
MakeTree ==
    /\ At("make_dtb")
    /\ HeapServes
    /\ \E u \in heap' : newtree' = {u}
    /\ handoff' = m.modified.rsv \cup reserved
    /\ Println(<<"i">>, "eret")
    /\ UNCHANGED <<m, debug, claimed, node, dynamic, image, loaded, kept, reserved>>

(* No memory for it: alloc's null is not checked, and the slice made of it is undefined. *)
NullTree ==
    /\ At("make_dtb") /\ HeapFails
    /\ Goto("null_tree")
    /\ UNCHANGED <<m, debug, memory>>

Eret == At("eret") /\ Goto("el1_main") /\ UNCHANGED <<m, debug, memory>>

-------------------------------------------------------------------------------
(* The panic handler: its own Pl011Uart is initialised and written to *)

PanicFlush ==
    /\ pc = "panic" /\ NotBusy
    /\ Goto("panic_flush")
    /\ UNCHANGED <<m, debug, memory>>

PanicReset ==
    /\ pc = "panic_flush" /\ Flushed
    /\ pc' = "panic_write"
    /\ Reset
    /\ UNCHANGED <<m, debug, said, why, memory>>

PanicWrite ==
    /\ pc = "panic_write"
    /\ pc' = "stopped"
    /\ write(<<"P", "\r", "\n", "I">>)
    /\ UNCHANGED <<m, debug, said, why, memory>>

-------------------------------------------------------------------------------
Main ==
    \/ ParseArgs \/ FindUart \/ Hello \/ CheckEl \/ SystemTimer
    \/ AddMemory \/ AddBlock \/ AddStatic \/ AddDynamic \/ EndNodes \/ Finalize
    \/ FindDisk \/ AllocError \/ OpenImage \/ ReadHeader \/ AllocImage \/ LoadImage \/ ReadTree
    \/ Trim \/ Push \/ MakeTree \/ NullTree \/ Eret
    \/ PanicFlush \/ PanicReset \/ PanicWrite
    \/ pushb /\ UNCHANGED <<m, pc, debug, said, why, memory>>

Device == (Load \/ Send) /\ UNCHANGED <<m, pc, debug, said, why, memory>>

Next == Main \/ Device
Spec == Init /\ [][Next]_vars

(* The processor runs and the transmitter sends. *)
FairSpec == Spec /\ WF_vars(Main) /\ WF_vars(Device)

-------------------------------------------------------------------------------
(***************************************************************************)
(* What main allocates is clear of what it holds: each of the image, the   *)
(* heap and the memory kept back is apart from the running program, from   *)
(* the tree main reads and from the static and dynamic reservations of the *)
(* device tree; the image is apart from the heap and from what is kept     *)
(* back, and that from the heap until the heap is served from it (push,    *)
(* main.rs:184); and an image no longer than its header says is read       *)
(* inside its own memory.  Nothing is said of the reservations among       *)
(* themselves: a dynamic one may be placed where the program or the tree   *)
(* is, which are reserved after it.                                        *)
(***************************************************************************)
MemoryApart ==
    LET held == Program \cup m.tree \cup Firmware \cup dynamic
    IN  /\ image \cap held = {} /\ heap \cap held = {} /\ kept \cap held = {}
        /\ image \cap heap = {} /\ image \cap kept = {}
        /\ pc = "push" => heap \cap kept = {}
        /\ m.image.file <= m.image.image_size => loaded \subseteq image

(***************************************************************************)
(* At the jump, the tree the next program is given reserves this program,  *)
(* the image, all the heap (Push and MakeTree allocate after the list was  *)
(* made) and the memory that tree itself is in.  The reservations of the   *)
(* tree main was started with are only in it as far as /qemu.dtb has them: *)
(* finalize drops them from the allocator's list.                          *)
(***************************************************************************)
HandoffReserved ==
    pc \in {"eret", "el1_main"} => Program \cup image \cup heap \cup newtree \subseteq handoff

(***************************************************************************)
(* The line shows exactly what was printed, in order, whatever the FIFO    *)
(* does: nothing is lost, doubled or overtaken before a panic.             *)
(***************************************************************************)
OutputExact ==
    pc \notin {"panic_write", "stopped"} =>
        sent \o shift \o fifo \o pending = Crlf(said)

(***************************************************************************)
(* A machine with all that main asks for: the arguments, devices and files *)
(* it needs, a device tree that every walk gets through, reservations that *)
(* lie in memory and clear of each other, and no more regions than the     *)
(* allocator's tables take.                                                *)
(***************************************************************************)
Good ==
    /\ m.arg /\ m.uarts >= 1 /\ m.el = 2 /\ m.frequency # 0 /\ m.damaged = {}
    /\ Program \cup m.tree \cup Firmware \subseteq Ram /\ Neat /\ ~TablesMayOverflow
    /\ \E i \in DOMAIN m.disks : m.disks[i]
    /\ m.image.found /\ m.image.magic /\ m.image.file > 0 /\ m.modified.ok

(***************************************************************************)
(* On a machine that has what main asks for, main reaches its end with its *)
(* output sent, unless memory runs out (the image, the heap or the new     *)
(* tree finds none) or a read fails, or trim_for_boot has to refill the    *)
(* heap: no other unwrap, assertion or panic of main is met, whatever the  *)
(* dynamic region and the allocations are given.                           *)
(***************************************************************************)
GoodBoots ==
    Good ~> \/ pc = "el1_main" /\ sent = Crlf(said)
            \/ pc = "deadlock" /\ ~m.room
            \/ pc \in {"alloc_error", "null_tree"} \/ why \in {"out of memory", "read error"}

(***************************************************************************)
(* The panic handler writes "core 0 panicked!!!" (main.rs:286): whoever    *)
(* panics says so.                                                         *)
(***************************************************************************)
PanicReports == pc = "panic" ~> \E i \in DOMAIN sent : sent[i] = "P"
===============================================================================
