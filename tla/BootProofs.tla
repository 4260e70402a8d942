------------------------------ MODULE BootProofs ------------------------------
(***************************************************************************)
(* Proofs about Boot for every machine: what main allocates is clear of    *)
(* the program, the tree and the reservations, the next program is told of *)
(* it, and the line shows what was printed.                                *)
(***************************************************************************)
EXTENDS Boot, NaturalRecursion, SequenceTheorems, TLAPS

(* Before finalize, between finalize and the end of trim_for_boot, after it. *)
Early == {"args", "uart", "hello", "el", "timer", "memory", "block", "nodes", "own"}
Serving == {"disk", "open", "header", "alloc", "load", "qemu_dtb", "trim"}
Trimmed == {"push", "make_dtb"}

(* What main may not give out: the program, its tree, the reservations. *)
Held == Program \cup m.tree \cup Firmware \cup dynamic
(* The reservations of the tree that have been made. *)
NodesTo(n) == UNION {m.nodes[i].at : i \in 1 .. n}
Listed == Covered(m.block, Len(m.block)) \cup NodesTo(node - 1) \cup dynamic

(***************************************************************************)
(* What is free is in memory and clear of all that is held or given out.   *)
(* Before finalize nothing has been given out, and what is claimed at the  *)
(* end of that is all of Held.                                             *)
(***************************************************************************)
FreeInv ==
    /\ pc \in Early => heap = {} /\ image = {} /\ kept = {} /\ loaded = {}
    /\ pc \in Early \ {"nodes", "own"} => dynamic = {} /\ node = 1
    /\ pc = "nodes" => Listed \subseteq claimed /\ node \in Nat \ {0}
    /\ pc = "own" => Firmware \cup dynamic \subseteq claimed
    /\ pc \in Serving => free \subseteq Ram /\ free \cap heap = {}
    /\ pc \in Serving \cup Trimmed => free \cap Held = {} /\ free \cap image = {}
    /\ pc \in {"disk", "open", "header", "alloc"} => image = {}
    /\ pc \in Serving => kept = {}

(* The image is read, and its memory is a run of the size the header gives. *)
ImageInv ==
    /\ pc \in Early \cup {"disk", "open", "header", "alloc", "load"} => loaded = {}
    /\ pc \in {"alloc", "load"} => m.image.file > 0
    /\ pc = "load" =>
          \E a \in Nat : image = Run(a, m.image.image_size + m.image.text_offset)

(* After the trim whatever the heap may still take is in the list. *)
ListInv ==
    /\ pc \in Trimmed => heap \cup image \cup free \subseteq reserved
    /\ pc = "make_dtb" => Program \subseteq reserved

Inv == m \in Machines /\ FreeInv /\ ImageInv /\ ListInv /\ MemoryApart /\ HandoffReserved

-------------------------------------------------------------------------------
LEMMA InitInv == Init => Inv
  BY DEF Init, Inv, FreeInv, ImageInv, ListInv, MemoryApart, HandoffReserved, Early, Serving,
     Trimmed

(* The lowest address of a run is where it starts. *)
LEMMA LowestOfRun ==
    ASSUME NEW a \in Nat, NEW n \in Nat \ {0}
    PROVE  Lowest(Run(a, n)) = a
  <1>1. a \in Run(a, n) /\ \A b \in Run(a, n) : a <= b /\ b \in Int
    BY DEF Run
  <1>2. \A c \in Run(a, n) : (\A b \in Run(a, n) : c <= b) => c = a
    BY <1>1
  <1> QED BY <1>1, <1>2 DEF Lowest

(* Memory the allocator can give out is free. *)
LEMMA FitsFree ==
    ASSUME NEW size, NEW align, NEW r \in Fits(size, align)
    PROVE  /\ r \subseteq free
           /\ \E a \in free : r = Run(a, size)
  BY DEF Fits

(* The heap takes free memory only. *)
LEMMA HeapFree ==
    ASSUME HeapMoves
    PROVE  \E S : S \subseteq free /\ heap' = heap \cup S /\ free' = free \ S
  <1>1. PICK S \in {{}} \cup UNION {Fits(n, 1) : n \in 1 .. MaxRequest} :
            heap' = heap \cup S /\ free' = free \ S
    BY DEF HeapMoves
  <1>2. S \subseteq free
    BY FitsFree
  <1> QED BY <1>1, <1>2

(***************************************************************************)
(* Steps that leave memory alone: the checks, the messages, a panic and    *)
(* the UART.                                                               *)
(***************************************************************************)
LEMMA QuietStep ==
    ASSUME Inv, UNCHANGED <<m, memory>>,
           \/ UNCHANGED pc
           \/ pc' \in {"panic", "alloc_error", "deadlock", "null_tree", "panic_flush",
                       "panic_write", "stopped"}
           \/ pc \in Early \ {"nodes", "own"} /\ pc' \in Early \ {"nodes", "own"}
           \/ pc = "eret" /\ pc' = "el1_main"
    PROVE  Inv'
  <1> USE DEF Inv, memory, Early, Serving, Trimmed
  <1>a. Held' = Held /\ Program' = Program /\ Listed' = Listed /\ Firmware' = Firmware /\ Ram' = Ram
    BY DEF Held, Program, Listed, NodesTo, Firmware, Ram
  <1>1. FreeInv'
    BY <1>a DEF FreeInv
  <1>2. ImageInv'
    BY DEF ImageInv
  <1>3. ListInv'
    BY <1>a DEF ListInv
  <1>4. MemoryApart'
    BY <1>a DEF MemoryApart
  <1>5. HandoffReserved'
    BY <1>a DEF HandoffReserved
  <1> QED BY <1>1, <1>2, <1>3, <1>4, <1>5

LEMMA QuietMain ==
    ASSUME Inv,
           \/ ParseArgs \/ FindUart \/ Hello \/ CheckEl \/ SystemTimer
           \/ AllocError \/ NullTree \/ Eret
           \/ PanicFlush \/ PanicReset \/ PanicWrite
    PROVE  Inv'
  <1> USE QuietStep DEF At, Goto, Panic, Println, Early
  <1>1. CASE ParseArgs \/ FindUart \/ Hello \/ CheckEl \/ SystemTimer
    BY <1>1 DEF ParseArgs, FindUart, Hello, CheckEl, SystemTimer
  <1>2. CASE AllocError \/ NullTree \/ Eret
    BY <1>2 DEF AllocError, NullTree, Eret
  <1>3. CASE PanicFlush \/ PanicReset \/ PanicWrite
    BY <1>3 DEF PanicFlush, PanicReset, PanicWrite
  <1> QED BY <1>1, <1>2, <1>3

(***************************************************************************)
(* Setting the allocator up: what is free after finalize is clear of all   *)
(* that is held, which is all that was claimed by then.                    *)
(***************************************************************************)
LEMMA SetUpStep ==
    ASSUME Inv, AddMemory \/ AddBlock \/ AddStatic \/ AddDynamic \/ EndNodes \/ Finalize
    PROVE  Inv'
  <1> USE DEF Inv, At, Goto, Panic, Println, Early, Serving, Trimmed
  <1>1. /\ pc \in {"memory", "block", "nodes", "own"}
        /\ UNCHANGED <<m, heap, image, loaded, kept, reserved, newtree, handoff>>
        /\ pc' \in Early \cup {"disk", "panic"}
    BY DEF AddMemory, AddBlock, AddStatic, AddDynamic, EndNodes, Finalize, memory
  <1>2. /\ heap = {} /\ image = {} /\ kept = {} /\ loaded = {}
        /\ Program' = Program /\ Firmware' = Firmware /\ Ram' = Ram
    BY <1>1 DEF FreeInv, Program, Firmware, Ram
  <1>3. ImageInv' /\ ListInv' /\ MemoryApart' /\ HandoffReserved'
    BY <1>1, <1>2 DEF ImageInv, ListInv, MemoryApart, HandoffReserved
  <1>4. FreeInv'
    <2>1. CASE pc' = "panic"
      BY <2>1 DEF FreeInv
    <2>2. CASE AddMemory /\ pc' # "panic"
      <3>1. pc = "memory" /\ pc' = "block" /\ UNCHANGED <<node, dynamic>>
        BY <2>2 DEF AddMemory
      <3> QED BY <3>1, <1>1, <1>2 DEF FreeInv
    <2>3. CASE AddBlock /\ pc' # "panic"
      <3>1. /\ pc = "block" /\ pc' = "nodes" /\ UNCHANGED <<node, dynamic>>
            /\ claimed' = Covered(m.block, Len(m.block))
        BY <2>3 DEF AddBlock
      <3>2. dynamic' = {} /\ node' = 1
        BY <3>1 DEF FreeInv
      <3>3. Listed' = Covered(m.block, Len(m.block))
        BY <3>2, <1>1 DEF Listed, NodesTo
      <3> QED BY <3>1, <3>2, <3>3, <1>1, <1>2 DEF FreeInv
    <2>4. CASE (AddStatic \/ AddDynamic) /\ pc' # "panic"
      <3>1. /\ pc = "nodes" /\ pc' = "nodes" /\ node' = node + 1
            /\ node \in Nat \ {0} /\ Listed \subseteq claimed
        BY <2>4 DEF AddStatic, AddDynamic, FreeInv
      <3>2. node <= Len(m.nodes) /\ Len(m.nodes) \in Nat /\ node \in 1 .. Len(m.nodes)
        BY <2>4, <3>1, MachinesAssumption DEF AddStatic, AddDynamic
      <3>3. claimed \cup dynamic' \cup m.nodes[node].at \subseteq claimed'
            /\ dynamic \subseteq dynamic'
        <4>1. CASE AddStatic
          BY <4>1, <2>4, <3>1 DEF AddStatic, Listed
        <4>2. CASE AddDynamic
          <5>1. m.nodes[node].at = {}
            BY <4>2, <3>2, MachinesAssumption DEF AddDynamic
          <5>2. \E r : dynamic' = dynamic \cup r /\ claimed' = claimed \cup r
            BY <4>2, <2>4 DEF AddDynamic
          <5> QED BY <5>1, <5>2, <3>1 DEF Listed
        <4> QED BY <2>4, <4>1, <4>2
      <3>4. Listed' \subseteq Listed \cup dynamic' \cup m.nodes[node].at
        <4>1. NodesTo((node + 1) - 1) \subseteq NodesTo(node - 1) \cup m.nodes[node].at
          <5>1. \A i \in 1 .. (node + 1) - 1 : i \in 1 .. node - 1 \/ i = node
            BY <3>1
          <5> QED BY <5>1, Zenon DEF NodesTo
        <4>2. NodesTo(node - 1)' = NodesTo((node + 1) - 1)
          BY <3>1, <1>1, Zenon DEF NodesTo
        <4>3. Covered(m.block, Len(m.block))' = Covered(m.block, Len(m.block))
          BY <1>1
        <4> QED BY <4>1, <4>2, <4>3, Zenon DEF Listed
      <3> QED BY <3>1, <3>3, <3>4, <1>1, <1>2 DEF FreeInv
    <2>5. CASE EndNodes /\ pc' # "panic"
      <3>1. /\ pc = "nodes" /\ pc' = "own" /\ node > Len(m.nodes)
            /\ UNCHANGED <<node, dynamic, claimed>>
        BY <2>5 DEF EndNodes, memory
      <3>2. node \in Nat /\ Listed \subseteq claimed
        BY <3>1 DEF FreeInv
      <3>3. DOMAIN m.nodes \subseteq 1 .. node - 1
        <4>1. DOMAIN m.nodes = 1 .. Len(m.nodes) /\ Len(m.nodes) \in Nat
          BY MachinesAssumption
        <4> QED BY <4>1, <3>1, <3>2
      <3>4. Firmware \cup dynamic \subseteq claimed
        BY <3>2, <3>3, Zenon DEF Firmware, Listed, NodesTo
      <3> QED BY <3>1, <3>4, <1>1, <1>2 DEF FreeInv
    <2>6. CASE Finalize /\ pc' # "panic"
      <3>1. /\ pc = "own" /\ pc' = "disk" /\ UNCHANGED dynamic
            /\ free' = Ram \ (claimed \cup Program \cup m.tree)
        BY <2>6 DEF Finalize, OwnRegions
      <3>2. Held' = Held /\ free' \cap Held = {}
        BY <3>1, <1>1, <1>2 DEF Held, FreeInv
      <3> QED BY <3>1, <3>2, <1>1, <1>2 DEF FreeInv
    <2> QED BY <2>1, <2>2, <2>3, <2>4, <2>5, <2>6
  <1> QED BY <1>1, <1>3, <1>4

(* The heap takes from what is free, before the trim and after it. *)
LEMMA HeapStep ==
    ASSUME Inv, FindDisk \/ OpenImage \/ ReadHeader \/ ReadTree \/ Push \/ MakeTree
    PROVE  Inv'
  <1> USE DEF Inv, At, Goto, Panic, Println, Early, Serving, Trimmed
  <1>1. PICK S : S \subseteq free /\ heap' = heap \cup S /\ free' = free \ S
    BY HeapFree DEF FindDisk, OpenImage, ReadHeader, ReadTree, Push, MakeTree, HeapServes
  <1>2. /\ UNCHANGED <<m, dynamic, image, loaded, kept>>
        /\ pc \in {"disk", "open", "header", "qemu_dtb", "push", "make_dtb"}
        /\ pc' # "push"
    BY DEF FindDisk, OpenImage, ReadHeader, ReadTree, Push, MakeTree, FileFrame
  <1>3. Held' = Held /\ Program' = Program /\ Firmware' = Firmware /\ Ram' = Ram
    BY <1>2 DEF Held, Program, Firmware, Ram
  <1>4. MemoryApart'
    BY <1>1, <1>2, <1>3 DEF MemoryApart, FreeInv, Held
  <1>5. CASE FindDisk \/ OpenImage \/ ReadHeader \/ ReadTree
    <2>1. \/ pc' = "panic"
          \/ pc = "disk" /\ pc' = "open"
          \/ pc = "open" /\ pc' = "header"
          \/ pc = "header" /\ pc' = "alloc" /\ m.image.file > 0
          \/ pc = "qemu_dtb" /\ pc' = "trim"
      BY <1>5 DEF FindDisk, OpenImage, ReadHeader, ReadTree
    <2> QED BY <2>1, <1>1, <1>2, <1>3, <1>4 DEF FreeInv, ImageInv, ListInv, HandoffReserved
  <1>6. CASE Push
    <2>1. /\ pc = "push" /\ pc' = "make_dtb" /\ reserved' = reserved \cup Pushed
      BY <1>6 DEF Push
    <2>2. Program \subseteq Pushed
      BY MachinesAssumption DEF Program, Pushed, Run
    <2> QED BY <2>1, <2>2, <1>1, <1>2, <1>3, <1>4 DEF FreeInv, ImageInv, ListInv, HandoffReserved
  <1>7. CASE MakeTree
    <2>1. /\ pc = "make_dtb" /\ pc' = "eret" /\ newtree' \subseteq heap'
          /\ reserved \subseteq handoff'
      BY <1>7 DEF MakeTree
    <2> QED BY <2>1, <1>1, <1>2, <1>3, <1>4 DEF FreeInv, ImageInv, ListInv, HandoffReserved
  <1> QED BY <1>5, <1>6, <1>7

(***************************************************************************)
(* The image: its memory was free, and a file no longer than the header    *)
(* says ends inside it.                                                    *)
(***************************************************************************)
LEMMA ImageStep ==
    ASSUME Inv, AllocImage \/ LoadImage
    PROVE  Inv'
  <1> USE DEF Inv, At, Goto, Panic, Println, Early, Serving, Trimmed
  <1> DEFINE size == m.image.image_size + m.image.text_offset
  <1>a. /\ Ram \subseteq Nat /\ m.image.file \in Nat /\ m.image.image_size \in Nat
        /\ m.image.text_offset \in Nat
    <2>1. m.memory \in Seq(SUBSET Nat)
      BY MachinesAssumption
    <2>2. Ram \subseteq Nat
      BY <2>1 DEF Ram, Covered
    <2> QED BY <2>2, MachinesAssumption
  <1>1. CASE AllocImage /\ pc' = "load"
    <2>1. /\ pc = "alloc"
          /\ UNCHANGED <<m, dynamic, heap, loaded, kept>>
      BY <1>1 DEF AllocImage
    <2>2. PICK r \in Fits(size, ImageAlign) : image' = r /\ free' = free \ r
      BY <1>1 DEF AllocImage
    <2>3. r \subseteq free
      BY FitsFree
    <2>4. \E a \in Nat : r = Run(a, size)
      BY <1>a, <2>1, FitsFree DEF FreeInv
    <2>5. Held' = Held /\ Program' = Program /\ Firmware' = Firmware /\ Ram' = Ram
      BY <2>1 DEF Held, Program, Firmware, Ram
    <2>6. MemoryApart'
      BY <2>1, <2>2, <2>3, <2>5 DEF MemoryApart, FreeInv, ImageInv, Held
    <2>7. FreeInv'
      BY <1>1, <2>1, <2>2, <2>3, <2>5 DEF FreeInv
    <2>8. ImageInv'
      BY <1>1, <2>1, <2>2, <2>4 DEF ImageInv
    <2> QED BY <1>1, <2>1, <2>6, <2>7, <2>8 DEF ListInv, HandoffReserved
  <1>2. CASE LoadImage /\ pc' = "qemu_dtb"
    <2>1. /\ pc = "load"
          /\ loaded' = Run(Lowest(image) + m.image.text_offset, m.image.file)
          /\ UNCHANGED <<m, dynamic, image, kept>>
      BY <1>2 DEF LoadImage, FileFrame
    <2>s. PICK S : S \subseteq free /\ heap' = heap \cup S /\ free' = free \ S
      BY <1>2, HeapFree DEF LoadImage, HeapServes
    <2>2. PICK a \in Nat : image = Run(a, size)
      BY <2>1 DEF ImageInv
    <2>3. m.image.file <= m.image.image_size => loaded' \subseteq image
      <3> SUFFICES ASSUME m.image.file <= m.image.image_size PROVE loaded' \subseteq image
        OBVIOUS
      <3>1. m.image.file > 0
        BY <2>1 DEF ImageInv
      <3>2. size \in Nat \ {0}
        BY <3>1, <1>a
      <3>3. Lowest(image) = a
        BY <2>2, <3>2, LowestOfRun
      <3>4. loaded' = Run(a + m.image.text_offset, m.image.file)
        BY <3>3, <2>1
      <3>5. \A x : x \in loaded' => x \in image
        BY <3>4, <2>2, <1>a DEF Run
      <3> QED BY <3>5
    <2>4. Held' = Held /\ Program' = Program /\ Firmware' = Firmware /\ Ram' = Ram
      BY <2>1 DEF Held, Program, Firmware, Ram
    <2>5. MemoryApart'
      BY <1>2, <2>1, <2>s, <2>3, <2>4 DEF MemoryApart, Held, FreeInv
    <2> QED BY <1>2, <2>1, <2>s, <2>4, <2>5 DEF FreeInv, ImageInv, ListInv, HandoffReserved
  <1>3. CASE AllocImage /\ pc' = "panic"
    BY <1>3, QuietStep DEF AllocImage, memory
  <1>4. CASE LoadImage /\ pc' = "panic"
    <2>1. pc = "load" /\ UNCHANGED <<m, dynamic, image, kept, loaded>>
      BY <1>4 DEF LoadImage, FileFrame
    <2>2. PICK S : S \subseteq free /\ heap' = heap \cup S /\ free' = free \ S
      BY <1>4, HeapFree DEF LoadImage, HeapServes
    <2>3. Held' = Held /\ Program' = Program /\ Firmware' = Firmware
      BY <2>1 DEF Held, Program, Firmware
    <2>4. MemoryApart'
      BY <1>4, <2>1, <2>2, <2>3 DEF MemoryApart, Held, FreeInv
    <2> QED BY <1>4, <2>1, <2>4 DEF FreeInv, ImageInv, ListInv, HandoffReserved
  <1> QED BY <1>1, <1>2, <1>3, <1>4 DEF AllocImage, LoadImage

(* The list is made of all that was given out and what is kept back. *)
LEMMA TrimStep ==
    ASSUME Inv, Trim
    PROVE  Inv'
  <1> USE DEF Inv, At, Goto, Panic, Println, Early, Serving, Trimmed
  <1>1. CASE pc' = "push"
    <2>1. pc = "trim" /\ UNCHANGED <<m, dynamic, heap, image, loaded>>
      BY DEF Trim
    <2>2. PICK k \in Fits(KeepSize, 1) :
              kept' = k /\ free' = k /\ reserved' = heap \cup image \cup k
      BY <1>1 DEF Trim
    <2>3. k \subseteq free
      BY FitsFree
    <2>4. Held' = Held /\ Program' = Program /\ Firmware' = Firmware /\ Ram' = Ram
      BY <2>1 DEF Held, Program, Firmware, Ram
    <2>5. MemoryApart'
      BY <2>1, <2>2, <2>3, <2>4 DEF MemoryApart, FreeInv, Held
    <2> QED BY <1>1, <2>1, <2>2, <2>3, <2>4, <2>5 DEF FreeInv, ImageInv, ListInv, HandoffReserved
  <1>2. CASE pc' \in {"deadlock", "panic"} /\ UNCHANGED <<m, memory>>
    BY <1>2, QuietStep
  <1> QED BY <1>1, <1>2 DEF Trim, memory
-------------------------------------------------------------------------------
LEMMA InvStep == Inv /\ [Next]_vars => Inv'
  <1> SUFFICES ASSUME Inv, [Next]_vars PROVE Inv'
    OBVIOUS
  <1>1. CASE Device \/ (pushb /\ UNCHANGED <<m, pc, debug, said, why, memory>>) \/ UNCHANGED vars
    <2>1. UNCHANGED <<m, memory>> /\ UNCHANGED pc
      BY <1>1 DEF Device, vars
    <2> QED BY <2>1, QuietStep
  <1>2. CASE Main /\ ~(pushb /\ UNCHANGED <<m, pc, debug, said, why, memory>>)
    BY <1>2, QuietMain, SetUpStep, HeapStep, ImageStep, TrimStep DEF Main
  <1> QED BY <1>1, <1>2 DEF Next

(***************************************************************************)
(* On every machine, with its memory, reservations and image of any size:  *)
(* the image, the heap and what trim_for_boot keeps back stay clear of the *)
(* program, the tree and the reservations, the image of the other two, and *)
(* what is kept back of the heap until main allocates from it.             *)
(***************************************************************************)
THEOREM MemorySafe == Spec => []MemoryApart
  <1>1. Inv => MemoryApart
    BY DEF Inv
  <1> QED BY <1>1, InitInv, InvStep, PTL DEF Spec

(***************************************************************************)
(* On every machine main that reaches its end has made a tree that         *)
(* reserves its own program, the image, the heap and the tree's memory.    *)
(***************************************************************************)
THEOREM HandoffSafe == Spec => []HandoffReserved
  <1>1. Inv => HandoffReserved
    BY DEF Inv
  <1> QED BY <1>1, InitInv, InvStep, PTL DEF Spec

-------------------------------------------------------------------------------
(* What write makes of a text *)

Code(c) == IF c = "\n" THEN <<"\r", "\n">> ELSE <<c>>

(* write goes through the text from its first character to its last. *)
LEMMA CrlfUnfolds ==
    ASSUME NEW S, {"\r", "\n"} \subseteq S, NEW s \in Seq(S)
    PROVE  \E f : /\ Crlf(s) = f[Len(s)]
                  /\ f[0] = <<>>
                  /\ \A n \in 0 .. Len(s) : f[n] \in Seq(S)
                  /\ \A n \in 0 .. Len(s) - 1 : f[n + 1] = f[n] \o Code(s[n + 1])
  <1> DEFINE T == Seq(S)
             N == Len(s)
             piece(n) == Code(s[n])
             Rec(f) == f = [n \in 0 .. N |-> IF n = 0 THEN <<>> ELSE f[n - 1] \o piece(n)]
             step == [n \in Nat |-> [x \in T |-> IF n < N THEN x \o piece(n + 1) ELSE x]]
  <1>1. N \in Nat
    BY LenProperties
  <1>2. \A n \in 1 .. N : piece(n) \in T
    BY ElementOfSeq DEF Code
  <1>3. Crlf(s) = (CHOOSE f : Rec(f))[N]
    BY DEF Crlf, Code
  <1>4. <<>> \in T
    OBVIOUS
  <1> HIDE DEF N, piece
  <1>5. step \in [Nat -> [T -> T]]
    <2>1. ASSUME NEW n \in Nat, NEW x \in T
          PROVE  (IF n < N THEN x \o piece(n + 1) ELSE x) \in T
      <3>1. CASE n < N
        <4>1. n + 1 \in 1 .. N
          BY <3>1, <1>1
        <4>2. x \o piece(n + 1) \in T
          BY <4>1, <1>2, ConcatProperties
        <4> QED BY <3>1, <4>2
      <3> QED BY <3>1
    <2> HIDE DEF T
    <2> QED BY <2>1
  <1>6. PICK F \in [Nat -> T] : F[0] = <<>> /\ \A n \in Nat : F[n + 1] = step[n][F[n]]
    <2> HIDE DEF T, step
    <2>1. Recurses(T)
      BY RecursionExists
    <2> QED BY <2>1, <1>4, <1>5, Zenon DEF Recurses
  <1> HIDE DEF T
  <1>7. \A n \in 0 .. N - 1 : F[n + 1] = F[n] \o piece(n + 1)
    <2> SUFFICES ASSUME NEW n \in 0 .. N - 1 PROVE F[n + 1] = F[n] \o piece(n + 1)
      OBVIOUS
    <2>1. n \in Nat /\ n < N /\ F[n] \in T
      BY <1>1, <1>6
    <2> QED BY <2>1, <1>6
  <1> HIDE DEF step
  <1> DEFINE g == [n \in 0 .. N |-> F[n]]
  <1>8. Rec(g)
    <2> DEFINE val(n) == IF n = 0 THEN <<>> ELSE g[n - 1] \o piece(n)
    <2>1. ASSUME NEW n \in 0 .. N PROVE F[n] = val(n)
      <3>1. CASE n = 0
        BY <3>1, <1>6
      <3>2. CASE n # 0
        <4>1. n - 1 \in 0 .. N - 1 /\ n - 1 \in 0 .. N /\ (n - 1) + 1 = n
          BY <3>2, <1>1
        <4>2. F[(n - 1) + 1] = F[n - 1] \o piece((n - 1) + 1) /\ g[n - 1] = F[n - 1]
          BY <4>1, <1>7
        <4> QED BY <3>2, <4>1, <4>2, Zenon
      <3> QED BY <3>1, <3>2
    <2>2. g = [n \in 0 .. N |-> val(n)]
      <3> HIDE DEF val
      <3> QED BY <2>1
    <2> QED BY <2>2, Zenon
  <1> DEFINE C == CHOOSE f : Rec(f)
  <1>9. Rec(C)
    <2> HIDE DEF Rec, g
    <2> QED BY <1>8
  <1>10. C[0] = <<>> /\ \A n \in 0 .. N - 1 : C[n + 1] = C[n] \o piece(n + 1)
    <2> DEFINE D == C
               val(n) == IF n = 0 THEN <<>> ELSE D[n - 1] \o piece(n)
    <2>1. D = [n \in 0 .. N |-> val(n)]
      BY <1>9, Zenon
    <2> HIDE DEF D
    <2>2. \A n \in 0 .. N : D[n] = val(n)
      <3> HIDE DEF val
      <3> QED BY <2>1
    <2>3. ASSUME NEW n \in 0 .. N - 1 PROVE D[n + 1] = D[n] \o piece(n + 1)
      <3>1. n + 1 \in 0 .. N /\ n + 1 # 0 /\ (n + 1) - 1 = n
        BY <1>1
      <3>2. D[n + 1] = val(n + 1)
        BY <2>2, <3>1, Zenon
      <3>3. val(n + 1) = D[(n + 1) - 1] \o piece(n + 1)
        BY <3>1, Zenon
      <3> QED BY <3>1, <3>2, <3>3, Zenon
    <2>4. D[0] = <<>>
      <3>1. 0 \in 0 .. N
        BY <1>1
      <3> QED BY <2>2, <3>1, Zenon
    <2> QED BY <2>3, <2>4, Zenon DEF D
  <1> HIDE DEF C, g
  <1>11. \A n \in Nat : n <= N => C[n] \in T
    <2> DEFINE G == {n \in Nat : n <= N => C[n] \in T}
    <2>1. 0 \in G
      BY <1>4, <1>10
    <2>2. ASSUME NEW n \in G PROVE n + 1 \in G
      <3> SUFFICES ASSUME n + 1 <= N PROVE C[n + 1] \in T
        OBVIOUS
      <3>1. n \in 0 .. N - 1 /\ n + 1 \in 1 .. N /\ C[n] \in T
        BY <1>1
      <3>2. C[n] \o piece(n + 1) \in T
        BY <3>1, <1>2, ConcatProperties DEF T
      <3> QED BY <3>1, <3>2, <1>10
    <2> HIDE DEF G
    <2>3. G = Nat
      <3>1. G \in SUBSET Nat
        BY DEF G
      <3> QED BY <2>1, <2>2, <3>1, Induction
    <2> QED BY <2>3 DEF G
  <1>12. \A n \in 0 .. N : C[n] \in T
    BY <1>11, <1>1
  <1> HIDE DEF Rec
  <1>13. Crlf(s) = C[N]
    BY <1>3, Zenon DEF C
  <1> QED BY <1>10, <1>12, <1>13, Zenon DEF T, N, piece

(* It writes one text after another as it writes the two as one. *)
LEMMA CrlfConcat ==
    ASSUME NEW S, {"\r", "\n"} \subseteq S, NEW s \in Seq(S), NEW t \in Seq(S)
    PROVE  Crlf(s \o t) = Crlf(s) \o Crlf(t) /\ Crlf(s) \in Seq(S)
  <1> DEFINE N == Len(s)
             M == Len(t)
             st == s \o t
             P(f, u, n) == /\ Crlf(u) = f[n]
                           /\ f[0] = <<>>
                           /\ \A k \in 0 .. n : f[k] \in Seq(S)
                           /\ \A k \in 0 .. n - 1 : f[k + 1] = f[k] \o Code(u[k + 1])
  <1>1. N \in Nat /\ M \in Nat
    BY LenProperties
  <1>2. /\ st \in Seq(S) /\ Len(st) = N + M
        /\ \A i \in 1 .. N + M : st[i] = IF i <= N THEN s[i] ELSE t[i - N]
    BY ConcatProperties
  <1>3. (\E f : P(f, s, N)) /\ (\E f : P(f, t, M)) /\ \E f : P(f, st, N + M)
    <2>1. \A u \in Seq(S) : \E f : P(f, u, Len(u))
      BY CrlfUnfolds
    <2> HIDE DEF P
    <2> QED BY <2>1, <1>2
  <1> HIDE DEF N, M, st
  <1>4. PICK A : P(A, s, N)
    BY <1>3, Zenon
  <1>5. PICK B : P(B, t, M)
    BY <1>3, Zenon
  <1>6. PICK C : P(C, st, N + M)
    BY <1>3, Zenon
  <1>7. \A n \in Nat : n <= N => C[n] = A[n]
    <2> DEFINE G == {n \in Nat : n <= N => C[n] = A[n]}
    <2>1. 0 \in G
      BY <1>4, <1>6
    <2>2. ASSUME NEW n \in G PROVE n + 1 \in G
      <3> SUFFICES ASSUME n + 1 <= N PROVE C[n + 1] = A[n + 1]
        OBVIOUS
      <3>1. /\ n \in 0 .. N - 1 /\ n \in 0 .. (N + M) - 1 /\ C[n] = A[n]
            /\ n + 1 \in 1 .. N + M /\ n + 1 <= N
        BY <1>1
      <3>2. st[n + 1] = s[n + 1]
        BY <3>1, <1>2
      <3>3. C[n + 1] = C[n] \o Code(st[n + 1]) /\ A[n + 1] = A[n] \o Code(s[n + 1])
        BY <3>1, <1>4, <1>6, Zenon
      <3> QED BY <3>1, <3>2, <3>3, Zenon
    <2> HIDE DEF G
    <2>3. G = Nat
      <3>1. G \in SUBSET Nat
        BY DEF G
      <3> QED BY <2>1, <2>2, <3>1, Induction
    <2> QED BY <2>3 DEF G
  <1>8. A[N] \in Seq(S) /\ C[N] = A[N]
    BY <1>1, <1>4, <1>7
  <1> DEFINE Q(k) == C[N + k] = A[N] \o B[k]
  <1>9. \A k \in Nat : k <= M => Q(k)
    <2> DEFINE G == {k \in Nat : k <= M => Q(k)}
    <2>1. 0 \in G
      <3>1. B[0] = <<>> /\ N + 0 = N
        BY <1>1, <1>5
      <3>2. A[N] \o <<>> = A[N]
        BY <1>8, ConcatEmptySeq
      <3> QED BY <3>1, <3>2, <1>8
    <2>2. ASSUME NEW k \in G PROVE k + 1 \in G
      <3> HIDE DEF Q
      <3> SUFFICES ASSUME k + 1 <= M PROVE Q(k + 1)
        OBVIOUS
      <3>a. k \in Nat /\ Q(k)
        BY <1>1
      <3>1. /\ k \in 0 .. M - 1 /\ k \in 0 .. M /\ N + k \in 0 .. (N + M) - 1
            /\ (N + k) + 1 \in 1 .. N + M /\ ~((N + k) + 1 <= N) /\ ((N + k) + 1) - N = k + 1
            /\ N + (k + 1) = (N + k) + 1 /\ k + 1 \in 1 .. M
        BY <1>1, <3>a
      <3> USE DEF Q
      <3>2. st[(N + k) + 1] = t[k + 1]
        <4>1. st[(N + k) + 1] = IF (N + k) + 1 <= N THEN s[(N + k) + 1] ELSE t[((N + k) + 1) - N]
          BY <3>1, <1>2, Zenon
        <4> QED BY <3>1, <4>1, Zenon
      <3>3. /\ C[(N + k) + 1] = C[N + k] \o Code(st[(N + k) + 1])
            /\ B[k + 1] = B[k] \o Code(t[k + 1]) /\ B[k] \in Seq(S)
        BY <3>1, <1>5, <1>6, Zenon
      <3>4. Code(t[k + 1]) \in Seq(S)
        BY <3>1, ElementOfSeq DEF Code, M
      <3>5. (A[N] \o B[k]) \o Code(t[k + 1]) = A[N] \o (B[k] \o Code(t[k + 1]))
        <4> DEFINE x == A[N]
                   y == B[k]
                   z == Code(t[k + 1])
        <4>1. x \in Seq(S) /\ y \in Seq(S) /\ z \in Seq(S)
          BY <3>3, <3>4, <1>8, Zenon
        <4> HIDE DEF x, y, z
        <4>2. (x \o y) \o z = x \o (y \o z)
          BY <4>1, ConcatAssociative
        <4> QED BY <4>2, Zenon DEF x, y, z
      <3> QED BY <3>1, <3>2, <3>3, <3>5, <3>a, Zenon
    <2> HIDE DEF G
    <2>3. G = Nat
      <3>1. G \in SUBSET Nat
        BY DEF G
      <3> QED BY <2>1, <2>2, <3>1, Induction
    <2> QED BY <2>3 DEF G
  <1>10. C[N + M] = A[N] \o B[M]
    <2>1. M <= M
      BY <1>1
    <2> QED BY <2>1, <1>1, <1>9, Zenon
  <1>11. Crlf(s) = A[N] /\ Crlf(t) = B[M] /\ Crlf(st) = C[N + M]
    BY <1>4, <1>5, <1>6, Zenon
  <1> HIDE DEF P
  <1> QED BY <1>8, <1>10, <1>11, Zenon DEF st

-------------------------------------------------------------------------------
(* The output *)

Chars == {"a", "b", "c", "d", "e", "f", "g", "h", "i", "P", "I", "\r", "\n"}

UartTypes ==
    /\ fifo \in Seq(Chars) /\ shift \in Seq(Chars) /\ sent \in Seq(Chars)
    /\ pending \in Seq(Chars) /\ said \in Seq(Chars)

OutputInv == UartTypes /\ OutputExact

(* Once main has panicked and its handler has reset the UART. *)
Reporting == {"panic_write", "stopped"}

LEMMA OutputInit == Init => OutputInv
  <1> SUFFICES ASSUME Init PROVE OutputInv
    OBVIOUS
  <1>1. /\ <<>> \in Seq(Chars) /\ Len(<<>>) = 0
        /\ fifo = <<>> /\ shift = <<>> /\ sent = <<>> /\ pending = <<>> /\ said = <<>>
    BY EmptySeq DEF Init, UartInit
  <1>2. Crlf(<<>>) = <<>>
    <2>1. PICK f : Crlf(<<>>) = f[Len(<<>>)] /\ f[0] = <<>>
      BY <1>1, CrlfUnfolds DEF Chars
    <2> QED BY <2>1, <1>1
  <1>3. <<>> \o <<>> \o <<>> \o <<>> = <<>>
    BY <1>1, ConcatEmptySeq
  <1> QED BY <1>1, <1>2, <1>3 DEF OutputInv, UartTypes, OutputExact

(* main prints once its last message is in the FIFO, or leaves the UART alone. *)
LEMMA MainOutput ==
    ASSUME Main, ~(pushb /\ UNCHANGED <<m, pc, debug, said, why, memory>>)
    PROVE  \/ pc \notin Reporting /\ UNCHANGED <<uart, said>>
           \/ /\ pc \notin Reporting /\ pending = <<>>
              /\ \E text \in Seq(Chars) : \E next : Println(text, next)
           \/ PanicReset \/ PanicWrite
  <1> USE DEF At, Goto, Panic, Reporting
  <1>1. CASE ParseArgs \/ FindUart \/ AddMemory \/ AddBlock \/ AddStatic \/ AddDynamic \/ EndNodes
             \/ FindDisk \/ AllocError \/ ReadHeader \/ LoadImage \/ Push \/ NullTree \/ Eret
             \/ PanicFlush
    BY <1>1 DEF ParseArgs, FindUart, AddMemory, AddBlock, AddStatic, AddDynamic, EndNodes,
       FindDisk, AllocError, ReadHeader, LoadImage, Push, NullTree, Eret, PanicFlush
  <1>2. CASE Hello \/ CheckEl \/ SystemTimer \/ Finalize \/ OpenImage \/ AllocImage \/ ReadTree
             \/ Trim \/ MakeTree
    <2>1. /\ <<"a", "\r", "\n">> \in Seq(Chars) /\ <<"b">> \in Seq(Chars)
          /\ <<"c">> \in Seq(Chars) /\ <<"d">> \in Seq(Chars) /\ <<"e">> \in Seq(Chars)
          /\ <<"f">> \in Seq(Chars) /\ <<"g">> \in Seq(Chars) /\ <<"h">> \in Seq(Chars)
          /\ <<"i">> \in Seq(Chars)
      BY DEF Chars
    <2> HIDE DEF Println
    <2>2. CASE Hello \/ CheckEl \/ SystemTimer
      BY <2>1, <2>2 DEF Hello, CheckEl, SystemTimer
    <2>3. CASE Finalize \/ OpenImage \/ AllocImage
      BY <2>1, <2>3 DEF Finalize, OpenImage, AllocImage
    <2>4. CASE ReadTree \/ Trim \/ MakeTree
      BY <2>1, <2>4 DEF ReadTree, Trim, MakeTree
    <2> QED BY <1>2, <2>2, <2>3, <2>4
  <1> QED BY <1>1, <1>2 DEF Main

LEMMA OutputStep == OutputInv /\ [Next]_vars => OutputInv'
  <1> SUFFICES ASSUME OutputInv, [Next]_vars PROVE OutputInv'
    OBVIOUS
  <1>a. UartTypes /\ (pc \notin Reporting => sent \o shift \o fifo \o pending = Crlf(said))
    BY DEF OutputInv, OutputExact, Reporting
  <1> USE DEF UartTypes
  <1>b. /\ sent \o shift \in Seq(Chars) /\ sent \o shift \o fifo \in Seq(Chars)
    <2>1. sent \o shift \in Seq(Chars)
      BY <1>a, ConcatProperties
    <2> QED BY <2>1, <1>a, ConcatProperties

  <1>1. CASE UNCHANGED <<uart, said>> /\ (pc' \notin Reporting => pc \notin Reporting)
    BY <1>1, <1>a DEF OutputInv, OutputExact, Reporting, uart
  <1>2. ASSUME NEW text \in Seq(Chars), NEW next, Println(text, next), pending = <<>>,
               pc \notin Reporting
        PROVE  OutputInv'
    <2> DEFINE line == Append(text, "\n")
    <2>1. line \in Seq(Chars)
      BY AppendProperties DEF Chars
    <2>2. /\ pending' = Crlf(line) /\ said' = said \o line /\ UNCHANGED <<fifo, shift, sent>>
      BY <1>2 DEF Println, write
    <2> HIDE DEF line
    <2>3. /\ Crlf(said \o line) = Crlf(said) \o Crlf(line)
          /\ Crlf(said) \in Seq(Chars) /\ Crlf(line) \in Seq(Chars)
      <3>1. {"\r", "\n"} \subseteq Chars
        BY DEF Chars
      <3> QED BY <3>1, <2>1, <1>a, CrlfConcat
    <2>4. said \o line \in Seq(Chars)
      BY <2>1, <1>a, ConcatProperties
    <2>5. sent \o shift \o fifo = Crlf(said)
      BY <1>2, <1>a, <1>b, ConcatEmptySeq
    <2> QED BY <2>2, <2>3, <2>4, <2>5, <1>a DEF OutputInv, OutputExact
  <1>3. CASE pushb /\ UNCHANGED <<pc, said>>
    <2> DEFINE h == Head(pending)
    <2>1. /\ pending # <<>> /\ fifo' = Append(fifo, h) /\ pending' = Tail(pending)
          /\ UNCHANGED <<shift, sent, pc, said>>
      BY <1>3 DEF pushb
    <2>2. h \in Chars /\ Tail(pending) \in Seq(Chars)
      BY <2>1, <1>a, HeadTailProperties
    <2>3. pending = <<h>> \o Tail(pending)
      BY <2>1, <1>a
    <2> HIDE DEF h
    <2>4. Append(fifo, h) \in Seq(Chars) /\ Append(fifo, h) = fifo \o <<h>>
      <3>1. <<h>> \in Seq(Chars) /\ Len(<<h>>) = 1 /\ <<h>>[1] = h
        BY <2>2
      <3> QED BY <2>2, <1>a, <3>1, AppendIsConcat, AppendProperties
    <2>5. sent \o shift \o Append(fifo, h) \o Tail(pending) = sent \o shift \o fifo \o pending
      <3> DEFINE x == sent \o shift
                 y == fifo
                 z == <<h>>
                 w == Tail(pending)
      <3>1. x \in Seq(Chars) /\ y \in Seq(Chars) /\ z \in Seq(Chars) /\ w \in Seq(Chars)
            /\ x \o y \in Seq(Chars)
        BY <1>a, <1>b, <2>2
      <3> HIDE DEF x, y, z, w
      <3>2. (x \o y) \o z = x \o (y \o z)
        BY <3>1, ConcatAssociative
      <3>3. ((x \o y) \o z) \o w = (x \o y) \o (z \o w)
        BY <3>1, ConcatAssociative
      <3>4. (x \o (y \o z)) \o w = (x \o y) \o (z \o w)
        BY <3>2, <3>3, Zenon
      <3> QED BY <3>4, <2>3, <2>4, Zenon DEF x, y, z, w
    <2> QED BY <2>1, <2>2, <2>4, <2>5, <1>a DEF OutputInv, OutputExact, Reporting
  <1>4. CASE Load /\ UNCHANGED <<pc, said>>
    <2> DEFINE h == Head(fifo)
    <2>1. /\ fifo # <<>> /\ shift = <<>> /\ fifo' = Tail(fifo) /\ shift' = <<h>>
          /\ UNCHANGED <<pending, sent, pc, said>>
      BY <1>4 DEF Load
    <2>2. h \in Chars /\ Tail(fifo) \in Seq(Chars)
      BY <2>1, <1>a, HeadTailProperties
    <2>3. fifo = <<h>> \o Tail(fifo)
      BY <2>1, <1>a
    <2> HIDE DEF h
    <2>4. <<h>> \in Seq(Chars)
      BY <2>2
    <2>5. sent \o <<h>> \o Tail(fifo) = sent \o shift \o fifo
      <3>1. (sent \o <<h>>) \o Tail(fifo) = sent \o (<<h>> \o Tail(fifo))
        BY <2>2, <2>4, <1>a, ConcatAssociative
      <3>2. sent \o shift = sent
        BY <2>1, <1>a, ConcatEmptySeq
      <3> QED BY <3>1, <3>2, <2>3, Zenon
    <2> QED BY <2>1, <2>2, <2>4, <2>5, <1>a DEF OutputInv, OutputExact, Reporting
  <1>5. CASE Send /\ UNCHANGED <<pc, said>>
    <2>1. sent' = sent \o shift /\ shift' = <<>> /\ UNCHANGED <<fifo, pending, pc, said>>
      BY <1>5 DEF Send
    <2>2. (sent \o shift) \o <<>> = sent \o shift /\ <<>> \in Seq(Chars)
      BY <1>b, ConcatEmptySeq, EmptySeq
    <2> QED BY <2>1, <2>2, <1>a, <1>b DEF OutputInv, OutputExact, Reporting
  <1>6. CASE PanicReset
    <2>1. <<>> \in Seq(Chars)
      BY EmptySeq
    <2> QED BY <2>1, <1>6, <1>a DEF PanicReset, Reset, OutputInv, OutputExact
  <1>7. CASE PanicWrite
    <2>1. /\ pending' = Crlf(<<"P", "\r", "\n", "I">>) /\ pc' = "stopped"
          /\ UNCHANGED <<fifo, shift, sent, said>>
      BY <1>7 DEF PanicWrite, write
    <2>2. <<"P", "\r", "\n", "I">> \in Seq(Chars) /\ {"\r", "\n"} \subseteq Chars
      BY DEF Chars
    <2>3. Crlf(<<"P", "\r", "\n", "I">>) \in Seq(Chars)
      BY <2>2, CrlfConcat
    <2> QED BY <2>1, <2>3, <1>a DEF OutputInv, OutputExact
  <1>8. CASE UNCHANGED vars
    BY <1>1, <1>8 DEF vars
  <1>9. CASE Main /\ ~(pushb /\ UNCHANGED <<m, pc, debug, said, why, memory>>)
    BY <1>1, <1>2, <1>6, <1>7, <1>9, MainOutput
  <1> QED BY <1>3, <1>4, <1>5, <1>8, <1>9 DEF Next, Main, Device

(***************************************************************************)
(* For every FIFO size and whatever the transmitter's pace: until a panic  *)
(* resets the UART, the line and what waits for it hold every character    *)
(* println was given, each newline with its carriage return, in order.     *)
(***************************************************************************)
THEOREM OutputKept == Spec => []OutputExact
  <1>1. OutputInv => OutputExact
    BY DEF OutputInv
  <1> QED BY <1>1, OutputInit, OutputStep, PTL DEF Spec
=============================================================================
