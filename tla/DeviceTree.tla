------------------------------ MODULE DeviceTree ------------------------------
(***************************************************************************)
(* The flattened device tree parser and generator (dtb/src/lib.rs).        *)
(*                                                                         *)
(* The tree is read as the code reads it, word by word from memory: a word *)
(* is a token, a length, an offset, a 32-bit cell or a string (a string is *)
(* a number and takes one word).  Cells are digits to the base CELL and a  *)
(* usize holds two of them; addresses and lengths count words.  A step of  *)
(* a walk is one token, or one call of the caller's closure.               *)
(***************************************************************************)
EXTENDS Integers, SequencesExt

CONSTANTS
    Trees,    \* device trees: tokens, reservations and padding between blocks
    Queries,  \* what find_node is asked for: device_name and compatible_name
    Entries,  \* lists of reservations make_dtb is given
    CELL,     \* what a 32-bit cell counts up to: 2^32
    MaxMade   \* bound: trees generated one from the other

ASSUME CellAssumption == CELL \in Nat \ {0} /\ MaxMade \in Nat

VARIABLES
    tree,     \* ghost: the tokens and the reservations mem stands for
    mem,      \* the words of the tree in memory
    op,       \* the call under way
    out,      \* ghost: the calls its closure received
    result,   \* ghost: what the last call returned
    made      \* trees generated so far

vars == <<tree, mem, op, out, result, made>>

FDT_BEGIN_NODE == 1
FDT_END_NODE == 2
FDT_PROP == 3
FDT_NOP == 4
FDT_END == 9

(* Strings; 0 is None. *)
ADDRESS_CELLS == 51
SIZE_CELLS == 52
PROP_COMPATIBLE == 53
PROP_DEVICE_NAME == 54
PROP_REG == 55
PROP_RANGES == 56
PROP_SIZE == 57
PROP_ALIGNMENT == 58
PROP_ALLOC_RANGES == 59
RESERVED_MEMORY == 60

DTB_HEADER_MAGIC == 13
DTB_VERSION == 17

-------------------------------------------------------------------------------
(* The format *)

StringTable == <<ADDRESS_CELLS, SIZE_CELLS, PROP_COMPATIBLE, PROP_DEVICE_NAME, PROP_REG,
                 PROP_RANGES, PROP_SIZE, PROP_ALIGNMENT, PROP_ALLOC_RANGES>>

Encode(t) ==
    CASE t.type = FDT_BEGIN_NODE -> <<FDT_BEGIN_NODE, t.name>>
      [] t.type = FDT_PROP ->
            <<FDT_PROP, Len(t.value), SelectInSeq(StringTable, LAMBDA s : s = t.name) - 1>> \o t.value
      [] OTHER -> <<t.type>>

Flat(seqs) == FoldLeft(LAMBDA a, s : a \o s, <<>>, seqs)
Map(f(_), s) == [i \in DOMAIN s |-> f(s[i])]
Pad(n) == [i \in 1 .. n |-> 7]

U64(n) == <<n \div CELL, n % CELL>>
WriteEntry(e) == U64(e.addr) \o U64(e.size)
Terminator == [addr |-> 0, size |-> 0]
ENTRY == 4
HEADER == 10

(* FtdHeader: what lies where. *)
Header(t, total, struct, strings, rsvmap, stringsSize, structSize) ==
    <<t.magic, total, struct, strings, rsvmap, DTB_VERSION, t.compat, 0, stringsSize, structSize>>

Blob(t) ==
    LET rsv     == Flat(Map(WriteEntry, Append(t.rsv, Terminator)))
        body    == Flat(Map(Encode, t.tokens))
        rsvmap  == HEADER + t.pad[1]
        struct  == rsvmap + Len(rsv) + t.pad[2]
        strings == struct + Len(body) + t.pad[3]
        total   == strings + Len(StringTable) + t.pad[4]
    IN  Header(t, total, struct, strings, rsvmap, Len(StringTable), Len(body))
            \o Pad(t.pad[1]) \o rsv \o Pad(t.pad[2]) \o body \o Pad(t.pad[3])
            \o StringTable \o Pad(t.pad[4])

-------------------------------------------------------------------------------
(* Dtb: reading memory *)

At(a) == mem[a + 1]
get_total_size == At(1)
get_struct_start_address == At(2)
get_string_start_address == At(3)
get_memory_reservation_offset == At(4)
get_string_size == At(8)
get_struct_size == At(9)
get_struct_end_address == get_struct_start_address + get_struct_size
ReadOk == At(0) = DTB_HEADER_MAGIC /\ At(6) <= DTB_VERSION

USIZE == CELL * CELL

(* The digits pass through a usize: what is shifted out is lost. *)
read_regs(a, n) == FoldLeft(LAMBDA v, i : (v * CELL + At(a + i - 1)) % USIZE, 0, [i \in 1 .. n |-> i])

ReserveEntry(a) == [addr |-> read_regs(a, 2), size |-> read_regs(a + 2, 2)]

skip_nop(a) ==
    Min({b \in a .. Max({a, get_struct_end_address}) :
            b >= get_struct_end_address \/ At(b) # FDT_NOP})

-------------------------------------------------------------------------------
(* The state of a walk *)

None == -1
NoData == [at |-> 0, len |-> 0]

(* T::new: a node none of whose properties has been read. *)
SimpleDeviceNode == [address_cells |-> 2, size_cells |-> 1, reg |-> NoData, ranges |-> 0]
ReservedMemoryNode == [role |-> "Unused", address_cells |-> 2, size_cells |-> 1,
                       kind |-> "none", reg |-> NoData,
                       size |-> NoData, alignment |-> NoData, alloc_ranges |-> NoData]

Idle == [pc |-> "idle"]
Parent(stack) == stack[Len(stack) - 1].node
Stride(n) == n.address_cells + n.size_cells

Init ==
    /\ tree \in Trees
    /\ mem = Blob(tree)
    /\ op = Idle
    /\ out = <<>>
    /\ result = [call |-> "none"]
    /\ made = 0

(* A call returns, or panics and stops the program. *)
Return(how) ==
    /\ op' = IF how = "panic" THEN [pc |-> "panicked"] ELSE Idle
    /\ result' = [call |-> op.call, query |-> op.query, how |-> how]
Answer(call, query, how) ==
    /\ op' = Idle /\ out' = <<>> /\ result' = [call |-> call, query |-> query, how |-> how]

(* The top of walk_struct: a node is entered with no property read. *)
Frame(call, a, depth) ==
    [name |-> At(a + 1), begin |-> a, depth |-> depth, found |-> FALSE, props |-> TRUE,
     node |-> IF call = "find_node" THEN SimpleDeviceNode ELSE ReservedMemoryNode]

(* The start of a walk over the struct block. *)
Walk(call, query, depth) ==
    LET a == skip_nop(get_struct_start_address)
    IN  IF At(a) # FDT_BEGIN_NODE THEN Answer(call, query, "err")
        ELSE /\ op' = [pc |-> "walk", call |-> call, query |-> query, at |-> a + 2,
                       stack |-> <<Frame(call, a, depth)>>, off |-> 0, nest |-> 0]
             /\ out' = <<>>
             /\ result' = [call |-> "none"]

Quiet == UNCHANGED <<tree, mem, made>>

find_node(q) ==
    /\ op.pc = "idle"
    /\ IF (q.device # 0) = (q.compatible # 0) \/ ~ReadOk THEN Answer("find_node", q, "err")
       ELSE Walk("find_node", q, None)
    /\ Quiet

NoQuery == [device |-> 0, compatible |-> 0]

find_reserved_memory_node ==
    /\ op.pc = "idle"
    /\ IF ~ReadOk THEN Answer("reserved", NoQuery, "err") ELSE Walk("reserved", NoQuery, 1)
    /\ Quiet

Top == Last(op.stack)
Token == At(op.at)
InWalk(call) == op.pc = "walk" /\ op.call = call
SetTop(f) == [op.stack EXCEPT ![Len(op.stack)] = f]

-------------------------------------------------------------------------------
(* Properties of a node: the first loop of walk_struct *)

PropLen == At(op.at + 1)
PropName == At(get_string_start_address + At(op.at + 2))
PropAt == op.at + 3
PropData == [at |-> PropAt, len |-> PropLen]
AfterProp == PropAt + PropLen

(* What a property tells a SimpleDeviceNode. *)
SetCells(n) ==
    CASE PropName = ADDRESS_CELLS -> [n EXCEPT !.address_cells = At(PropAt)]
      [] PropName = SIZE_CELLS -> [n EXCEPT !.size_cells = At(PropAt)]
      [] OTHER -> n
SetDevice(n) ==
    CASE PropName = PROP_REG /\ PropLen # 0 -> [n EXCEPT !.reg = PropData]
      [] PropName = PROP_RANGES -> [n EXCEPT !.ranges = PropAt]
      [] OTHER -> SetCells(n)

(* compatible is a list of strings (CharStringIter), device_type one string. *)
Matched(q) ==
    \/ /\ PropName = PROP_COMPATIBLE /\ q.compatible # 0
       /\ \E i \in 0 .. PropLen - 1 : At(PropAt + i) = q.compatible
    \/ /\ PropName = PROP_DEVICE_NAME /\ q.device # 0
       /\ At(PropAt) = q.device

(* parse_prop, as find_node's closure calls it: no depth limit below. *)
parse_prop ==
    /\ InWalk("find_node")
    /\ Top.props /\ Token = FDT_PROP
    /\ IF PropName = PROP_REG /\ PropLen # 0 /\ Len(op.stack) = 1 THEN Return("err")
       ELSE /\ op' = [op EXCEPT !.at = AfterProp,
                                !.stack = SetTop([Top EXCEPT !.node = SetDevice(@),
                                                             !.found = @ \/ Matched(op.query),
                                                             !.depth = None])]
            /\ UNCHANGED result
    /\ UNCHANGED out /\ Quiet

(* The first property of a node settles what the node is. *)
Settle ==
    LET n == Top.node
    IN  IF n.role # "Unused" THEN n.role
        ELSE IF Len(op.stack) > 1 /\ Parent(op.stack).role = "Parent" THEN "Child"
        ELSE IF Top.name = RESERVED_MEMORY THEN "Parent"
        ELSE "Unused"

DynamicField(name) ==
    CASE name = PROP_SIZE -> "size"
      [] name = PROP_ALIGNMENT -> "alignment"
      [] name = PROP_ALLOC_RANGES -> "alloc_ranges"
      [] OTHER -> "none"

ChildErr(n) ==
    LET field == DynamicField(PropName)
    IN  \/ PropName = PROP_REG /\ n.kind # "none"
        \/ field # "none" /\ (n.kind = "static" \/ n[field] # NoData)

SetChild(n) ==
    LET field == DynamicField(PropName)
    IN  IF PropName = PROP_REG /\ PropLen # 0
        THEN [n EXCEPT !.kind = "static", !.reg = PropData]
        ELSE IF field # "none" THEN [n EXCEPT !.kind = "dynamic", ![field] = PropData]
        ELSE n

SetReserved(role) ==
    LET n == [Top.node EXCEPT !.role = role]
    IN  CASE role = "Parent" -> SetCells(n)
          [] role = "Child" -> SetChild(n)
          [] OTHER -> n

ChildMatched(role) ==
    /\ role = "Child"
    /\ (PropName = PROP_REG /\ PropLen # 0) \/ DynamicField(PropName) # "none"

(* Only reserved-memory limits how deep the walk goes below it. *)
DepthBelow == IF Top.name = RESERVED_MEMORY THEN 1 ELSE None

(* find_reserved_memory_node's parse_property. *)
parse_reserved_property ==
    /\ InWalk("reserved")
    /\ Top.props /\ Token = FDT_PROP
    /\ LET role  == Settle
           found == Top.name = RESERVED_MEMORY \/ ChildMatched(role)
       IN  IF role = "Child" /\ ChildErr(Top.node) THEN Return("err")
           ELSE /\ op' = [op EXCEPT !.at = AfterProp,
                                    !.stack = SetTop([Top EXCEPT !.node = SetReserved(role),
                                                                 !.found = @ \/ found,
                                                                 !.depth = DepthBelow])]
                /\ UNCHANGED result
    /\ UNCHANGED out /\ Quiet

-------------------------------------------------------------------------------
(* A matched node: what the closures are called with *)

(* read_round_internal: the first entry of the ranges of the node in frame i. *)
Round(stack, i) ==
    LET n  == stack[i].node
        up == stack[i - 1].node.address_cells
    IN  [child  |-> read_regs(n.ranges, n.address_cells),
         parent |-> read_regs(n.ranges + n.address_cells, up),
         len    |-> read_regs(n.ranges + n.address_cells + up, n.size_cells)]

(* One level of calculate_address_internal.  A root with ranges has no parent *)
(* to unwrap, and arithmetic on a usize panics where it would wrap.           *)
Raise(stack, i, a) ==
    IF a.how # "ok" \/ stack[i].node.ranges = 0 THEN a
    ELSE IF i = 1 THEN [a EXCEPT !.how = "panic"]
    ELSE LET r == Round(stack, i)
         IN  CASE r.child + r.len >= USIZE \/ a.addr + a.size >= USIZE -> [a EXCEPT !.how = "panic"]
               [] r.child + r.len < a.addr + a.size -> [a EXCEPT !.how = "err"]
               [] a.addr < r.child -> [a EXCEPT !.how = "panic"]
               [] a.addr - r.child + r.parent >= USIZE -> [a EXCEPT !.how = "panic"]
               [] OTHER -> [a EXCEPT !.addr = @ - r.child + r.parent]

(* calculate_address_internal, from the node itself up to the root. *)
calculate_address(stack, a) ==
    FoldLeft(LAMBDA b, i : Raise(stack, i, b), a, Reverse([i \in DOMAIN stack |-> i]))

(* Mutant: reg is read with the node's own cells. *)
RegCells_Own(stack) == Last(stack).node
(* reg is read with the cells of the node's parent. *)
RegCells(stack) == Parent(stack)

ReadPair(a, n) == [addr |-> read_regs(a, n.address_cells),
                   size |-> read_regs(a + n.address_cells, n.size_cells)]
TooWide(n) == n.address_cells > 2 \/ n.size_cells > 2

(* DeviceAddressIter::next_internal, with op.off of reg read. *)
NextAddress ==
    LET n == RegCells(op.stack)
        p == ReadPair(Top.node.reg.at + op.off, n)
        a == calculate_address(op.stack, [addr |-> p.addr, size |-> p.size, how |-> "ok"])
    IN  IF TooWide(n) THEN [a EXCEPT !.how = "err"]
        ELSE IF a.how = "ok" /\ op.off + Stride(n) > Top.node.reg.len THEN [a EXCEPT !.how = "panic"]
        ELSE a

Heard(call) == Append(out, [node |-> Top.begin, off |-> op.off] @@ call)
GoOn == op' = [op EXCEPT !.pc = "walk", !.off = 0, !.stack = SetTop([Top EXCEPT !.props = FALSE])]

(* find_node's calculate_property: every address of reg, until told to stop. *)
EmitAddress ==
    /\ op.pc = "emit" /\ op.call = "find_node"
    /\ IF op.off = Top.node.reg.len THEN GoOn /\ UNCHANGED <<out, result>>
       ELSE \E a \in {NextAddress} :
            \/ a.how # "ok" /\ Return(a.how) /\ UNCHANGED out
            \/ /\ a.how = "ok"
               /\ out' = Heard([addr |-> a.addr, size |-> a.size, ok |-> FALSE])
               /\ \/ Return("break")
                  \/ op' = [op EXCEPT !.off = @ + Stride(RegCells(op.stack))] /\ UNCHANGED result
    /\ Quiet

(* The checks before the closures of find_reserved_memory_node are called. *)
ReservedErr ==
    LET n == Top.node
        p == Parent(op.stack)
        Odd(d) == d.len = 0 \/ Stride(p) = 0 \/ d.len % Stride(p) # 0
        Other(d) == d # NoData /\ d.len # p.size_cells
    IN  \/ TooWide(p)
        \/ n.kind = "static" /\ Odd(n.reg)
        \/ /\ n.kind = "dynamic"
           /\ \/ n.size = NoData
              \/ Other(n.size) \/ Other(n.alignment)
              \/ n.alloc_ranges # NoData /\ Odd(n.alloc_ranges)

(* The static regions of a reserved-memory child. *)
EmitStatic ==
    /\ op.pc = "emit" /\ op.call = "reserved" /\ Top.node.kind = "static"
    /\ out' = Heard(ReadPair(Top.node.reg.at + op.off, Parent(op.stack)) @@ [ok |-> FALSE])
    /\ \/ Return("break")
       \/ /\ IF op.off + Stride(Parent(op.stack)) = Top.node.reg.len THEN GoOn
             ELSE op' = [op EXCEPT !.off = @ + Stride(Parent(op.stack))]
          /\ UNCHANGED result
    /\ Quiet

(* A dynamic region is placed once: a range that served ends the search. *)
Stops(ok, last) == ok \/ last

(* A dynamic region: its alloc-ranges are offered until one serves. *)
EmitDynamic ==
    /\ op.pc = "emit" /\ op.call = "reserved" /\ Top.node.kind = "dynamic"
    /\ LET n == Top.node
           p == Parent(op.stack)
           range == IF n.alloc_ranges = NoData THEN <<>>
                    ELSE <<ReadPair(n.alloc_ranges.at + op.off, p)>>
           align == IF n.alignment = NoData THEN <<>>
                    ELSE <<read_regs(n.alignment.at, p.size_cells)>>
           last  == n.alloc_ranges = NoData \/ op.off + Stride(p) = n.alloc_ranges.len
           Call(ok) == Heard([alloc_size |-> read_regs(n.size.at, p.size_cells),
                              alignment |-> align, range |-> range, ok |-> ok])
       IN  \/ out' = Call(TRUE) /\ Return("break")
           \/ \E ok \in BOOLEAN :
                 /\ out' = Call(ok)
                 /\ IF Stops(ok, last) THEN GoOn ELSE op' = [op EXCEPT !.off = @ + Stride(p)]
                 /\ UNCHANGED result
    /\ Quiet

(* The end of the first loop: a matched node calls calculate_property. *)
PropsRead ==
    /\ op.pc = "walk" /\ Top.props
    /\ Token \in {FDT_BEGIN_NODE, FDT_END_NODE}
    /\ IF op.call = "find_node"
       THEN IF ~Top.found THEN GoOn /\ UNCHANGED result
            ELSE IF Top.node.reg = NoData THEN Return("err")
            ELSE op' = [op EXCEPT !.pc = "emit"] /\ UNCHANGED result
       ELSE IF ~Top.found \/ Top.node.role # "Child" \/ Top.node.kind = "none"
            THEN GoOn /\ UNCHANGED result
            ELSE IF ReservedErr THEN Return("err")
            ELSE op' = [op EXCEPT !.pc = "emit"] /\ UNCHANGED result
    /\ UNCHANGED out /\ Quiet

-------------------------------------------------------------------------------
(* Children of a node: the second loop of walk_struct *)

Nop ==
    /\ op.pc = "walk" /\ Token = FDT_NOP
    /\ op' = [op EXCEPT !.at = @ + 1]
    /\ UNCHANGED <<out, result>> /\ Quiet

BeginChild ==
    /\ op.pc = "walk" /\ ~Top.props /\ Token = FDT_BEGIN_NODE
    /\ op' = IF Top.depth = 0 THEN [op EXCEPT !.pc = "skip"]
             ELSE [op EXCEPT !.at = @ + 2,
                             !.stack = Append(@, Frame(op.call, op.at, IF Top.depth = None THEN None
                                                                      ELSE Top.depth - 1))]
    /\ UNCHANGED <<out, result>> /\ Quiet

AtEnd(a) == At(skip_nop(a)) = FDT_END

EndNode ==
    /\ op.pc = "walk" /\ ~Top.props /\ Token = FDT_END_NODE
    /\ IF Len(op.stack) > 1
       THEN op' = [op EXCEPT !.at = @ + 1, !.stack = Front(@)] /\ UNCHANGED result
       ELSE Return(IF AtEnd(op.at + 1) THEN "ok" ELSE "err")
    /\ UNCHANGED out /\ Quiet

Unexpected ==
    /\ op.pc = "walk"
    /\ Token \notin {FDT_NOP, FDT_BEGIN_NODE, FDT_END_NODE} \cup (IF Top.props THEN {FDT_PROP} ELSE {})
    /\ Return("err")
    /\ UNCHANGED out /\ Quiet

(* skip_node, token by token. *)
skip_node ==
    /\ op.pc = "skip"
    /\ \/ /\ Token = FDT_NOP
          /\ op' = [op EXCEPT !.at = @ + 1] /\ UNCHANGED result
       \/ /\ Token = FDT_BEGIN_NODE
          /\ op' = [op EXCEPT !.at = @ + 2, !.nest = @ + 1] /\ UNCHANGED result
       \/ /\ Token = FDT_PROP
          /\ op' = [op EXCEPT !.at = AfterProp] /\ UNCHANGED result
       \/ /\ Token = FDT_END_NODE
          /\ op' = [op EXCEPT !.at = @ + 1, !.nest = @ - 1,
                              !.pc = IF op.nest = 1 THEN "walk" ELSE @]
          /\ UNCHANGED result
       \/ /\ Token \notin {FDT_NOP, FDT_BEGIN_NODE, FDT_PROP, FDT_END_NODE}
          /\ Return("err")
    /\ UNCHANGED out /\ Quiet

-------------------------------------------------------------------------------
(* The memory reservation block, and the tree made for the next program *)

IsTerminator(e) == e.addr = 0 /\ e.size = 0

(* find_memory_reservation_block. *)
find_memory_reservation_block ==
    /\ op.pc = "idle"
    /\ IF ~ReadOk THEN Answer("rsvmap", NoQuery, "err")
       ELSE /\ op' = [pc |-> "rsvmap", call |-> "rsvmap", query |-> NoQuery,
                      at |-> get_memory_reservation_offset]
            /\ out' = <<>> /\ result' = [call |-> "none"]
    /\ Quiet

EmitReservation ==
    /\ op.pc = "rsvmap"
    /\ \E e \in {ReserveEntry(op.at)} :
          \/ IsTerminator(e) /\ Return("ok") /\ UNCHANGED out
          \/ /\ ~IsTerminator(e)
             /\ out' = Append(out, [node |-> 0, off |-> Len(out), addr |-> e.addr, size |-> e.size,
                                    ok |-> FALSE])
             /\ \/ Return("break")
                \/ op' = [op EXCEPT !.at = @ + ENTRY] /\ UNCHANGED result
    /\ Quiet

(* Where the entry (0, 0) of the block is. *)
Sentinel ==
    LET at(i) == get_memory_reservation_offset + ENTRY * i
    IN  at(Min({i \in 0 .. (Len(mem) - get_memory_reservation_offset) \div ENTRY - 1 :
                    IsTerminator(ReserveEntry(at(i)))}))

get_required_size(n) == get_total_size + n * ENTRY

Words(a, n) == SubSeq(mem, a + 1, a + n)

(* Mutant: the offset of the strings is the one the old tree has. *)
Patched_OldStrings(words, struct, strings) ==
    [words EXCEPT ![3] = struct, ![2] = strings + get_string_size]
(* The three fields of the copied header make_dtb writes. *)
Patched(words, struct, strings) ==
    [words EXCEPT ![3] = struct, ![4] = strings, ![2] = strings + get_string_size]

(* The words make_dtb writes: header, old and new reservations, struct, strings. *)
NewWords(reserved) ==
    LET old     == Words(0, Sentinel)
        new     == Flat(Map(WriteEntry, Append(reserved, Terminator)))
        struct  == Len(old) + Len(new)
        strings == struct + get_struct_size
    IN  Patched(old \o new \o Words(get_struct_start_address, get_struct_size)
                    \o Words(get_string_start_address, get_string_size), struct, strings)

(* make_dtb into a slice of len words; the new tree is the one read from then on. *)
make_dtb(reserved, len) ==
    /\ op.pc = "idle" /\ made < MaxMade
    /\ IF ~ReadOk \/ len < get_required_size(Len(reserved))
       THEN Answer("make_dtb", NoQuery, "err") /\ UNCHANGED <<tree, mem, made>>
       ELSE /\ mem' = NewWords(reserved) \o Pad(len - Len(NewWords(reserved)))
            /\ tree' = [tree EXCEPT !.rsv = @ \o reserved]
            /\ made' = made + 1
            /\ op' = Idle /\ out' = <<>>
            /\ result' = [call |-> "make_dtb", how |-> "ok", len |-> len]

Next ==
    \/ \E q \in Queries : find_node(q)
    \/ find_reserved_memory_node \/ find_memory_reservation_block
    \/ parse_prop \/ parse_reserved_property \/ PropsRead
    \/ EmitAddress \/ EmitStatic \/ EmitDynamic \/ EmitReservation
    \/ Nop \/ BeginChild \/ EndNode \/ Unexpected \/ skip_node
    \/ \E e \in Entries, short \in {0, 1} : make_dtb(e, get_required_size(Len(e)) - short)

Spec == Init /\ [][Next]_vars

-------------------------------------------------------------------------------
(* What the tree says: its nodes by the nesting of its tokens, their properties *)
(* and, with the cells of their parents, the regions they stand for.            *)

T == tree.tokens
Kind(i) == T[i].type
Count(i, kind) == Cardinality({j \in 1 .. i - 1 : Kind(j) = kind})
Depth(i) == Count(i, FDT_BEGIN_NODE) - Count(i, FDT_END_NODE)
Nodes == {i \in DOMAIN T : Kind(i) = FDT_BEGIN_NODE}
Ancestor(i, d) == Max({j \in Nodes : j < i /\ Depth(j) = d})
PropsOf(i) == {j \in i + 1 .. Len(T) : /\ Kind(j) = FDT_PROP
                                       /\ \A k \in i + 1 .. j : Kind(k) \in {FDT_PROP, FDT_NOP}}
Named(i, name) == {j \in PropsOf(i) : T[j].name = name}
Has(i, name) == Named(i, name) # {}
Value(i, name) == T[Max(Named(i, name))].value
ValueOr(i, name, else) == IF Has(i, name) THEN Value(i, name) ELSE else

Cells(i) == [address_cells |-> ValueOr(i, ADDRESS_CELLS, <<2>>)[1],
             size_cells |-> ValueOr(i, SIZE_CELLS, <<1>>)[1]]
ParentCells(i) == Cells(Ancestor(i, Depth(i) - 1))

WellFormed ==
    LET first == Min(Nodes)
    IN  /\ Nodes # {}
        /\ \A i \in 1 .. first - 1 : Kind(i) = FDT_NOP
        /\ \A i \in DOMAIN T : Kind(i) = FDT_END <=> i = Len(T)
        /\ Depth(Len(T)) = 0
        /\ \A i \in first + 1 .. Len(T) - 1 : Kind(i) # FDT_NOP => Depth(i) > 0
        /\ \A i \in DOMAIN T : Kind(i) \in {1, 2, 3, 4, 9}
        /\ \A i \in DOMAIN T : Kind(i) = FDT_PROP => \E n \in Nodes : i \in PropsOf(n)
        /\ \A n \in Nodes : \A j \in Named(n, ADDRESS_CELLS) \cup Named(n, SIZE_CELLS) : Len(T[j].value) = 1
        /\ \A n \in Nodes : Has(n, PROP_DEVICE_NAME) => Value(n, PROP_DEVICE_NAME) # <<>>

Num(digits) == FoldLeft(LAMBDA v, d : v * CELL + d, 0, digits)
Regular(v, c) == v # <<>> /\ Stride(c) > 0 /\ Len(v) % Stride(c) = 0

(* The pairs in a value, each with where it starts. *)
Pairs(v, c) ==
    [k \in 1 .. Len(v) \div Stride(c) |->
        LET at == (k - 1) * Stride(c)
        IN  [off |-> at, addr |-> Num(SubSeq(v, at + 1, at + c.address_cells)),
             size |-> Num(SubSeq(v, at + c.address_cells + 1, at + Stride(c)))]]

(* The ranges of node j, and the address they give a place inside them. *)
Window(j) ==
    LET v == Value(j, PROP_RANGES)
        a == Cells(j).address_cells
        b == a + ParentCells(j).address_cells
    IN  [child |-> Num(SubSeq(v, 1, a)), parent |-> Num(SubSeq(v, a + 1, b)),
         len |-> Num(SubSeq(v, b + 1, Len(v)))]
Mapped(i, addr) ==
    FoldLeft(LAMBDA a, d : LET j == Ancestor(i, Depth(i) - d)
                           IN  IF Has(j, PROP_RANGES) THEN a - Window(j).child + Window(j).parent ELSE a,
             addr, [d \in 1 .. Depth(i) |-> d])

(* Every ranges above node i has one entry, and it covers the pair p on its way up. *)
Covered(i, p) ==
    \A d \in 1 .. Depth(i) :
        LET j == Ancestor(i, Depth(i) - d)
            a == FoldLeft(LAMBDA x, e : LET k == Ancestor(i, Depth(i) - e)
                                        IN  IF Has(k, PROP_RANGES) THEN x - Window(k).child + Window(k).parent ELSE x,
                          p.addr, [e \in 1 .. d - 1 |-> e])
        IN  Has(j, PROP_RANGES) =>
                /\ d < Depth(i)
                /\ Len(Value(j, PROP_RANGES)) = Stride(Cells(j)) + ParentCells(j).address_cells
                /\ Window(j).child <= a /\ a + p.size <= Window(j).child + Window(j).len
                /\ Window(j).child + Window(j).len < USIZE
                /\ a - Window(j).child + Window(j).parent < USIZE

Wanted(i, q) ==
    \/ q.device # 0 /\ Has(i, PROP_DEVICE_NAME) /\ Value(i, PROP_DEVICE_NAME)[1] = q.device
    \/ q.compatible # 0 /\ q.compatible \in Range(ValueOr(i, PROP_COMPATIBLE, <<>>))

(* The trees find_node is written for, as far as the query goes. *)
FindPlain(q) ==
    /\ (q.device # 0) # (q.compatible # 0)
    /\ WellFormed
    /\ ValueOr(Min(Nodes), PROP_REG, <<>>) = <<>>
    /\ \A i \in Nodes : Wanted(i, q) =>
          /\ Depth(i) > 0
          /\ ~TooWide(ParentCells(i))
          /\ Has(i, PROP_REG) /\ Regular(Value(i, PROP_REG), ParentCells(i))
          /\ ~Has(i, PROP_RANGES)
          /\ \A p \in Range(Pairs(Value(i, PROP_REG), ParentCells(i))) : Covered(i, p)

ReservedChildren == {i \in Nodes : Depth(i) = 2 /\ T[Ancestor(i, 1)].name = RESERVED_MEMORY}
Dynamic == {PROP_SIZE, PROP_ALIGNMENT, PROP_ALLOC_RANGES}

(* The trees find_reserved_memory_node is written for. *)
ReservedPlain ==
    /\ WellFormed
    /\ \A i \in Nodes : T[i].name = RESERVED_MEMORY => Depth(i) = 1 /\ PropsOf(i) # {}
    /\ \A i \in ReservedChildren :
          LET c == ParentCells(i)
          IN  /\ ~TooWide(c)
              /\ \A name \in Dynamic \cup {PROP_REG} : Cardinality(Named(i, name)) <= 1
              /\ Has(i, PROP_REG) => /\ \A name \in Dynamic : ~Has(i, name)
                                     /\ Value(i, PROP_REG) = <<>> \/ Regular(Value(i, PROP_REG), c)
              /\ (\E name \in Dynamic : Has(i, name)) =>
                     /\ Has(i, PROP_SIZE) /\ Len(Value(i, PROP_SIZE)) = c.size_cells
                     /\ Has(i, PROP_ALIGNMENT) => Len(Value(i, PROP_ALIGNMENT)) = c.size_cells
                     /\ Has(i, PROP_ALLOC_RANGES) => Regular(Value(i, PROP_ALLOC_RANGES), c)

Where(i) == get_struct_start_address + Len(Flat(Map(Encode, SubSeq(T, 1, i - 1))))
Told(i, off, what) == [node |-> Where(i), off |-> off, ok |-> FALSE] @@ what

Addresses(i) ==
    LET Tell(p) == Told(i, p.off, [addr |-> Mapped(i, p.addr), size |-> p.size])
    IN  Map(Tell, Pairs(Value(i, PROP_REG), ParentCells(i)))

Regions(i) ==
    LET c == ParentCells(i)
        Static(p) == Told(i, p.off, [addr |-> p.addr, size |-> p.size])
        Placed(off, range) ==
            Told(i, off, [alloc_size |-> Num(Value(i, PROP_SIZE)), range |-> range,
                          alignment |-> IF Has(i, PROP_ALIGNMENT) THEN <<Num(Value(i, PROP_ALIGNMENT))>>
                                        ELSE <<>>])
        InRange(p) == Placed(p.off, <<[addr |-> p.addr, size |-> p.size]>>)
    IN  CASE ValueOr(i, PROP_REG, <<>>) # <<>> -> Map(Static, Pairs(Value(i, PROP_REG), c))
          [] Has(i, PROP_ALLOC_RANGES) -> Map(InRange, Pairs(Value(i, PROP_ALLOC_RANGES), c))
          [] Has(i, PROP_SIZE) -> <<Placed(0, <<>>)>>
          [] OTHER -> <<>>

InOrder(S) == SetToSortSeq(S, <)
Reservations ==
    [k \in DOMAIN tree.rsv |-> [node |-> 0, off |-> k - 1, ok |-> FALSE] @@ tree.rsv[k]]

Plain ==
    /\ ReadOk
    /\ CASE result.call = "find_node" -> FindPlain(result.query)
         [] result.call = "reserved" -> ReservedPlain
         [] OTHER -> TRUE
Expected ==
    CASE result.call = "find_node" ->
            Flat(Map(Addresses, InOrder({i \in Nodes : Wanted(i, result.query)})))
      [] result.call = "reserved" -> Flat(Map(Regions, InOrder(ReservedChildren)))
      [] OTHER -> Reservations

(* A call is due unless an earlier one of the same node was answered Ok. *)
Due == SelectSeq(Expected, LAMBDA e : \A h \in Range(out) : h.node = e.node /\ h.off < e.off => ~h.ok)
HeardCalls == [k \in DOMAIN out |-> [out[k] EXCEPT !.ok = FALSE]]

(* On a tree it is written for, a walk of the struct block or of the reservations *)
(* reports exactly the regions the tree gives the nodes asked for, translated to  *)
(* the root's addresses, in order and once each, up to the one the closure breaks *)
(* at, and it does not fail: find_node, find_reserved_memory_node and             *)
(* find_memory_reservation_block.                                                 *)
WalkExact ==
    result.call \in {"find_node", "reserved", "rsvmap"} /\ Plain =>
        /\ result.how \in {"ok", "break"}
        /\ IsPrefix(HeardCalls, Due)
        /\ result.how = "ok" => HeardCalls = Due

(* The tree make_dtb writes lies inside the slice it was given, its blocks do not *)
(* overlap, and its struct and strings are those of the old one.                  *)
GeneratedSound ==
    result.call = "make_dtb" /\ result.how = "ok" =>
        /\ Len(mem) = result.len
        /\ ReadOk
        /\ HEADER <= get_memory_reservation_offset
        /\ Sentinel + ENTRY <= get_struct_start_address
        /\ get_struct_end_address <= get_string_start_address
        /\ get_string_start_address + get_string_size <= get_total_size
        /\ get_total_size <= Len(mem)
        /\ Words(get_struct_start_address, get_struct_size) = Flat(Map(Encode, T))
        /\ Words(get_string_start_address, get_string_size) = StringTable
===============================================================================
