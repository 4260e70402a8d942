----------------------------- MODULE MCDeviceTree -----------------------------
(***************************************************************************)
(* Small device trees: a root, up to two of the subtrees below, reservations *)
(* and padding.                                                            *)
(***************************************************************************)
EXTENDS DeviceTree

begin(name) == [type |-> FDT_BEGIN_NODE, name |-> name]
prop(name, value) == [type |-> FDT_PROP, name |-> name, value |-> value]
nop == [type |-> FDT_NOP]
end == [type |-> FDT_END_NODE]

memory == 61
uart == 62
node == 63

Leaf(what, reg) == <<begin(node), prop(PROP_COMPATIBLE, <<memory, what>>), prop(PROP_REG, reg), end>>
Memory(reg) == <<begin(memory), prop(PROP_DEVICE_NAME, <<memory>>), nop, prop(PROP_REG, reg), end>>

(* A bus with one cell each way, whose ranges lift 1.. to 9.. *)
Bus(inside) ==
    <<begin(node), prop(ADDRESS_CELLS, <<1>>), prop(SIZE_CELLS, <<1>>), prop(PROP_RANGES, <<1, 0, 9, 6>>)>>
        \o inside \o <<end>>
(* The same for a bus below a bus: its parent has one address cell. *)
InnerBus(inside) ==
    <<begin(node), prop(PROP_RANGES, <<0, 2, 3, 3>>), prop(SIZE_CELLS, <<1>>)>> \o inside \o <<nop, end>>

Reserved(inside) ==
    <<begin(RESERVED_MEMORY), prop(SIZE_CELLS, <<2>>), prop(ADDRESS_CELLS, <<1>>)>> \o inside \o <<end>>
Static == <<begin(node), prop(PROP_REG, <<3, 0, 2, 7, 1, 0>>), end>>
Dynamics ==
    <<begin(node), prop(PROP_SIZE, <<0, 4>>), prop(PROP_ALLOC_RANGES, <<1, 0, 4, 8, 0, 4>>), end>>
        \o <<begin(node), prop(PROP_ALIGNMENT, <<0, 2>>), nop, prop(PROP_SIZE, <<1, 0>>),
             begin(RESERVED_MEMORY + 10), begin(node), prop(PROP_REG, <<1>>), end, nop, end, end>>

Plain1 == {Memory(<<0, 1, 4>>), Memory(<<1, 0, 4, 0, 8, 2>>), Leaf(uart, <<0, 5, 1>>)}
Buses == {Bus(Leaf(uart, <<2, 3>>) \o Leaf(node, <<1, 1, 4, 2>>)),
          Bus(InnerBus(Leaf(uart, <<0, 3, 1>>))),
          Bus(Leaf(uart, <<6, 3>>)),                \* past the end of its ranges
          Bus(Leaf(uart, <<0, 2>>)),                \* before them
          <<begin(node), prop(PROP_RANGES, <<>>)>> \o Leaf(uart, <<0, 5, 1>>) \o <<end>>}
Reserves == {Reserved(Static \o Dynamics), Reserved(Static),
             Reserved(<<begin(node), end, begin(node), begin(node), nop, end, end>>),
             <<begin(RESERVED_MEMORY)>> \o Static \o <<end>>}
Odd == {<<>>, <<nop, begin(node), end, nop>>,
        <<begin(node), prop(PROP_COMPATIBLE, <<uart>>), end>>,          \* matched, no reg
        <<begin(node), begin(node), end, prop(PROP_REG, <<1>>), end>>,  \* a property after a child
        Leaf(uart, <<0, 5>>),                                           \* half a pair
        Reserved(<<begin(node), prop(PROP_REG, <<1, 0, 1>>), prop(PROP_SIZE, <<0, 1>>), end>>),
        Reserved(<<begin(node), prop(PROP_ALIGNMENT, <<0, 1>>), end>>),
        Reserved(<<begin(node), begin(node), [type |-> 8], end, end>>),
        <<end>>, <<[type |-> 5]>>,
        <<begin(node), prop(PROP_REG, <<0, 1, 1>>)>>}
Subtrees == Plain1 \cup Buses \cup Reserves \cup Odd

RootProps == {<<>>, <<prop(PROP_COMPATIBLE, <<node>>), prop(SIZE_CELLS, <<1>>), nop>>}

MCTrees ==
    {[tokens |-> <<nop, begin(node)>> \o r \o a \o b \o <<end, nop, [type |-> FDT_END]>>,
      rsv |-> <<[addr |-> 0, size |-> 3]>>, pad |-> <<0, 0, 0, 0>>,
      magic |-> DTB_HEADER_MAGIC, compat |-> 16] :
        r \in RootProps, a \in Subtrees, b \in Subtrees}
    \cup
    {[tokens |-> t, rsv |-> rsv, pad |-> pad, magic |-> h[1], compat |-> h[2]] :
        t \in {<<[type |-> FDT_END]>>,
               <<begin(node), prop(PROP_REG, <<1>>)>> \o Memory(<<0, 1, 4>>) \o <<end, [type |-> FDT_END]>>,
               <<begin(node)>> \o Bus(Leaf(uart, <<2, 3>>)) \o <<end, [type |-> FDT_END]>>},
        rsv \in {<<>>, <<[addr |-> 5, size |-> 0], [addr |-> 17, size |-> 2]>>},
        pad \in {<<0, 0, 0, 0>>, <<2, 4, 1, 3>>},
        h \in {<<DTB_HEADER_MAGIC, 17>>, <<DTB_HEADER_MAGIC, 18>>, <<14, 16>>}}

MCQueries == {[device |-> memory, compatible |-> 0], [device |-> 0, compatible |-> uart], NoQuery}
MCEntries == {<<>>, <<[addr |-> 8, size |-> 2], [addr |-> 0, size |-> 40]>>}
===============================================================================
