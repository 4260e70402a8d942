-------------------------------- MODULE MCBoot --------------------------------
(* Machines that boot, and one for each thing that may be missing or too much. *)
EXTENDS Boot

Static(S) == [dynamic |-> FALSE, at |-> S, size |-> 0]
Dynamic(n) == [dynamic |-> TRUE, at |-> {}, size |-> n]

(* All that main asks for, and memory to boot. *)
Whole == [arg |-> TRUE, uarts |-> 2, el |-> 2, frequency |-> 1, damaged |-> {},
          memory |-> <<0 .. 10>>, block |-> <<{5}>>, nodes |-> <<>>,
          program_start |-> 1, stack_start |-> 3, tree |-> {4},
          disks |-> <<FALSE, TRUE>>,
          image |-> [found |-> TRUE, magic |-> TRUE, file |-> 2, image_size |-> 2, text_offset |-> 1],
          modified |-> [ok |-> TRUE, rsv |-> {5}], room |-> TRUE]
(* The same with less memory, for a boot that ends early. *)
Small == [Whole EXCEPT !.memory = <<0 .. 7>>]

(* The arguments, devices and files. *)
DeviceMachines ==
    {Whole, Small,
     [Whole EXCEPT !.room = FALSE],
     [Whole EXCEPT !.image.file = 3, !.image.text_offset = 0],
     [Small EXCEPT !.arg = FALSE],
     [Small EXCEPT !.uarts = 0],
     [Small EXCEPT !.uarts = 1, !.el = 1],
     [Small EXCEPT !.frequency = 0],
     [Small EXCEPT !.disks = <<FALSE>>],
     [Small EXCEPT !.image.found = FALSE],
     [Small EXCEPT !.image.magic = FALSE],
     [Small EXCEPT !.image.file = 0],
     [Whole EXCEPT !.memory = <<0 .. 8>>, !.modified.ok = FALSE]}

(* Walks that fail, and regions: dynamic ones, regions outside the memory, empty and *)
(* overlapping ones, and the tables at their limits and beyond.                      *)
TreeMachines ==
    {[Small EXCEPT !.damaged = {d}] : d \in {"uart", "memory", "nodes", "disk"}} \cup
    {[Whole EXCEPT !.nodes = <<Dynamic(2)>>],
     [Whole EXCEPT !.block = <<>>, !.nodes = <<Static({5})>>, !.memory = <<0 .. 5, 8 .. 12>>],
     [Small EXCEPT !.nodes = <<Dynamic(2), Static({7})>>, !.damaged = {"nodes"}],
     [Small EXCEPT !.nodes = <<Dynamic(1)>>, !.block = <<{0}, 5 .. 7>>],
     [Small EXCEPT !.nodes = <<Dynamic(1), Dynamic(1)>>],
     [Small EXCEPT !.block = <<{5}, {9}>>],
     [Small EXCEPT !.block = <<{}>>],
     [Small EXCEPT !.block = <<4 .. 6>>],
     [Small EXCEPT !.memory = <<0 .. 5, {7}, {9}, {11}>>],
     [Small EXCEPT !.memory = <<0 .. 5, {7}, {9}, {11}, {13}>>],
     [Small EXCEPT !.memory = <<0 .. 5, {7}, {9}, {11}, {13}, {15}>>],
     [Small EXCEPT !.block = <<{5}, {6}, {7}>>],
     [Small EXCEPT !.block = <<{0}, {2}, {4}, {6}, {8}, {9}>>],
     [Small EXCEPT !.block = <<{0}, {2}, {4}, {6}, {8}>>, !.nodes = <<Static({9})>>],
     [Small EXCEPT !.block = <<{0}, {2}, {4}, {6}, {8}>>, !.nodes = <<Dynamic(1)>>]}

MCMachines == DeviceMachines \cup TreeMachines
===============================================================================
