------------------------------ MODULE MCVirtioBlk ------------------------------
(* Instances of VirtioBlk for TLC: a queue of four, indices that wrap after eight. *)
EXTENDS VirtioBlk

CONSTANTS t1, t2

MCLbas == {0, 3}
MCLens == {0, 1, 2, 4}
===============================================================================
