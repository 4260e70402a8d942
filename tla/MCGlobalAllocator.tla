-------------------------- MODULE MCGlobalAllocator --------------------------
(* Instances of GlobalAllocator for TLC. *)
EXTENDS GlobalAllocator

CONSTANTS t1, t2, c1, c2, c3
==============================================================================
