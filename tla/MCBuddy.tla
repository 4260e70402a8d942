------------------------------- MODULE MCBuddy -------------------------------
(* Requests with which TLC checks BuddyAllocator. *)
EXTENDS BuddyAllocator

(* Sizes at and between powers of two, aligned to no more than their block. *)
MCLayouts == {[size |-> 1, align |-> 1], [size |-> 2, align |-> 2],
              [size |-> 3, align |-> 1], [size |-> 8, align |-> 8]}
===============================================================================
