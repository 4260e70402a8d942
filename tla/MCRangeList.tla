----------------------------- MODULE MCRangeList -----------------------------
(* Inputs with which TLC checks RangeListAllocator. *)
EXTENDS RangeListAllocator

(* Overlapping and adjacent memory nodes; none spans two others. *)
MCAvailable == {Region(0, 9), Region(7, 8), Region(18, 5)}
(***************************************************************************)
(* Overlapping reservations, and one in a memory node that may be missing  *)
(* when finalize gets to it: finalize fails part of the way, and is called *)
(* again after memory was added, anew or once more.                        *)
(***************************************************************************)
MCReservations == {Region(2, 1), Region(5, 3), Region(7, 2), Region(18, 1)}
MCRequests == {[size |-> 2, align |-> 4, range |-> <<>>],
               [size |-> 1, align |-> 1, range |-> <<6, 12>>]}
MCLayouts == {[size |-> 1, align |-> 2], [size |-> 4, align |-> 1]}
==============================================================================
