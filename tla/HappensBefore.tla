---------------------------- MODULE HappensBefore ----------------------------
(***************************************************************************)
(* Release/acquire synchronisation through one atomic word, as the locks   *)
(* of mutex/src/lib.rs use it.                                             *)
(*                                                                         *)
(* An access is <<thread, kind>>.  A view is the set of accesses whose     *)
(* most recent occurrence happens before the holder of the view.  Threads  *)
(* have a view each (hb[t]) and so does the word (wordHb): the Release     *)
(* operations performed on it, which an Acquire operation on it joins.     *)
(* Every store to the words modelled here is a read-modify-write or a      *)
(* Release store, so a release sequence is never broken and one view per   *)
(* word is exact.                                                          *)
(***************************************************************************)
CONSTANT Threads

Reads    == Threads \X {"read"}
Writes   == Threads \X {"write"}
Accesses == Reads \cup Writes

(* Nothing has been accessed yet: every (empty) history is known to all. *)
InitialView == Accesses

(***************************************************************************)
(* An access of the protected data: its latest occurrence is now known to  *)
(* the accessing thread only.                                              *)
(***************************************************************************)
AfterAccess(hb, t, a) ==
    [u \in Threads |-> IF u = t THEN hb[u] \cup {a} ELSE hb[u] \ {a}]
WordAfterAccess(wordHb, a) == wordHb \ {a}

(* Ordering::Acquire on the word by t, and Ordering::Release by t. *)
Acquire(hb, wordHb, t) == [hb EXCEPT ![t] = @ \cup wordHb]
Release(hb, wordHb, t) == wordHb \cup hb[t]
==============================================================================
