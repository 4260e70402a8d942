------------------------------ MODULE MCRwLock ------------------------------
(* Constants with which TLC checks RwLock. *)
EXTENDS RwLock
CONSTANTS t1, t2, t3
MCThreads == {t1, t2, t3}
==============================================================================
