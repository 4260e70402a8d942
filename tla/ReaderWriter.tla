----------------------------- MODULE ReaderWriter -----------------------------
(***************************************************************************)
(* What a writer-preferring readers-writer lock promises: any number of    *)
(* readers or one writer.  A writer first claims the lock, from which      *)
(* moment no reader is admitted, and enters once the readers have left.    *)
(***************************************************************************)
CONSTANTS Threads,
          NoThread  \* no member of Threads

VARIABLES readers,  \* the threads holding a read guard
          claimant, \* the thread that requested or holds the write lock
          writing   \* whether the claimant holds its write guard

vars == <<readers, claimant, writing>>

Init ==
    /\ readers = {}
    /\ claimant = NoThread
    /\ writing = FALSE

EnterRead(t) ==
    /\ claimant = NoThread
    /\ t \notin readers
    /\ readers' = readers \cup {t}
    /\ UNCHANGED <<claimant, writing>>

LeaveRead(t) ==
    /\ t \in readers
    /\ readers' = readers \ {t}
    /\ UNCHANGED <<claimant, writing>>

Claim(t) ==
    /\ claimant = NoThread
    /\ t \notin readers
    /\ claimant' = t
    /\ UNCHANGED <<readers, writing>>

EnterWrite ==
    /\ claimant # NoThread
    /\ ~writing
    /\ readers = {}
    /\ writing' = TRUE
    /\ UNCHANGED <<readers, claimant>>

LeaveWrite ==
    /\ writing
    /\ writing' = FALSE
    /\ claimant' = NoThread
    /\ UNCHANGED readers

Next ==
    \/ \E t \in Threads : EnterRead(t) \/ LeaveRead(t) \/ Claim(t)
    \/ EnterWrite
    \/ LeaveWrite

Spec == Init /\ [][Next]_vars
==============================================================================
