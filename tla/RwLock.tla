-------------------------------- MODULE RwLock --------------------------------
(***************************************************************************)
(* RwLock<T> of mutex/src/lib.rs: one atomic word that holds the number of *)
(* readers and, in its most significant bit, the write flag.               *)
(*                                                                         *)
(* Each atomic operation is one step.  A Relaxed load followed by a        *)
(* compare_exchange_weak is two steps, with the loaded value kept in       *)
(* current_state.  (A Relaxed load may return an older value; that is the  *)
(* same as loading earlier, which the interleaving already allows.)        *)
(* A thread stands for one client that holds at most one guard at a time.  *)
(***************************************************************************)
EXTENDS Naturals, FiniteSets, HappensBefore

CONSTANTS WRITE_FLAG, \* 1 << (usize::BITS - 1)
          NoThread

ASSUME WriteFlagAssumption == WRITE_FLAG \in Nat \ {0}
ASSUME ThreadsAssumption ==
    /\ IsFiniteSet(Threads)
    /\ Cardinality(Threads) < WRITE_FLAG
ASSUME NoThreadIsNoThread == NoThread \notin Threads

VARIABLES
    word,          \* read_count_write_lock_flag
    pc,            \* what each thread is doing
    current_state, \* the value each thread's last Relaxed load returned
    hb,            \* what happens before each thread (module HappensBefore)
    wordHb         \* what happens before an Acquire of the word

vars == <<word, pc, current_state, hb, wordHb>>

Words == 0 .. 2 * WRITE_FLAG - 1
PCs == {"idle", "r_load", "r_cas", "reading", "w_load", "w_cas", "drain", "writing"}

FlagSet(w) == w >= WRITE_FLAG
ReadCount(w) == IF FlagSet(w) THEN w - WRITE_FLAG ELSE w
WithFlag(w) == IF FlagSet(w) THEN w ELSE w + WRITE_FLAG

Goto(t, from, to) ==
    /\ pc[t] = from
    /\ pc' = [pc EXCEPT ![t] = to]

(* current_state is local to one iteration of the loop in read() or write(). *)
EndIteration(t) == current_state' = [current_state EXCEPT ![t] = 0]

Init ==
    /\ word = 0
    /\ pc = [t \in Threads |-> "idle"]
    /\ current_state = [t \in Threads |-> 0]
    /\ hb = [t \in Threads |-> InitialView]
    /\ wordHb = InitialView

-------------------------------------------------------------------------------
(* read() *)

ReadCall(t) ==
    /\ Goto(t, "idle", "r_load")
    /\ UNCHANGED <<word, current_state, hb, wordHb>>

ReadLoad_NoFlagCheck(t) ==
    /\ Goto(t, "r_load", "r_cas")
    /\ current_state' = [current_state EXCEPT ![t] = word]
    /\ UNCHANGED <<word, hb, wordHb>>

(* While the flag is set the loop spins: no step. *)
ReadLoad(t) ==
    /\ ~FlagSet(word)
    /\ Goto(t, "r_load", "r_cas")
    /\ current_state' = [current_state EXCEPT ![t] = word]
    /\ UNCHANGED <<word, hb, wordHb>>

ReadCas(t) ==
    /\ word = current_state[t]
    /\ Goto(t, "r_cas", "reading")
    /\ EndIteration(t)
    /\ word' = current_state[t] + 1
    /\ hb' = Acquire(hb, wordHb, t)
    /\ UNCHANGED wordHb

(* The value changed, or the weak exchange failed spuriously. *)
ReadCasFail(t) ==
    /\ Goto(t, "r_cas", "r_load")
    /\ EndIteration(t)
    /\ UNCHANGED <<word, hb, wordHb>>

(* Deref of the read guard. *)
ReadDeref(t) ==
    /\ pc[t] = "reading"
    /\ hb' = AfterAccess(hb, t, <<t, "read">>)
    /\ wordHb' = WordAfterAccess(wordHb, <<t, "read">>)
    /\ UNCHANGED <<word, pc, current_state>>

(* fetch_sub(1, Release) *)
ReadGuardDrop(t) ==
    /\ Goto(t, "reading", "idle")
    /\ word' = (IF word = 0 THEN 2 * WRITE_FLAG - 1 ELSE word - 1)
    /\ wordHb' = Release(hb, wordHb, t)
    /\ UNCHANGED <<current_state, hb>>

-------------------------------------------------------------------------------
(* write() *)

WriteCall(t) ==
    /\ Goto(t, "idle", "w_load")
    /\ UNCHANGED <<word, current_state, hb, wordHb>>

WriteLoad(t) ==
    /\ ~FlagSet(word)
    /\ Goto(t, "w_load", "w_cas")
    /\ current_state' = [current_state EXCEPT ![t] = word]
    /\ UNCHANGED <<word, hb, wordHb>>

WriteCas_LostUpdate(t) ==
    /\ Goto(t, "w_cas", "drain")
    /\ EndIteration(t)
    /\ word' = WithFlag(current_state[t])
    /\ hb' = Acquire(hb, wordHb, t)
    /\ UNCHANGED wordHb

WriteCas(t) ==
    /\ word = current_state[t]
    /\ Goto(t, "w_cas", "drain")
    /\ EndIteration(t)
    /\ word' = WithFlag(current_state[t])
    /\ hb' = Acquire(hb, wordHb, t)
    /\ UNCHANGED wordHb

WriteCasFail(t) ==
    /\ Goto(t, "w_cas", "w_load")
    /\ EndIteration(t)
    /\ UNCHANGED <<word, hb, wordHb>>

WriteDrain_NoWait(t) ==
    /\ Goto(t, "drain", "writing")
    /\ UNCHANGED <<word, current_state, hb, wordHb>>

WriteDrain_WholeWord(t) ==
    /\ word = 0
    /\ Goto(t, "drain", "writing")
    /\ UNCHANGED <<word, current_state, hb, wordHb>>

(* The wait ends on a Relaxed load: it synchronises with nobody. *)
WriteDrain(t) ==
    /\ ReadCount(word) = 0
    /\ Goto(t, "drain", "writing")
    /\ UNCHANGED <<word, current_state, hb, wordHb>>

(* DerefMut of the write guard. *)
WriteDerefMut(t) ==
    /\ pc[t] = "writing"
    /\ hb' = AfterAccess(hb, t, <<t, "write">>)
    /\ wordHb' = WordAfterAccess(wordHb, <<t, "write">>)
    /\ UNCHANGED <<word, pc, current_state>>

(* Deref of the write guard. *)
WriteDeref(t) ==
    /\ pc[t] = "writing"
    /\ hb' = AfterAccess(hb, t, <<t, "read">>)
    /\ wordHb' = WordAfterAccess(wordHb, <<t, "read">>)
    /\ UNCHANGED <<word, pc, current_state>>

WriteGuardDrop_Relaxed(t) ==
    /\ Goto(t, "writing", "idle")
    /\ word' = ReadCount(word)
    /\ UNCHANGED <<current_state, hb, wordHb>>

(* fetch_and(!WRITE_FLAG, Release) *)
WriteGuardDrop(t) ==
    /\ Goto(t, "writing", "idle")
    /\ word' = ReadCount(word)
    /\ wordHb' = Release(hb, wordHb, t)
    /\ UNCHANGED <<current_state, hb>>

-------------------------------------------------------------------------------
Step(t) ==
    \/ ReadCall(t)  \/ ReadLoad(t)  \/ ReadCas(t)  \/ ReadCasFail(t)
    \/ ReadDeref(t) \/ ReadGuardDrop(t)
    \/ WriteCall(t) \/ WriteLoad(t) \/ WriteCas(t) \/ WriteCasFail(t)
    \/ WriteDrain(t)
    \/ WriteDerefMut(t) \/ WriteDeref(t) \/ WriteGuardDrop(t)

Next == \E t \in Threads : Step(t)

Spec == Init /\ [][Next]_vars

(***************************************************************************)
(* A thread that runs eventually re-reads the word it spins on, and a      *)
(* critical section ends.  Nothing is assumed of threads that try to enter.*)
(***************************************************************************)
Fairness == \A t \in Threads :
    /\ WF_vars(WriteDrain(t))
    /\ WF_vars(ReadGuardDrop(t))

FairSpec == Spec /\ Fairness

-------------------------------------------------------------------------------
Readers   == {t \in Threads : pc[t] = "reading"}
Claimants == {t \in Threads : pc[t] \in {"drain", "writing"}}
Writers   == {t \in Threads : pc[t] = "writing"}

(* Type correctness of the lock word and of every thread's local state. *)
TypeOK ==
    /\ word \in Words
    /\ pc \in [Threads -> PCs]
    /\ current_state \in [Threads -> 0 .. WRITE_FLAG - 1] \* the flag is clear in it
    /\ hb \in [Threads -> SUBSET Accesses]
    /\ wordHb \subseteq Accesses

(***************************************************************************)
(* The word of mutex/src/lib.rs:89-90 ("The most significant bit is the    *)
(* write lock flag.  The other bits are the read count."): whatever the    *)
(* interleaving of loads, exchanges and drops it counts exactly the live   *)
(* read guards and its flag is set exactly while a writer claims the lock. *)
(***************************************************************************)
WordCountsGuards ==
    /\ Cardinality(Claimants) <= 1
    /\ word = Cardinality(Readers) + (IF Claimants = {} THEN 0 ELSE WRITE_FLAG)

(***************************************************************************)
(* read() and write(): a write guard excludes every other guard.           *)
(***************************************************************************)
MutualExclusion ==
    \A t \in Writers : \A u \in Threads : pc[u] \in {"reading", "writing"} => u = t

(***************************************************************************)
(* Deref under either guard: every write made under an earlier write guard *)
(* happens before the holder, so a guard never exposes stale data.         *)
(***************************************************************************)
WritesVisible ==
    \A t \in Readers \cup Claimants : Writes \subseteq hb[t]

(***************************************************************************)
(* write() returns only after "all existing readers" have finished         *)
(* (mutex/src/lib.rs:152): what they read happens before the writer.       *)
(***************************************************************************)
ReadsBeforeWriter ==
    \A t \in Writers : Reads \subseteq hb[t]

(***************************************************************************)
(* The drain loop of write(): once the flag is set no new reader comes in, *)
(* so a writer that claimed the lock gets it when the readers leave.       *)
(***************************************************************************)
WriterDrains ==
    \A t \in Threads : pc[t] = "drain" ~> pc[t] = "writing"

-------------------------------------------------------------------------------
(* The abstract lock this one implements. *)
claimant == IF Claimants = {} THEN NoThread ELSE CHOOSE t \in Claimants : TRUE

RW == INSTANCE ReaderWriter
        WITH readers <- Readers, writing <- Writers # {}

(***************************************************************************)
(* RwLock implements the readers-writer lock with writer preference: the   *)
(* comment at mutex/src/lib.rs:118, "If no write lock is held or           *)
(* requested", is what admits a reader.                                    *)
(***************************************************************************)
RWSpec == RW!Spec
===============================================================================
