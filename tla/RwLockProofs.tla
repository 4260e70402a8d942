----------------------------- MODULE RwLockProofs -----------------------------
(***************************************************************************)
(* Proofs about RwLock for every finite set of threads smaller than the    *)
(* write flag.                                                             *)
(***************************************************************************)
EXTENDS RwLock, FiniteSetTheorems, TLAPS

(***************************************************************************)
(* What the flag and the count of the word mean for the holders; this is   *)
(* the induction hypothesis of mutual exclusion.                           *)
(***************************************************************************)
WordInv ==
    /\ WordCountsGuards
    /\ Writers # {} => Readers = {}

(***************************************************************************)
(* Why writes are visible: between two write guards the word has seen all  *)
(* of them, and whoever has acquired the word has too.                     *)
(***************************************************************************)
ViewInv ==
    /\ Writers = {} => Writes \subseteq wordHb
    /\ WritesVisible

-------------------------------------------------------------------------------
(* A subset of Threads is finite and smaller than the write flag. *)
LEMMA ThreadSets ==
    ASSUME NEW S \in SUBSET Threads
    PROVE  /\ IsFiniteSet(S)
           /\ Cardinality(S) \in Nat
           /\ Cardinality(S) < WRITE_FLAG
           /\ Cardinality(S) = 0 <=> S = {}
  <1>1. IsFiniteSet(S) /\ Cardinality(S) <= Cardinality(Threads)
    BY ThreadsAssumption, FS_Subset
  <1>2. Cardinality(S) \in Nat /\ Cardinality(Threads) \in Nat
    BY <1>1, ThreadsAssumption, FS_CardinalityType
  <1>3. Cardinality(S) = 0 <=> S = {}
    BY <1>1, FS_EmptySet
  <1> QED BY <1>1, <1>2, <1>3, ThreadsAssumption, WriteFlagAssumption

(* One more, and one fewer, thread in a set. *)
LEMMA CountUp ==
    ASSUME NEW S \in SUBSET Threads, NEW t \in Threads, t \notin S
    PROVE  Cardinality(S \cup {t}) = Cardinality(S) + 1
  BY ThreadSets, FS_AddElement

LEMMA CountDown ==
    ASSUME NEW S \in SUBSET Threads, NEW t \in S
    PROVE  Cardinality(S \ {t}) = Cardinality(S) - 1
  BY ThreadSets, FS_RemoveElement

(* A set with at most one element that has t is {t}. *)
LEMMA AtMostOne ==
    ASSUME NEW S \in SUBSET Threads, Cardinality(S) <= 1, NEW t \in S
    PROVE  S = {t}
  <1>1. Cardinality(S \ {t}) = 0
    BY CountDown, ThreadSets
  <1> QED BY <1>1, ThreadSets, S \ {t} \in SUBSET Threads

-------------------------------------------------------------------------------
(***************************************************************************)
(* Type correctness: the word never leaves the range of a usize and every  *)
(* local stays in its domain.                                              *)
(***************************************************************************)
LEMMA TypeInit == Init => TypeOK
  BY WriteFlagAssumption DEF Init, TypeOK, Words, PCs, InitialView

(***************************************************************************)
(* The types of a step.  A read() exchanges an unflagged word, so the      *)
(* count it stores still fits: the increment cannot overflow.              *)
(***************************************************************************)
LEMMA TypeStep == TypeOK /\ WordInv /\ [Next]_vars => TypeOK'
  <1> SUFFICES ASSUME TypeOK, WordInv, [Next]_vars PROVE TypeOK'
    OBVIOUS
  <1> USE WriteFlagAssumption DEF TypeOK, PCs, Goto, EndIteration
  <1>1. CASE UNCHANGED vars
    BY <1>1 DEF vars
  <1>2. ASSUME NEW t \in Threads, Step(t) PROVE TypeOK'
    <2>1. CASE ReadCall(t) \/ WriteCall(t)
      BY <2>1 DEF ReadCall, WriteCall
    <2>2. CASE ReadLoad(t) \/ WriteLoad(t)
      BY <2>2 DEF ReadLoad, WriteLoad, FlagSet, Words
    <2>3. CASE ReadCas(t)
      BY <2>3 DEF ReadCas, Words, Acquire
    <2>4. CASE ReadCasFail(t) \/ WriteCasFail(t)
      BY <2>4 DEF ReadCasFail, WriteCasFail, Words
    <2>5. CASE ReadDeref(t)
      BY <2>5 DEF ReadDeref, AfterAccess, WordAfterAccess, Accesses, Reads
    <2>6. CASE ReadGuardDrop(t)
      BY <2>6 DEF ReadGuardDrop, Words, Release
    <2>7. CASE WriteCas(t)
      BY <2>7 DEF WriteCas, WithFlag, FlagSet, Words, Acquire
    <2>8. CASE WriteDrain(t)
      BY <2>8 DEF WriteDrain
    <2>9. CASE WriteDerefMut(t)
      BY <2>9 DEF WriteDerefMut, AfterAccess, WordAfterAccess, Accesses, Writes
    <2>10. CASE WriteDeref(t)
      BY <2>10 DEF WriteDeref, AfterAccess, WordAfterAccess, Accesses, Reads
    <2>11. CASE WriteGuardDrop(t)
      BY <2>11 DEF WriteGuardDrop, ReadCount, FlagSet, Words, Release
    <2> QED
      BY <1>2, <2>1, <2>2, <2>3, <2>4, <2>5, <2>6, <2>7, <2>8, <2>9, <2>10, <2>11
      DEF Step
  <1> QED BY <1>1, <1>2 DEF Next

-------------------------------------------------------------------------------
(* The empty lock satisfies the invariants. *)
LEMMA InvInit == Init => WordInv /\ ViewInv
  <1> SUFFICES ASSUME Init PROVE WordInv /\ ViewInv
    OBVIOUS
  <1>1. Readers = {} /\ Claimants = {} /\ Writers = {}
    BY DEF Init, Readers, Claimants, Writers
  <1>2. WordInv
    BY <1>1, ThreadSets, {} \in SUBSET Threads DEF Init, WordInv, WordCountsGuards
  <1>3. ViewInv
    BY <1>1 DEF Init, ViewInv, WritesVisible, InitialView, Accesses
  <1> QED BY <1>2, <1>3

(* A guard changes hands: how the sets of holders follow a program counter. *)
LEMMA Holders ==
    ASSUME TypeOK, NEW t \in Threads, NEW from, NEW to, Goto(t, from, to)
    PROVE  /\ Readers' = IF to = "reading" THEN Readers \cup {t} ELSE Readers \ {t}
           /\ Writers' = IF to = "writing" THEN Writers \cup {t} ELSE Writers \ {t}
           /\ Claimants' = IF to \in {"drain", "writing"} THEN Claimants \cup {t}
                                                          ELSE Claimants \ {t}
  BY DEF TypeOK, Goto, Readers, Writers, Claimants

(* A step that moves no thread in or out of a guard. *)
LEMMA SameHolders ==
    ASSUME TypeOK, UNCHANGED pc
    PROVE  UNCHANGED <<Readers, Writers, Claimants>>
  BY DEF Readers, Writers, Claimants

(* With the flag clear nobody claims the lock, and the word is the count. *)
LEMMA FlagClear ==
    ASSUME TypeOK, WordInv, ~FlagSet(word)
    PROVE  Claimants = {} /\ Writers = {} /\ word = Cardinality(Readers)
  <1>1. Cardinality(Readers) \in Nat
    BY ThreadSets, Readers \in SUBSET Threads DEF Readers
  <1>2. Claimants = {}
    BY <1>1, WriteFlagAssumption DEF WordInv, WordCountsGuards, FlagSet
  <1>3. Writers \subseteq Claimants
    BY DEF Writers, Claimants
  <1> QED BY <1>1, <1>2, <1>3 DEF WordInv, WordCountsGuards

(***************************************************************************)
(* The word keeps counting: one step of any thread preserves WordInv.      *)
(***************************************************************************)
LEMMA WordStep == TypeOK /\ WordInv /\ [Next]_vars => WordInv'
  <1> SUFFICES ASSUME TypeOK, WordInv, [Next]_vars PROVE WordInv'
    OBVIOUS
  <1>a. /\ Readers \in SUBSET Threads
        /\ Claimants \in SUBSET Threads
        /\ Writers \in SUBSET Claimants
    BY DEF Readers, Claimants, Writers
  <1>b. Cardinality(Readers) \in Nat /\ Cardinality(Readers) < WRITE_FLAG
    BY <1>a, ThreadSets
  <1>c. word \in Nat /\ WRITE_FLAG \in Nat \ {0}
    BY WriteFlagAssumption DEF TypeOK, Words
  <1>1. CASE UNCHANGED vars
    BY <1>1 DEF vars, WordInv, WordCountsGuards, Readers, Writers, Claimants
  <1>2. ASSUME NEW t \in Threads, Step(t) PROVE WordInv'
    <2>1. CASE ReadCall(t) \/ WriteCall(t) \/ ReadCasFail(t) \/ WriteCasFail(t)
      <3>1. UNCHANGED <<Readers, Writers, Claimants, word>>
        BY <2>1 DEF ReadCall, WriteCall, ReadCasFail, WriteCasFail, Goto, TypeOK,
                    Readers, Writers, Claimants
      <3> QED BY <3>1 DEF WordInv, WordCountsGuards
    <2>2. CASE ReadLoad(t) \/ WriteLoad(t)
      <3>1. UNCHANGED <<Readers, Writers, Claimants, word>>
        BY <2>2 DEF ReadLoad, WriteLoad, Goto, TypeOK, Readers, Writers, Claimants
      <3> QED BY <3>1 DEF WordInv, WordCountsGuards
    <2>3. CASE ReadCas(t)
      <3>1. ~FlagSet(word) /\ word' = word + 1 /\ Goto(t, "r_cas", "reading")
        BY <2>3, WriteFlagAssumption DEF ReadCas, TypeOK, FlagSet, Goto
      <3>2. t \notin Readers /\ t \notin Claimants
        BY <3>1 DEF Readers, Claimants, Goto
      <3>3. /\ Claimants = {} /\ Writers = {}
            /\ word = Cardinality(Readers)
        BY <3>1, FlagClear
      <3>4. Readers' = Readers \cup {t} /\ Writers' = {} /\ Claimants' = {}
        BY <3>1, <3>3, Holders
      <3>5. Cardinality(Readers') = Cardinality(Readers) + 1
        BY <3>2, <3>4, <1>a, CountUp
      <3>6. WordCountsGuards'
        BY <3>1, <3>3, <3>4, <3>5 DEF WordInv, WordCountsGuards
      <3> QED BY <3>4, <3>6 DEF WordInv
    <2>4. CASE WriteCas(t)
      <3>1. /\ ~FlagSet(word) /\ word' = word + WRITE_FLAG
            /\ Goto(t, "w_cas", "drain")
        BY <2>4, WriteFlagAssumption DEF WriteCas, TypeOK, FlagSet, WithFlag, Goto
      <3>2. t \notin Readers
        BY <3>1 DEF Readers, Goto
      <3>3. Claimants = {} /\ Writers = {} /\ word = Cardinality(Readers)
        BY <3>1, FlagClear
      <3>4. Readers' = Readers /\ Writers' = {} /\ Claimants' = {t}
        BY <3>1, <3>2, <3>3, Holders
      <3>5. Cardinality({t}) = 1
        BY FS_Singleton
      <3>6. WordCountsGuards'
        BY <3>1, <3>3, <3>4, <3>5, <1>b DEF WordCountsGuards
      <3> QED BY <3>4, <3>6 DEF WordInv
    <2>5. CASE ReadDeref(t) \/ WriteDerefMut(t) \/ WriteDeref(t)
      <3>1. UNCHANGED <<pc, word>>
        BY <2>5 DEF ReadDeref, WriteDerefMut, WriteDeref
      <3> QED BY <3>1, SameHolders DEF WordInv, WordCountsGuards
    <2>6. CASE ReadGuardDrop(t)
      <3>1. Goto(t, "reading", "idle")
        BY <2>6 DEF ReadGuardDrop
      <3>2. t \in Readers /\ t \notin Claimants /\ t \notin Writers
        BY <3>1 DEF Goto, Readers, Claimants, Writers
      <3>3. Readers' = Readers \ {t} /\ Writers' = Writers /\ Claimants' = Claimants
        BY <3>1, <3>2, Holders
      <3>4. Cardinality(Readers') = Cardinality(Readers) - 1 /\ Cardinality(Readers) # 0
        BY <3>2, <3>3, <1>a, CountDown, ThreadSets
      <3>5. word' = word - 1
        BY <2>6, <3>4, <1>b, <1>c DEF ReadGuardDrop, WordInv, WordCountsGuards
      <3>6. WordCountsGuards'
        BY <3>3, <3>4, <3>5, <1>b, <1>c DEF WordInv, WordCountsGuards
      <3> QED BY <3>3, <3>6 DEF WordInv
    <2>7. CASE WriteDrain(t)
      <3>1. Goto(t, "drain", "writing") /\ UNCHANGED word
        BY <2>7 DEF WriteDrain
      <3>2. t \in Claimants /\ t \notin Readers
        BY <3>1 DEF Goto, Readers, Claimants
      <3>3. Readers' = Readers /\ Claimants' = Claimants
        BY <3>1, <3>2, Holders
      <3>4. Cardinality(Readers) = 0
        BY <2>7, <3>2, <1>b, <1>c
        DEF WriteDrain, ReadCount, FlagSet, WordInv, WordCountsGuards
      <3>5. Readers = {}
        BY <3>4, <1>a, ThreadSets
      <3> QED BY <3>1, <3>3, <3>5 DEF WordInv, WordCountsGuards
    <2>8. CASE WriteGuardDrop(t)
      <3>1. Goto(t, "writing", "idle")
        BY <2>8 DEF WriteGuardDrop
      <3>2. t \in Claimants /\ t \in Writers
        BY <3>1 DEF Goto, Claimants, Writers
      <3>3. Claimants = {t}
        BY <3>2, <1>a, AtMostOne DEF WordInv, WordCountsGuards
      <3>4. Readers = {}
        BY <3>2 DEF WordInv
      <3>5. Readers' = {} /\ Claimants' = {} /\ Writers' = {}
        BY <3>1, <3>3, <3>4, <1>a, Holders
      <3>6. Cardinality(Readers) = 0 /\ Cardinality(Readers') = 0 /\ Cardinality(Claimants') = 0
        BY <3>4, <3>5, FS_EmptySet
      <3>7. word' = 0
        BY <2>8, <3>2, <3>6, <1>c
        DEF WriteGuardDrop, ReadCount, FlagSet, WordInv, WordCountsGuards
      <3> QED BY <3>5, <3>6, <3>7 DEF WordInv, WordCountsGuards
    <2> QED
      BY <1>2, <2>1, <2>2, <2>3, <2>4, <2>5, <2>6, <2>7, <2>8 DEF Step
  <1> QED BY <1>1, <1>2 DEF Next

-------------------------------------------------------------------------------
(***************************************************************************)
(* Views only grow, except for an access made by somebody else.            *)
(***************************************************************************)
LEMMA ViewStep == TypeOK /\ WordInv /\ ViewInv /\ [Next]_vars => ViewInv'
  <1> SUFFICES ASSUME TypeOK, WordInv, ViewInv, [Next]_vars PROVE ViewInv'
    OBVIOUS
  <1> USE DEF ViewInv, WritesVisible
  <1>1. CASE UNCHANGED vars
    BY <1>1 DEF vars, Readers, Claimants, Writers
  <1>2. ASSUME NEW t \in Threads, Step(t) PROVE ViewInv'
    <2>1. CASE \/ ReadCall(t) \/ WriteCall(t) \/ ReadCasFail(t) \/ WriteCasFail(t)
               \/ ReadLoad(t) \/ WriteLoad(t)
      <3>1. UNCHANGED <<Readers, Writers, Claimants, hb, wordHb>>
        BY <2>1 DEF ReadCall, WriteCall, ReadCasFail, WriteCasFail, ReadLoad, WriteLoad,
                    Goto, TypeOK, Readers, Writers, Claimants
      <3> QED BY <3>1
    <2>2. CASE ReadCas(t) \/ WriteCas(t)
      <3>1. ~FlagSet(word)
        BY <2>2, WriteFlagAssumption DEF ReadCas, WriteCas, TypeOK, FlagSet
      <3>2. Writers = {} /\ Writes \subseteq wordHb
        BY <3>1, FlagClear
      <3>3. hb' = Acquire(hb, wordHb, t) /\ wordHb' = wordHb
        BY <2>2 DEF ReadCas, WriteCas
      <3>4. (Readers \cup Claimants)' \subseteq (Readers \cup Claimants) \cup {t}
        BY <2>2 DEF ReadCas, WriteCas, Goto, TypeOK, Readers, Claimants
      <3> QED BY <3>2, <3>3, <3>4 DEF Acquire, TypeOK
    <2>3. CASE ReadDeref(t) \/ WriteDeref(t)
      <3>1. UNCHANGED <<Readers, Writers, Claimants>>
        BY <2>3, SameHolders DEF ReadDeref, WriteDeref
      <3>2. \A u \in Threads : hb[u] \cap Writes \subseteq hb'[u]
        BY <2>3 DEF ReadDeref, WriteDeref, AfterAccess, Writes
      <3>3. wordHb \cap Writes \subseteq wordHb'
        BY <2>3 DEF ReadDeref, WriteDeref, WordAfterAccess, Writes
      <3>4. Readers \subseteq Threads /\ Claimants \subseteq Threads
        BY DEF Readers, Claimants
      <3> QED BY <3>1, <3>2, <3>3, <3>4
    <2>4. CASE WriteDerefMut(t)
      <3>1. UNCHANGED <<Readers, Writers, Claimants>>
        BY <2>4, SameHolders DEF WriteDerefMut
      <3>2. t \in Writers /\ t \in Claimants /\ Claimants \in SUBSET Threads
        BY <2>4 DEF WriteDerefMut, Writers, Claimants
      <3>3. Readers = {} /\ Claimants = {t}
        BY <3>2, AtMostOne DEF WordInv, WordCountsGuards
      <3>4. hb'[t] = hb[t] \cup {<<t, "write">>}
        BY <2>4 DEF WriteDerefMut, AfterAccess
      <3> QED BY <3>1, <3>2, <3>3, <3>4
    <2>5. CASE ReadGuardDrop(t)
      <3>1. Goto(t, "reading", "idle") /\ hb' = hb /\ wordHb \subseteq wordHb'
        BY <2>5 DEF ReadGuardDrop, Release
      <3>2. t \notin Writers /\ t \notin Claimants
        BY <3>1 DEF Goto, Writers, Claimants
      <3>3. Readers' \subseteq Readers /\ Writers' = Writers /\ Claimants' = Claimants
        BY <3>1, <3>2, Holders
      <3> QED BY <3>1, <3>3
    <2>6. CASE WriteDrain(t)
      <3>1. Goto(t, "drain", "writing") /\ UNCHANGED <<hb, wordHb>>
        BY <2>6 DEF WriteDrain
      <3>2. t \in Claimants /\ t \notin Readers
        BY <3>1 DEF Goto, Readers, Claimants
      <3>3. Readers' = Readers /\ Claimants' = Claimants /\ Writers' # {}
        BY <3>1, <3>2, Holders
      <3> QED BY <3>1, <3>3
    <2>7. CASE WriteGuardDrop(t)
      <3>1. Goto(t, "writing", "idle") /\ hb' = hb /\ hb[t] \subseteq wordHb'
        BY <2>7 DEF WriteGuardDrop, Release
      <3>2. t \in Claimants
        BY <3>1 DEF Goto, Claimants
      <3>3. Readers' \subseteq Readers /\ Claimants' \subseteq Claimants
        BY <3>1, Holders
      <3> QED BY <3>1, <3>2, <3>3
    <2> QED
      BY <1>2, <2>1, <2>2, <2>3, <2>4, <2>5, <2>6, <2>7 DEF Step
  <1> QED BY <1>1, <1>2 DEF Next

-------------------------------------------------------------------------------
(***************************************************************************)
(* All of the above holds in every reachable state.                        *)
(***************************************************************************)
THEOREM Invariance == Spec => [](TypeOK /\ WordInv /\ ViewInv)
  <1>1. Init => TypeOK /\ WordInv /\ ViewInv
    BY TypeInit, InvInit
  <1>2. TypeOK /\ WordInv /\ ViewInv /\ [Next]_vars => (TypeOK /\ WordInv /\ ViewInv)'
    BY TypeStep, WordStep, ViewStep
  <1> QED BY <1>1, <1>2, PTL DEF Spec

(***************************************************************************)
(* The lock word stays within a usize and all locals within their types.   *)
(***************************************************************************)
THEOREM TypeCorrect == Spec => []TypeOK
  BY Invariance, PTL

(***************************************************************************)
(* The word counts exactly the live read guards and flags the one claiming *)
(* writer, whatever the interleaving.                                      *)
(***************************************************************************)
THEOREM WordCorrect == Spec => []WordCountsGuards
  <1>1. WordInv => WordCountsGuards
    BY DEF WordInv
  <1> QED BY <1>1, Invariance, PTL

(***************************************************************************)
(* A write guard excludes every other guard.                               *)
(***************************************************************************)
THEOREM Exclusion == Spec => []MutualExclusion
  <1>1. WordInv => MutualExclusion
    <2> SUFFICES ASSUME WordInv, NEW t \in Writers, NEW u \in Threads,
                        pc[u] \in {"reading", "writing"}
                 PROVE  u = t
      BY DEF MutualExclusion
    <2>1. u \notin Readers
      BY DEF WordInv
    <2>2. u \in Claimants /\ t \in Claimants /\ Claimants \in SUBSET Threads
      BY <2>1 DEF Readers, Claimants, Writers
    <2>3. Claimants = {t}
      BY <2>2, AtMostOne DEF WordInv, WordCountsGuards
    <2> QED BY <2>2, <2>3
  <1> QED BY <1>1, Invariance, PTL

(***************************************************************************)
(* Under a guard, every earlier write is visible.                          *)
(***************************************************************************)
THEOREM Visibility == Spec => []WritesVisible
  <1>1. ViewInv => WritesVisible
    BY DEF ViewInv
  <1> QED BY <1>1, Invariance, PTL

-------------------------------------------------------------------------------
(***************************************************************************)
(* Refinement: the claimant of the abstract lock.                          *)
(***************************************************************************)
LEMMA ClaimantOf ==
    ASSUME NEW t \in Threads, Claimants = {t}
    PROVE  claimant = t
  BY DEF claimant

LEMMA NoClaimant ==
    ASSUME Claimants = {}
    PROVE  claimant = NoThread
  BY DEF claimant

LEMMA ClaimantKept ==
    ASSUME Claimants' = Claimants
    PROVE  claimant' = claimant
  BY DEF claimant

(* Every step of RwLock is a step of the abstract lock or changes nothing it sees. *)
LEMMA RefinementStep ==
    TypeOK /\ WordInv /\ [Next]_vars => [RW!Next]_(RW!vars)
  <1> SUFFICES ASSUME TypeOK, WordInv, [Next]_vars PROVE [RW!Next]_(RW!vars)
    OBVIOUS
  <1> USE DEF RW!vars
  <1>1. CASE UNCHANGED vars
    BY <1>1, ClaimantKept, SameHolders DEF vars
  <1>2. ASSUME NEW t \in Threads, Step(t) PROVE [RW!Next]_(RW!vars)
    <2>1. CASE \/ ReadCall(t) \/ WriteCall(t) \/ ReadCasFail(t) \/ WriteCasFail(t)
               \/ ReadLoad(t) \/ WriteLoad(t)
      <3>1. UNCHANGED <<Readers, Writers, Claimants>>
        BY <2>1 DEF ReadCall, WriteCall, ReadCasFail, WriteCasFail, ReadLoad, WriteLoad,
                    Goto, TypeOK, Readers, Writers, Claimants
      <3> QED BY <3>1, ClaimantKept
    <2>2. CASE ReadDeref(t) \/ WriteDeref(t) \/ WriteDerefMut(t)
      <3>1. UNCHANGED <<Readers, Writers, Claimants>>
        BY <2>2, SameHolders DEF ReadDeref, WriteDeref, WriteDerefMut
      <3> QED BY <3>1, ClaimantKept
    <2>3. CASE ReadCas(t)
      <3>1. ~FlagSet(word) /\ Goto(t, "r_cas", "reading")
        BY <2>3, WriteFlagAssumption DEF ReadCas, TypeOK, FlagSet, Goto
      <3>2. t \notin Readers
        BY <3>1 DEF Readers, Goto
      <3>3. Claimants = {} /\ Writers = {}
        BY <3>1, FlagClear
      <3>4. Readers' = Readers \cup {t} /\ Writers' = {} /\ Claimants' = {}
        BY <3>1, <3>3, Holders
      <3>5. claimant = NoThread /\ claimant' = claimant
        BY <3>3, <3>4, NoClaimant, ClaimantKept
      <3>6. RW!EnterRead(t)
        BY <3>2, <3>3, <3>4, <3>5 DEF RW!EnterRead
      <3> QED BY <3>6 DEF RW!Next
    <2>4. CASE ReadGuardDrop(t)
      <3>1. Goto(t, "reading", "idle")
        BY <2>4 DEF ReadGuardDrop
      <3>2. t \in Readers /\ t \notin Claimants /\ t \notin Writers
        BY <3>1 DEF Goto, Readers, Claimants, Writers
      <3>3. Readers' = Readers \ {t} /\ Writers' = Writers /\ Claimants' = Claimants
        BY <3>1, <3>2, Holders
      <3>4. RW!LeaveRead(t)
        BY <3>2, <3>3, ClaimantKept DEF RW!LeaveRead
      <3> QED BY <3>4 DEF RW!Next
    <2>5. CASE WriteCas(t)
      <3>1. ~FlagSet(word) /\ Goto(t, "w_cas", "drain")
        BY <2>5, WriteFlagAssumption DEF WriteCas, TypeOK, FlagSet, Goto
      <3>2. t \notin Readers
        BY <3>1 DEF Readers, Goto
      <3>3. Claimants = {} /\ Writers = {}
        BY <3>1, FlagClear
      <3>4. Readers' = Readers /\ Writers' = {} /\ Claimants' = {t}
        BY <3>1, <3>2, <3>3, Holders
      <3>5. claimant = NoThread
        BY <3>3, NoClaimant
      <3>6. claimant' = t
        BY <3>4 DEF claimant
      <3>7. RW!Claim(t)
        BY <3>2, <3>3, <3>4, <3>5, <3>6 DEF RW!Claim
      <3> QED BY <3>7 DEF RW!Next
    <2>6. CASE WriteDrain(t)
      <3>1. Goto(t, "drain", "writing")
        BY <2>6 DEF WriteDrain
      <3>2. t \in Claimants /\ t \notin Readers /\ Claimants \in SUBSET Threads
        BY <3>1 DEF Goto, Readers, Claimants
      <3>3. Claimants = {t}
        BY <3>2, AtMostOne DEF WordInv, WordCountsGuards
      <3>4. Readers' = Readers /\ Claimants' = Claimants /\ Writers' # {}
        BY <3>1, <3>2, Holders
      <3>5. Writers = {}
        BY <3>1, <3>3 DEF Goto, Writers, Claimants
      <3>6. claimant = t /\ claimant' = claimant
        BY <3>3, <3>4, ClaimantOf, ClaimantKept
      <3>7. Readers = {}
        BY <3>4, WordStep DEF WordInv
      <3>8. RW!EnterWrite
        BY <3>4, <3>5, <3>6, <3>7, NoThreadIsNoThread DEF RW!EnterWrite
      <3> QED BY <3>8 DEF RW!Next
    <2>7. CASE WriteGuardDrop(t)
      <3>1. Goto(t, "writing", "idle")
        BY <2>7 DEF WriteGuardDrop
      <3>2. t \in Claimants /\ t \in Writers /\ Claimants \in SUBSET Threads
        BY <3>1 DEF Goto, Claimants, Writers
      <3>3. Claimants = {t}
        BY <3>2, AtMostOne DEF WordInv, WordCountsGuards
      <3>4. t \notin Readers /\ Writers \subseteq {t}
        BY <3>1, <3>3 DEF Goto, Readers, Writers, Claimants
      <3>5. Readers' = Readers /\ Claimants' = {} /\ Writers' = {}
        BY <3>1, <3>3, <3>4, Holders
      <3>6. claimant' = NoThread
        BY <3>5 DEF claimant
      <3>7. RW!LeaveWrite
        BY <3>2, <3>5, <3>6 DEF RW!LeaveWrite
      <3> QED BY <3>7 DEF RW!Next
    <2> QED
      BY <1>2, <2>1, <2>2, <2>3, <2>4, <2>5, <2>6, <2>7 DEF Step
  <1> QED BY <1>1, <1>2 DEF Next

(***************************************************************************)
(* RwLock implements the writer-preferring readers-writer lock.            *)
(***************************************************************************)
THEOREM Refinement == Spec => RWSpec
  <1>1. Init => RW!Init
    <2> SUFFICES ASSUME Init PROVE RW!Init
      OBVIOUS
    <2>1. Readers = {} /\ Claimants = {} /\ Writers = {}
      BY DEF Init, Readers, Claimants, Writers
    <2> QED BY <2>1, NoClaimant DEF RW!Init
  <1>2. TypeOK /\ WordInv /\ ViewInv /\ [Next]_vars => [RW!Next]_(RW!vars)
    BY RefinementStep
  <1> QED BY <1>1, <1>2, Invariance, PTL DEF Spec, RWSpec, RW!Spec
===============================================================================
