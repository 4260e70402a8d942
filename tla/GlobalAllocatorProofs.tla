------------------------- MODULE GlobalAllocatorProofs -------------------------
(***************************************************************************)
(* Proofs about GlobalAllocator for every set of threads and of chunks.    *)
(***************************************************************************)
EXTENDS GlobalAllocator, TLAPS

(***************************************************************************)
(* Where each call may stand, and between which points trim_for_boot has   *)
(* memory kept back.                                                       *)
(***************************************************************************)
Control(t) ==
    /\ pc[t] = "idle" <=> call[t] = "none"
    /\ pc[t] \in {"want_range", "in_range"} => call[t] \in RangeCalls \cup BothCalls \cup {"alloc"}
    /\ pc[t] \in {"want_buddy", "in_buddy"} => call[t] \in BuddyCalls \cup BothCalls
    /\ pc[t] = "record" => call[t] \in {"alloc_large", "alloc"}
    /\ pc[t] = "take" => call[t] \in {"alloc", "trim_for_boot"}
    /\ pc[t] = "refilled" => call[t] = "alloc"
    /\ pc[t] = "list" => call[t] = "trim_for_boot"
    /\ kept[t] # NoChunk =>
          /\ call[t] = "trim_for_boot"
          /\ pc[t] \in {"want_range", "want_buddy", "in_buddy", "take", "list"}
    /\ call[t] = "trim_for_boot" /\ pc[t] \in {"want_buddy", "in_buddy", "take", "list"} =>
          kept[t] # NoChunk

ControlInv == \A t \in Threads : Control(t)

(***************************************************************************)
(* Who holds which lock, by where its call stands.  A trim_for_boot that   *)
(* waits for the range lock it holds may have the buddy lock or not.       *)
(***************************************************************************)
HoldsRange(t) ==
    \/ pc[t] \in {"in_range", "record", "list"}
    \/ call[t] \in BothCalls /\ pc[t] \in {"want_buddy", "in_buddy", "take"}
    \/ kept[t] # NoChunk

HoldsBuddy(t) ==
    \/ pc[t] \in {"in_buddy", "take", "refilled"}
    \/ call[t] = "alloc" /\ pc[t] \in {"want_range", "in_range", "record"}

LockInv ==
    \A t \in Threads :
        /\ HoldsRange(t) <=> lock["range"] = t
        /\ HoldsBuddy(t) => lock["buddy"] = t
        /\ lock["buddy"] = t => HoldsBuddy(t) \/ (kept[t] # NoChunk /\ pc[t] = "want_range")

(***************************************************************************)
(* The buddy allocator exists once the range list does, but for an init    *)
(* that is still under way and holds the range lock.                       *)
(***************************************************************************)
SetUpInv ==
    /\ range # "unset" /\ ~buddy => \E t \in Threads : lock["range"] = t /\ call[t] = "init"
    /\ \A t \in Threads : kept[t] # NoChunk => buddy /\ range = "finalized"
    /\ handoff # {} => range = "finalized"
    /\ range # "finalized" =>
          cached = {} /\ \A t \in Threads : Owned(t) = {} /\ InTransit(t) = {}

(* What the chunk a call has chosen is. *)
Chosen(t) ==
    /\ call[t] = "dealloc" => got[t] \in live[t].buddy
    /\ call[t] = "dealloc_large" => got[t] \in live[t].range
    /\ pc[t] = "record" /\ got[t] # NoChunk => got[t] \in regions /\ range = "finalized"
    /\ pc[t] = "take" => got[t] \in cached
    /\ pc[t] \notin {"record", "take", "refilled", "list"}
       /\ call[t] \notin {"dealloc", "dealloc_large"} => got[t] = NoChunk

ChosenInv == \A t \in Threads : Chosen(t)

Inv == TypeOK /\ ControlInv /\ LockInv /\ SetUpInv /\ ChosenInv /\ ChunksAccounted /\ HandoffComplete

-------------------------------------------------------------------------------
(* The locks are free, the stores empty and nobody calls. *)
LEMMA InitInv == Init => Inv
  <1> SUFFICES ASSUME Init PROVE Inv
    OBVIOUS
  <1> USE ThreadsAssumption, ChunksAssumption, CallsAssumption
  <1>1. TypeOK
    <2>1. StoreTypes
      BY DEF Init, StoreTypes, Locks
    <2>2. LiveTypes
      BY DEF Init, LiveTypes
    <2>3. CallTypes
      BY DEF Init, CallTypes, Pcs
    <2> QED BY <2>1, <2>2, <2>3 DEF TypeOK
  <1>2. ControlInv /\ LockInv /\ ChosenInv
    BY DEF Init, ControlInv, Control, LockInv, ChosenInv, Chosen, HoldsRange, HoldsBuddy, Locks,
       BothCalls
  <1>3. SetUpInv /\ ChunksAccounted /\ HandoffComplete
    BY DEF Init, SetUpInv, ChunksAccounted, HandoffComplete, Owned, InTransit
  <1> QED BY <1>1, <1>2, <1>3 DEF Inv

(***************************************************************************)
(* Types of a step.  What is freed, taken or released is a chunk and no    *)
(* null pointer, which is what ChosenInv and ControlInv are needed for.    *)
(***************************************************************************)
LEMMA TypeStep ==
    ASSUME Inv, NEW t \in Threads, Begin(t) \/ Step(t)
    PROVE  TypeOK'
  <1> USE ThreadsAssumption, ChunksAssumption, CallsAssumption
      DEF Locks, Pcs, Calls, RangeCalls, BuddyCalls, BothCalls, Lock, Unlock, Goto, Return, Cut
  <1>a. StoreTypes /\ LiveTypes /\ CallTypes /\ ControlInv /\ ChosenInv
    BY DEF Inv, TypeOK
  <1>1. StoreTypes'
    <2> USE DEF StoreTypes, CallTypes
    <2>1. CASE Begin(t)
      BY <2>1, <1>a DEF Begin, store
    <2>2. CASE LockRange(t) \/ LockBuddy(t) \/ InitRange(t)
      BY <2>2, <1>a DEF LockRange, LockBuddy, InitRange, store
    <2>9. CASE InitBuddy(t)
      BY <2>9, <1>a DEF InitBuddy
    <2>3. CASE Register(t) \/ Finalize(t)
      BY <2>3, <1>a DEF Register, Finalize
    <2>4. CASE Choose(t) \/ Search(t) \/ Refilled(t)
      BY <2>4, <1>a DEF Choose, Search, Refilled, store
    <2>5. CASE Record(t)
      <3>1. got[t] \in Chunks \cup {NoChunk}
        BY <1>a
      <3> QED BY <2>5, <3>1, <1>a DEF Record
    <2>8. CASE Keep(t)
      BY <2>8, <1>a DEF Keep
    <2>6. CASE DeallocLarge(t) \/ Dealloc(t) \/ Take(t)
      BY <2>6, <1>a DEF DeallocLarge, Dealloc, Take, ChosenInv, Chosen, LiveTypes
    <2>7. CASE List(t)
      BY <2>7, <1>a DEF List, ControlInv, Control
    <2> QED BY <2>1, <2>2, <2>3, <2>4, <2>5, <2>6, <2>7, <2>8, <2>9 DEF Step
  <1>2. LiveTypes'
    <2> USE DEF LiveTypes, CallTypes
    <2>1. CASE Record(t) \/ Refilled(t)
      <3>1. {got[t]} \ {NoChunk} \subseteq Chunks
        BY <1>a
      <3> QED BY <2>1, <3>1, <1>a DEF Record, Refilled
    <2>2. CASE DeallocLarge(t) \/ Dealloc(t) \/ Take(t)
      BY <2>2, <1>a DEF DeallocLarge, Dealloc, Take, ChosenInv, Chosen, StoreTypes
    <2>3. CASE UNCHANGED live
      BY <2>3, <1>a
    <2> QED
      BY <2>1, <2>2, <2>3 DEF Step, Begin, LockRange, LockBuddy, InitRange, InitBuddy,
         Register, Finalize, Choose, Search, Keep, List, store
  <1>3. CallTypes'
    <2> USE DEF CallTypes
    <2>1. CASE Begin(t)
      BY <2>1, <1>a DEF Begin, LiveTypes
    <2>2. CASE LockRange(t) \/ LockBuddy(t) \/ InitRange(t) \/ InitBuddy(t)
      BY <2>2, <1>a DEF LockRange, LockBuddy, InitRange, InitBuddy
    <2>3. CASE Register(t) \/ Finalize(t)
      BY <2>3, <1>a DEF Register, Finalize
    <2>4. CASE Choose(t) \/ Search(t)
      BY <2>4, <1>a DEF Choose, Search, StoreTypes
    <2>5. CASE Record(t) \/ Take(t) \/ Refilled(t) \/ DeallocLarge(t) \/ Dealloc(t)
      BY <2>5, <1>a DEF Record, Take, Refilled, DeallocLarge, Dealloc
    <2>6. CASE Keep(t) \/ List(t)
      BY <2>6, <1>a DEF Keep, List, StoreTypes
    <2> QED BY <2>1, <2>2, <2>3, <2>4, <2>5, <2>6 DEF Step
  <1> QED BY <1>1, <1>2, <1>3 DEF TypeOK

(* A thread that gets the range lock has nothing kept back, and one that   *)
(* searches for trim_for_boot finds the buddy allocator set up.            *)
LEMMA LockFree ==
    ASSUME Inv, NEW t \in Threads, LockRange(t)
    PROVE  kept[t] = NoChunk
  BY ThreadsAssumption DEF LockRange, Lock, Inv, LockInv, HoldsRange

LEMMA SetUp ==
    ASSUME Inv, NEW t \in Threads, pc[t] = "in_buddy", call[t] = "trim_for_boot"
    PROVE  buddy
  BY DEF Inv, ControlInv, Control, SetUpInv

(* A step of one thread leaves the calls of the others alone. *)
LEMMA Others ==
    ASSUME Inv, NEW t \in Threads, Begin(t) \/ Step(t), NEW u \in Threads, u # t
    PROVE  /\ pc'[u] = pc[u] /\ call'[u] = call[u] /\ got'[u] = got[u]
           /\ kept'[u] = kept[u] /\ live'[u] = live[u]
  <1> USE DEF Inv, TypeOK, LiveTypes, CallTypes, Goto, Return
  <1>1. CASE Begin(t) \/ LockRange(t) \/ LockBuddy(t) \/ InitRange(t)
    BY <1>1 DEF Begin, LockRange, LockBuddy, InitRange, store
  <1>2. CASE Register(t) \/ Finalize(t) \/ Choose(t) \/ InitBuddy(t)
    BY <1>2 DEF Register, Finalize, Choose, InitBuddy, store
  <1>3. CASE Record(t) \/ DeallocLarge(t) \/ Search(t)
    BY <1>3 DEF Record, DeallocLarge, Search, store
  <1>4. CASE Take(t) \/ Refilled(t) \/ Dealloc(t)
    BY <1>4 DEF Take, Refilled, Dealloc
  <1>5. CASE Keep(t) \/ List(t)
    BY <1>5 DEF Keep, List
  <1> QED BY <1>1, <1>2, <1>3, <1>4, <1>5 DEF Step

(***************************************************************************)
(* Where calls stand after a step.                                         *)
(***************************************************************************)
LEMMA ControlStep ==
    ASSUME Inv, NEW t \in Threads, Begin(t) \/ Step(t)
    PROVE  ControlInv'
  <1> SUFFICES ASSUME NEW u \in Threads PROVE Control(u)'
    BY DEF ControlInv
  <1>a. CallTypes /\ Control(u) /\ StoreTypes
    BY DEF Inv, TypeOK, ControlInv
  <1>1. CASE u # t
    BY <1>1, <1>a, Others DEF Control
  <1>2. CASE u = t
    <2> USE ChunksAssumption, <1>a, <1>2
        DEF Control, CallTypes, Goto, Return, Calls, RangeCalls, BuddyCalls, BothCalls
    <2>1. CASE Begin(t)
      BY <2>1 DEF Begin
    <2>2. CASE LockRange(t)
      <3>1. kept[t] = NoChunk
        BY <2>2, LockFree
      <3> QED BY <2>2, <3>1 DEF LockRange
    <2>3. CASE LockBuddy(t) \/ InitRange(t) \/ InitBuddy(t)
      BY <2>3 DEF LockBuddy, InitRange, InitBuddy
    <2>4. CASE Register(t) \/ Finalize(t) \/ Choose(t)
      BY <2>4 DEF Register, Finalize, Choose
    <2>5. CASE Search(t)
      BY <2>5, SetUp DEF Search
    <2>6. CASE Record(t) \/ DeallocLarge(t)
      BY <2>6 DEF Record, DeallocLarge
    <2>7. CASE Take(t) \/ Refilled(t) \/ Dealloc(t)
      BY <2>7 DEF Take, Refilled, Dealloc
    <2>8. CASE Keep(t)
      BY <2>8 DEF Keep, StoreTypes
    <2>9. CASE List(t)
      BY <2>9 DEF List
    <2> QED BY <2>1, <2>2, <2>3, <2>4, <2>5, <2>6, <2>7, <2>8, <2>9 DEF Step
  <1> QED BY <1>1, <1>2

(***************************************************************************)
(* A step takes a lock that is free and drops one that is its own: the     *)
(* other threads keep what they hold.                                      *)
(***************************************************************************)
LEMMA LockChange ==
    ASSUME Inv, NEW t \in Threads, Begin(t) \/ Step(t), NEW l \in Locks
    PROVE  \A u \in Threads \ {t} : lock'[l] = u <=> lock[l] = u
  <1> USE ThreadsAssumption DEF Locks, Lock, Unlock
  <1>a. StoreTypes /\ Control(t)
    BY DEF Inv, TypeOK, ControlInv
  <1>b. /\ HoldsRange(t) => lock["range"] = t
        /\ HoldsBuddy(t) => lock["buddy"] = t
    BY DEF Inv, LockInv
  <1>1. CASE LockRange(t) \/ LockBuddy(t)
    BY <1>1, <1>a DEF LockRange, LockBuddy, StoreTypes
  <1>2. CASE UNCHANGED lock
    BY <1>2
  <1>3. CASE Register(t) \/ Finalize(t) \/ Record(t) \/ DeallocLarge(t) \/ List(t)
    <2>1. lock["range"] = t /\ lock' = [lock EXCEPT !["range"] = NoThread]
      BY <1>3, <1>b DEF Register, Finalize, Record, DeallocLarge, List, HoldsRange
    <2> QED BY <2>1, <1>a DEF StoreTypes
  <1>4. CASE Take(t) \/ Refilled(t) \/ Dealloc(t)
    <2>1. lock["buddy"] = t /\ lock' = [lock EXCEPT !["buddy"] = NoThread]
      BY <1>4, <1>b DEF Take, Refilled, Dealloc, HoldsBuddy
    <2> QED BY <2>1, <1>a DEF StoreTypes
  <1>5. CASE InitBuddy(t)
    <2>1. lock["range"] = t /\ lock["buddy"] = t
      BY <1>5, <1>b DEF InitBuddy, HoldsRange, HoldsBuddy, BothCalls
    <2> QED BY <2>1, <1>5 DEF InitBuddy
  <1>6. CASE Keep(t)
    <2>1. lock["range"] = t
      BY <1>6, <1>b DEF Keep, HoldsRange
    <2> QED BY <2>1, <1>6, <1>a DEF Keep, StoreTypes
  <1> QED
    BY <1>1, <1>2, <1>3, <1>4, <1>5, <1>6 DEF Step, Begin, InitRange, Choose, Search

(***************************************************************************)
(* Who holds the locks after a step.                                       *)
(***************************************************************************)
LEMMA LockStep ==
    ASSUME Inv, NEW t \in Threads, Begin(t) \/ Step(t)
    PROVE  LockInv'
  <1> DEFINE L(u) == /\ HoldsRange(u) <=> lock["range"] = u
                     /\ HoldsBuddy(u) => lock["buddy"] = u
                     /\ lock["buddy"] = u => HoldsBuddy(u) \/ (kept[u] # NoChunk /\ pc[u] = "want_range")
  <1> SUFFICES ASSUME NEW u \in Threads PROVE L(u)'
    BY DEF LockInv
  <1>a. Control(u) /\ L(u)
    BY DEF Inv, ControlInv, LockInv
  <1>b. /\ DOMAIN lock = Locks /\ DOMAIN pc = Threads
        /\ DOMAIN call = Threads /\ DOMAIN kept = Threads
    BY DEF Inv, TypeOK, StoreTypes, CallTypes

  <1>1. CASE u # t
    <2>1. /\ lock'["range"] = u <=> lock["range"] = u
          /\ lock'["buddy"] = u <=> lock["buddy"] = u
      BY <1>1, LockChange DEF Locks
    <2>2. pc'[u] = pc[u] /\ call'[u] = call[u] /\ kept'[u] = kept[u]
      BY <1>1, Others
    <2> QED BY <2>1, <2>2, <1>a DEF HoldsRange, HoldsBuddy
  <1>2. CASE u = t
    <2> USE ThreadsAssumption, ChunksAssumption, <1>a, <1>b, <1>2
        DEF Control, HoldsRange, HoldsBuddy, Goto, Return, Lock, Unlock,
            Locks, Calls, RangeCalls, BuddyCalls, BothCalls
    <2>1. CASE Begin(t)
      BY <2>1 DEF Begin
    <2>2. CASE LockRange(t)
      <3>1. kept[t] = NoChunk
        BY <2>2, LockFree
      <3> QED BY <2>2, <3>1 DEF LockRange
    <2>3. CASE LockBuddy(t)
      BY <2>3 DEF LockBuddy
    <2>4. CASE InitRange(t) \/ Choose(t)
      BY <2>4 DEF InitRange, Choose
    <2>5. CASE InitBuddy(t)
      BY <2>5 DEF InitBuddy
    <2>6. CASE Register(t) \/ Finalize(t)
      BY <2>6 DEF Register, Finalize
    <2>7. CASE Search(t)
      BY <2>7, SetUp DEF Search
    <2>8. CASE Record(t) \/ DeallocLarge(t)
      BY <2>8 DEF Record, DeallocLarge
    <2>9. CASE Take(t)
      BY <2>9 DEF Take
    <2>10. CASE Refilled(t) \/ Dealloc(t)
      BY <2>10 DEF Refilled, Dealloc
    <2>11. CASE Keep(t)
      <3>1. regions \subseteq Chunks
        BY DEF Inv, TypeOK, StoreTypes
      <3> QED BY <2>11, <3>1 DEF Keep
    <2>12. CASE List(t)
      BY <2>12 DEF List
    <2> QED
      BY <2>1, <2>2, <2>3, <2>4, <2>5, <2>6, <2>7, <2>8, <2>9, <2>10, <2>11, <2>12 DEF Step
  <1> QED BY <1>1, <1>2

(***************************************************************************)
(* The buddy allocator and the finalized range list stay; while the range  *)
(* list is not finalized, or the buddy allocator is missing, no call but   *)
(* init can make the difference.                                           *)
(***************************************************************************)
LEMMA SetUpStep ==
    ASSUME Inv, NEW t \in Threads, Begin(t) \/ Step(t)
    PROVE  SetUpInv'
  <1>a. /\ StoreTypes /\ LiveTypes /\ CallTypes /\ Control(t) /\ Chosen(t)
        /\ SetUpInv /\ (HoldsRange(t) <=> lock["range"] = t)
    BY DEF Inv, TypeOK, ControlInv, LockInv, ChosenInv
  <1>b. lock["range"] = t /\ call[t] # "init" /\ range # "unset" => buddy
    BY <1>a DEF SetUpInv
  <1>1. buddy => buddy'
    BY DEF Step, Begin, LockRange, LockBuddy, InitRange, InitBuddy, Register, Finalize, Choose,
       Record, DeallocLarge, Search, Take, Refilled, Dealloc, Keep, List, store
  <1>2. range = "finalized" => range' = "finalized"
    BY DEF Step, Begin, LockRange, LockBuddy, InitRange, InitBuddy, Register, Finalize, Choose,
       Record, DeallocLarge, Search, Take, Refilled, Dealloc, Keep, List, store
  <1>3. range' # "unset" /\ ~buddy' => \E u \in Threads : lock'["range"] = u /\ call'[u] = "init"
    <2> SUFFICES ASSUME range' # "unset", ~buddy'
                 PROVE  \E u \in Threads : lock'["range"] = u /\ call'[u] = "init"
      OBVIOUS
    <2>1. CASE InitRange(t)
      <3>1. lock["range"] = t /\ lock' = lock /\ call' = call /\ call[t] = "init"
        BY <2>1, <1>a DEF InitRange, HoldsRange
      <3> QED BY <3>1
    <2>2. CASE range = "unset"
      BY <2>2, <2>1 DEF Step, Begin, LockRange, LockBuddy, InitBuddy, Register, Finalize, Choose,
         Record, DeallocLarge, Search, Take, Refilled, Dealloc, Keep, List, store
    <2>3. CASE range # "unset"
      <3>1. PICK u \in Threads : lock["range"] = u /\ call[u] = "init"
        BY <1>a, <1>1, <2>3 DEF SetUpInv
      <3>2. CASE u # t
        <4>1. lock'["range"] = u
          BY <3>1, <3>2, LockChange DEF Locks
        <4>2. call'[u] = call[u]
          BY <3>2, Others
        <4> QED BY <3>1, <4>1, <4>2
      <3>3. CASE u = t
        <4>1. InitRange(t) \/ LockBuddy(t)
          <5>1. ~InitBuddy(t)
            BY DEF InitBuddy
          <5>2. pc[t] \in {"in_range", "want_buddy", "in_buddy"}
            BY <3>1, <3>3, <1>a DEF HoldsRange, Control, RangeCalls, BothCalls, CallTypes, Pcs
          <5> QED
            BY <5>1, <5>2, <3>1, <3>3 DEF Step, Begin, LockRange, InitRange, InitBuddy, Register,
               Finalize, Choose, Record, DeallocLarge, Search, Take, Refilled, Dealloc, Keep, List
        <4>2. lock'["range"] = lock["range"] /\ call' = call
          BY <4>1, <1>a DEF InitRange, LockBuddy, Lock, StoreTypes, Locks
        <4> QED BY <3>1, <3>3, <4>2
      <3> QED BY <3>2, <3>3
    <2> QED BY <2>2, <2>3
  <1>4. ASSUME NEW u \in Threads, kept'[u] # NoChunk
        PROVE  buddy' /\ range' = "finalized"
    <2>1. CASE kept[u] # NoChunk
      BY <2>1, <1>a, <1>1, <1>2 DEF SetUpInv
    <2>2. CASE kept[u] = NoChunk
      <3>1. u = t
        BY <1>4, <2>2, Others
      <3>2. Keep(t) /\ range = "finalized"
        BY <1>4, <2>2, <3>1, <1>a DEF Step, Begin, LockRange, LockBuddy, InitRange, InitBuddy,
           Register, Finalize, Choose, Record, DeallocLarge, Search, Take, Refilled, Dealloc, Keep,
           List, CallTypes
      <3>3. buddy
        BY <3>2, <1>a, <1>b DEF Keep, HoldsRange
      <3> QED BY <3>2, <3>3, <1>1, <1>2
    <2> QED BY <2>1, <2>2
  <1>5. handoff' # {} => range' = "finalized"
    <2>1. CASE List(t)
      BY <2>1, <1>a, <1>2 DEF List, Control, SetUpInv
    <2>2. CASE UNCHANGED handoff
      BY <2>2, <1>a, <1>2 DEF SetUpInv
    <2> QED
      BY <2>1, <2>2 DEF Step, Begin, LockRange, LockBuddy, InitRange, InitBuddy, Register,
         Finalize, Choose, Record, DeallocLarge, Search, Take, Refilled, Dealloc, Keep, store
  <1>6. ASSUME range' # "finalized"
        PROVE  cached' = {} /\ \A u \in Threads : Owned(u)' = {} /\ InTransit(u)' = {}
    <2>a. /\ range # "finalized" /\ cached = {}
          /\ \A u \in Threads : Owned(u) = {} /\ InTransit(u) = {} /\ kept[u] = NoChunk
      BY <1>2, <1>6, <1>a DEF SetUpInv
    <2>b. live[t].range = {} /\ live[t].buddy = {} /\ kept[t] = NoChunk
      BY <2>a DEF Owned
    <2>1. ~Take(t) /\ ~List(t) /\ ~Dealloc(t) /\ ~DeallocLarge(t)
      BY <2>a, <2>b, <1>a DEF Take, List, Dealloc, DeallocLarge, Chosen, Control
    <2>2. cached' = {}
      BY <2>a, <2>1 DEF Step, Begin, LockRange, LockBuddy, InitRange, InitBuddy, Register,
         Finalize, Choose, Record, Search, Refilled, Keep, store
    <2>3. ASSUME NEW u \in Threads PROVE Owned(u)' = {} /\ InTransit(u)' = {}
      <3>1. CASE u # t
        <4>1. /\ pc'[u] = pc[u] /\ got'[u] = got[u]
              /\ kept'[u] = kept[u] /\ live'[u] = live[u]
          BY <3>1, <2>3, Others
        <4> QED BY <4>1, <2>a DEF Owned, InTransit
      <3>2. CASE u = t
        <4>1. kept'[t] = NoChunk
          BY <1>4, <1>6
        <4>2. pc'[t] = "refilled" => got'[t] = NoChunk
          <5>1. pc'[t] = "refilled" => Search(t) \/ Record(t)
            BY <2>1, <1>a DEF Step, Begin, LockRange, LockBuddy, InitRange, InitBuddy, Register,
               Finalize, Choose, Refilled, Keep, Goto, Return, CallTypes
          <5>2. CASE Search(t)
            BY <5>2, <1>a, <2>a DEF Search, Chosen, Goto, CallTypes
          <5>3. CASE Record(t)
            BY <5>3, <1>a, <2>a DEF Record, Chosen, Return, CallTypes
          <5> QED BY <5>1, <5>2, <5>3
        <4>3. live'[t].range = {} /\ live'[t].buddy = {}
          <5>1. CASE Record(t) \/ Refilled(t)
            <6>1. got[t] = NoChunk
              BY <5>1, <1>a, <2>a DEF Record, Refilled, Chosen, InTransit
            <6> QED BY <5>1, <6>1, <2>b, <1>a DEF Record, Refilled, LiveTypes
          <5>2. CASE UNCHANGED live
            BY <5>2, <2>b
          <5> QED
            BY <5>1, <5>2, <2>1 DEF Step, Begin, LockRange, LockBuddy, InitRange, InitBuddy,
               Register, Finalize, Choose, Search, Keep, store
        <4> QED BY <4>1, <4>2, <4>3, <3>2 DEF Owned, InTransit
      <3> QED BY <3>1, <3>2
    <2> QED BY <2>2, <2>3
  <1> QED BY <1>3, <1>4, <1>5, <1>6 DEF SetUpInv

(***************************************************************************)
(* The range list changes under the range lock, the free lists of the      *)
(* buddy allocator under the buddy lock.                                   *)
(***************************************************************************)
LEMMA Guarded ==
    ASSUME Inv, NEW t \in Threads, Begin(t) \/ Step(t)
    PROVE  /\ lock["range"] # t =>
                  regions' = regions /\ reserved' = reserved /\ range' = range /\ handoff' = handoff
           /\ lock["buddy"] # t => cached' = cached
  <1>a. /\ HoldsRange(t) => lock["range"] = t
        /\ HoldsBuddy(t) => lock["buddy"] = t
    BY DEF Inv, LockInv
  <1>1. \/ pc[t] \in {"in_range", "record", "list"}
        \/ UNCHANGED <<regions, reserved, range, handoff>>
    <2>1. CASE \/ InitRange(t) \/ Register(t) \/ Finalize(t) \/ Record(t) \/ DeallocLarge(t)
               \/ Keep(t) \/ List(t)
      BY <2>1 DEF InitRange, Register, Finalize, Record, DeallocLarge, Keep, List
    <2>2. CASE \/ Begin(t) \/ LockRange(t) \/ LockBuddy(t) \/ InitBuddy(t) \/ Choose(t)
               \/ Search(t) \/ Take(t) \/ Refilled(t) \/ Dealloc(t)
      BY <2>2 DEF Begin, LockRange, LockBuddy, InitBuddy, Choose, Search, Take, Refilled, Dealloc,
         store
    <2> QED BY <2>1, <2>2 DEF Step
  <1>2. pc[t] \in {"in_buddy", "take"} \/ UNCHANGED cached
    <2>1. CASE Take(t) \/ Dealloc(t)
      BY <2>1 DEF Take, Dealloc
    <2>2. CASE UNCHANGED cached
      BY <2>2
    <2> QED
      BY <2>1, <2>2 DEF Step, Begin, LockRange, LockBuddy, InitRange, InitBuddy, Register, Finalize,
         Choose, Record, DeallocLarge, Search, Refilled, Keep, List, store
  <1> QED BY <1>1, <1>2, <1>a DEF HoldsRange, HoldsBuddy

(* What the chunks that calls have chosen are after a step. *)
LEMMA ChosenStep ==
    ASSUME Inv, NEW t \in Threads, Begin(t) \/ Step(t)
    PROVE  ChosenInv'
  <1> SUFFICES ASSUME NEW u \in Threads PROVE Chosen(u)'
    BY DEF ChosenInv
  <1>a. CallTypes /\ Control(u) /\ Chosen(u)
    BY DEF Inv, TypeOK, ControlInv, ChosenInv
  <1>1. CASE u # t
    <2>1. /\ pc'[u] = pc[u] /\ call'[u] = call[u] /\ got'[u] = got[u]
          /\ live'[u] = live[u]
      BY <1>1, Others
    <2>2. pc[u] = "record" => regions' = regions /\ range' = range
      BY <1>1, Guarded DEF Inv, LockInv, HoldsRange
    <2>3. pc[u] = "take" => cached' = cached
      BY <1>1, Guarded DEF Inv, LockInv, HoldsBuddy
    <2> QED BY <2>1, <2>2, <2>3, <1>a DEF Chosen
  <1>2. CASE u = t
    <2> USE <1>a, <1>2 DEF Control, Chosen, CallTypes, Goto, Return, Calls, RangeCalls, BuddyCalls,
            BothCalls
    <2>1. CASE Begin(t)
      BY <2>1 DEF Begin, store
    <2>2. CASE LockRange(t) \/ LockBuddy(t) \/ InitRange(t)
      BY <2>2 DEF LockRange, LockBuddy, InitRange, store
    <2>3. CASE Register(t) \/ Finalize(t) \/ InitBuddy(t)
      BY <2>3 DEF Register, Finalize, InitBuddy
    <2>4. CASE Choose(t)
      BY <2>4 DEF Choose, store
    <2>5. CASE Search(t)
      BY <2>5 DEF Search, store
    <2>6. CASE Record(t) \/ DeallocLarge(t)
      BY <2>6 DEF Record, DeallocLarge
    <2>7. CASE Take(t) \/ Refilled(t) \/ Dealloc(t)
      BY <2>7 DEF Take, Refilled, Dealloc
    <2>8. CASE Keep(t) \/ List(t)
      BY <2>8 DEF Keep, List
    <2> QED BY <2>1, <2>2, <2>3, <2>4, <2>5, <2>6, <2>7, <2>8 DEF Step
  <1> QED BY <1>1, <1>2

-------------------------------------------------------------------------------
(* The accounts *)

(***************************************************************************)
(* ChunksAccounted in two parts: the accounts between free memory F, what  *)
(* the range list gave out R, the buddy allocator's lists C and what each  *)
(* thread uses A; and the accounts inside one thread.                      *)
(***************************************************************************)
Accounts(F, R, C, A) ==
    /\ F \cap R = {}
    /\ \A k : k \in R <=> k \in C \/ \E u \in Threads : k \in A[u]
    /\ \A u \in Threads : A[u] \cap C = {}
    /\ \A u, v \in Threads : u # v => A[u] \cap A[v] = {}

Using(t) == Owned(t) \cup InTransit(t)
Uses == [t \in Threads |-> Using(t)]
Apart(t) == live[t].range \cap live[t].buddy = {} /\ Owned(t) \cap InTransit(t) = {}

LEMMA InParts ==
    ChunksAccounted <=>
        (range = "finalized" =>
            Accounts(regions, reserved, cached, Uses) /\ \A t \in Threads : Apart(t))
  <1>1. reserved = cached \cup UNION {Using(t) : t \in Threads}
        <=> \A k : k \in reserved <=> k \in cached \/ \E u \in Threads : k \in Uses[u]
    BY DEF Uses
  <1> QED BY <1>1 DEF ChunksAccounted, Accounts, Apart, Uses, Using

(* One thread moves one chunk k, or none, between two of the places. *)
Moved(t, k, F, R, C, A, F2, R2, C2, B) ==
    /\ \A u \in Threads \ {t} : B[u] = A[u]
    /\ \/ /\ F2 = F /\ R2 = R /\ C2 = C /\ B[t] = A[t]
       \/ /\ k \in F
          /\ F2 = F \ {k} /\ R2 = R \cup {k} /\ C2 = C /\ B[t] = A[t] \cup {k}
       \/ /\ k \in A[t]
          /\ F2 \subseteq F \cup {k} /\ R2 = R \ {k} /\ C2 = C /\ B[t] = A[t] \ {k}
       \/ /\ k \in C
          /\ F2 = F /\ R2 = R /\ C2 = C \ {k} /\ B[t] = A[t] \cup {k}
       \/ /\ k \in A[t]
          /\ F2 = F /\ R2 = R /\ C2 = C \cup {k} /\ B[t] = A[t] \ {k}

LEMMA MovedKeeps ==
    ASSUME NEW t \in Threads, NEW k, NEW F, NEW R, NEW C, NEW A, NEW F2, NEW R2, NEW C2, NEW B,
           Accounts(F, R, C, A), Moved(t, k, F, R, C, A, F2, R2, C2, B)
    PROVE  Accounts(F2, R2, C2, B)
  <1> USE DEF Accounts
  <1>a. \A u \in Threads \ {t} : B[u] = A[u]
    BY DEF Moved
  <1>1. CASE F2 = F /\ R2 = R /\ C2 = C /\ B[t] = A[t]
    <2>1. \A u \in Threads : B[u] = A[u]
      BY <1>a, <1>1
    <2> QED BY <1>1, <2>1
  <1>2. CASE k \in F /\ F2 = F \ {k} /\ R2 = R \cup {k} /\ C2 = C /\ B[t] = A[t] \cup {k}
    <2>1. k \notin R /\ k \notin C /\ \A u \in Threads : k \notin A[u]
      BY <1>2
    <2>2. \A i : i \in R2 <=> i \in C2 \/ \E u \in Threads : i \in B[u]
      BY <1>a, <1>2, <2>1
    <2>3. \A u, v \in Threads : u # v => B[u] \cap B[v] = {}
      BY <1>a, <1>2, <2>1
    <2> QED BY <1>a, <1>2, <2>1, <2>2, <2>3
  <1>3. CASE /\ k \in A[t] /\ F2 \subseteq F \cup {k} /\ R2 = R \ {k} /\ C2 = C
             /\ B[t] = A[t] \ {k}
    <2>1. k \notin C /\ \A u \in Threads \ {t} : k \notin A[u]
      BY <1>3
    <2>2. \A i : i \in R2 <=> i \in C2 \/ \E u \in Threads : i \in B[u]
      BY <1>a, <1>3, <2>1
    <2>3. \A u, v \in Threads : u # v => B[u] \cap B[v] = {}
      BY <1>a, <1>3, <2>1
    <2> QED BY <1>a, <1>3, <2>1, <2>2, <2>3
  <1>4. CASE k \in C /\ F2 = F /\ R2 = R /\ C2 = C \ {k} /\ B[t] = A[t] \cup {k}
    <2>1. k \in R /\ \A u \in Threads : k \notin A[u]
      BY <1>4
    <2>2. \A i : i \in R2 <=> i \in C2 \/ \E u \in Threads : i \in B[u]
      BY <1>a, <1>4, <2>1
    <2>3. \A u, v \in Threads : u # v => B[u] \cap B[v] = {}
      BY <1>a, <1>4, <2>1
    <2> QED BY <1>a, <1>4, <2>1, <2>2, <2>3
  <1>5. CASE k \in A[t] /\ F2 = F /\ R2 = R /\ C2 = C \cup {k} /\ B[t] = A[t] \ {k}
    <2>1. k \in R /\ k \notin C /\ \A u \in Threads \ {t} : k \notin A[u]
      BY <1>5
    <2>2. \A i : i \in R2 <=> i \in C2 \/ \E u \in Threads : i \in B[u]
      BY <1>a, <1>5, <2>1
    <2>3. \A u, v \in Threads : u # v => B[u] \cap B[v] = {}
      BY <1>a, <1>5, <2>1
    <2> QED BY <1>a, <1>5, <2>1, <2>2, <2>3
  <1> QED BY <1>1, <1>2, <1>3, <1>4, <1>5 DEF Moved

(***************************************************************************)
(* A step with the range list finalized moves at most one chunk, and       *)
(* leaves the chunks of the thread that takes it apart.                    *)
(***************************************************************************)
LEMMA StepMoves ==
    ASSUME Inv, NEW t \in Threads, Begin(t) \/ Step(t), range = "finalized"
    PROVE  /\ Apart(t)'
           /\ \E k : Moved(t, k, regions, reserved, cached, Uses,
                                regions', reserved', cached', Uses')
  <1>a. /\ StoreTypes /\ LiveTypes /\ CallTypes /\ Control(t) /\ Chosen(t)
        /\ Accounts(regions, reserved, cached, Uses) /\ Apart(t)
    BY InParts DEF Inv, TypeOK, ControlInv, ChosenInv
  <1>b. \A u \in Threads \ {t} : Uses'[u] = Uses[u]
    BY Others DEF Uses, Using, Owned, InTransit
  <1>c. Uses[t] = Using(t) /\ Uses'[t] = Using(t)'
    BY DEF Uses
  <1>d. NoChunk \notin regions /\ Using(t) \subseteq reserved /\ Using(t) \cap cached = {}
    BY <1>a, <1>c, ChunksAssumption DEF Accounts, StoreTypes
  <1> DEFINE M(k) == Moved(t, k, regions, reserved, cached, Uses,
                              regions', reserved', cached', Uses')
  <1>1. CASE /\ UNCHANGED <<regions, reserved, cached, live>>
             /\ InTransit(t)' = InTransit(t)
    <2>1. Using(t)' = Using(t)
      BY <1>1 DEF Using, Owned
    <2>2. M(NoChunk)
      BY <1>1, <1>b, <1>c, <2>1 DEF Moved
    <2>3. Apart(t)'
      BY <1>a, <1>1 DEF Apart, Owned
    <2> QED BY <2>2, <2>3
  <1>2. CASE \/ Begin(t) \/ LockRange(t) \/ LockBuddy(t) \/ InitRange(t) \/ InitBuddy(t)
             \/ Register(t) \/ Finalize(t) \/ Choose(t) \/ Search(t)
    <2>1. UNCHANGED <<regions, reserved, cached, live, kept>>
      BY <1>2, <1>a DEF Begin, LockRange, LockBuddy, InitRange, InitBuddy, Register, Finalize,
         Choose, Search, store
    <2>2. pc[t] # "refilled"
      BY <1>2 DEF Begin, LockRange, LockBuddy, InitRange, InitBuddy, Register, Finalize, Choose,
         Search
    <2>3. pc'[t] = "refilled" => got'[t] = NoChunk
      <3>1. CASE Search(t)
        BY <3>1, <1>a DEF Search, Chosen, Goto, CallTypes
      <3>2. CASE ~Search(t)
        BY <3>2, <1>2, <1>a DEF Begin, LockRange, LockBuddy, InitRange, InitBuddy, Register,
           Finalize, Choose, Goto, Return, CallTypes
      <3> QED BY <3>1, <3>2
    <2>4. InTransit(t)' = InTransit(t)
      BY <2>1, <2>2, <2>3 DEF InTransit
    <2> QED BY <1>1, <2>1, <2>4
  <1>3. CASE Record(t)
    <2>1. kept[t] = NoChunk /\ kept' = kept /\ cached' = cached /\ pc[t] = "record"
      BY <1>3, <1>a DEF Record, Control
    <2>2. InTransit(t) = {}
      BY <2>1 DEF InTransit
    <2>3. CASE got[t] = NoChunk
      <3>1. regions' = regions /\ reserved' = reserved
        BY <1>3, <2>3, <1>d DEF Record, Cut
      <3>2. live' = live
        BY <1>3, <2>3, <1>a DEF Record, LiveTypes
      <3>3. InTransit(t)' = {}
        BY <1>3, <2>1, <2>3, <1>a DEF Record, InTransit, Goto, Return, CallTypes
      <3> QED BY <1>1, <2>1, <2>2, <3>1, <3>2, <3>3
    <2>4. CASE got[t] # NoChunk
      <3>1. got[t] \in regions
        BY <2>1, <2>4, <1>a DEF Chosen
      <3>2. regions' = regions \ {got[t]} /\ reserved' = reserved \cup {got[t]}
        BY <1>3, <2>4 DEF Record, Cut
      <3>3. got[t] \notin Using(t)
        BY <3>1, <1>a, <1>d DEF Accounts
      <3>4. Using(t)' = Using(t) \cup {got[t]} /\ Apart(t)'
        <4>1. CASE call[t] = "alloc"
          <5>1. live' = live /\ pc'[t] = "refilled" /\ got'[t] = got[t]
            BY <4>1, <1>3, <1>a DEF Record, Goto, CallTypes
          <5>2. InTransit(t)' = {got[t]} /\ Owned(t)' = Owned(t)
            BY <5>1, <2>1, <2>4 DEF InTransit, Owned
          <5> QED BY <5>1, <5>2, <2>2, <3>3, <1>a DEF Using, Apart
        <4>2. CASE call[t] # "alloc"
          <5>1. /\ live'[t].range = live[t].range \cup {got[t]} /\ live'[t].buddy = live[t].buddy
                /\ pc'[t] = "idle"
            BY <4>2, <1>3, <2>4, <1>a DEF Record, Return, CallTypes, LiveTypes
          <5>2. InTransit(t)' = {}
            BY <5>1, <2>1 DEF InTransit
          <5> QED BY <5>1, <5>2, <2>2, <3>3, <1>a DEF Using, Owned, Apart
        <4> QED BY <4>1, <4>2
      <3>5. M(got[t])
        BY <3>1, <3>2, <3>4, <2>1, <1>b, <1>c DEF Moved
      <3> QED BY <3>4, <3>5
    <2> QED BY <2>3, <2>4
  <1>4. CASE Refilled(t)
    <2>1. /\ UNCHANGED <<regions, reserved, cached, kept>>
          /\ pc'[t] = "idle" /\ pc[t] = "refilled" /\ kept[t] = NoChunk
          /\ live'[t].range = live[t].range
          /\ live'[t].buddy = live[t].buddy \cup ({got[t]} \ {NoChunk})
      BY <1>4, <1>a DEF Refilled, Return, Control, CallTypes, LiveTypes
    <2>2. InTransit(t) = {got[t]} \ {NoChunk} /\ InTransit(t)' = {}
      BY <2>1 DEF InTransit
    <2>3. Using(t)' = Using(t) /\ Apart(t)'
      BY <2>1, <2>2, <1>a DEF Using, Owned, Apart
    <2>4. M(NoChunk)
      BY <2>1, <2>3, <1>b, <1>c DEF Moved
    <2> QED BY <2>3, <2>4
  <1>5. CASE DeallocLarge(t)
    <2>1. /\ regions' = regions \cup {got[t]} /\ reserved' = reserved \ {got[t]}
          /\ cached' = cached /\ kept' = kept /\ pc'[t] = "idle" /\ pc[t] = "in_range"
          /\ kept[t] = NoChunk /\ got[t] \in live[t].range
          /\ live'[t].range = live[t].range \ {got[t]} /\ live'[t].buddy = live[t].buddy
      BY <1>5, <1>a DEF DeallocLarge, Return, Control, Chosen, CallTypes, LiveTypes
    <2>2. InTransit(t) = {} /\ InTransit(t)' = {}
      BY <2>1 DEF InTransit
    <2>3. Using(t)' = Using(t) \ {got[t]} /\ Apart(t)' /\ got[t] \in Using(t)
      BY <2>1, <2>2, <1>a DEF Using, Owned, Apart
    <2>4. M(got[t])
      BY <2>1, <2>3, <1>b, <1>c DEF Moved
    <2> QED BY <2>3, <2>4
  <1>6. CASE Dealloc(t)
    <2>1. /\ regions' = regions /\ reserved' = reserved /\ cached' = cached \cup {got[t]}
          /\ kept' = kept /\ pc'[t] = "idle" /\ pc[t] = "in_buddy"
          /\ kept[t] = NoChunk /\ got[t] \in live[t].buddy
          /\ live'[t].range = live[t].range /\ live'[t].buddy = live[t].buddy \ {got[t]}
      BY <1>6, <1>a DEF Dealloc, Return, Control, Chosen, CallTypes, LiveTypes
    <2>2. InTransit(t) = {} /\ InTransit(t)' = {}
      BY <2>1 DEF InTransit
    <2>3. Using(t)' = Using(t) \ {got[t]} /\ Apart(t)' /\ got[t] \in Using(t)
      BY <2>1, <2>2, <1>a DEF Using, Owned, Apart
    <2>4. M(got[t])
      BY <2>1, <2>3, <1>b, <1>c DEF Moved
    <2> QED BY <2>3, <2>4
  <1>7. CASE Take(t)
    <2>1. /\ regions' = regions /\ reserved' = reserved /\ cached' = cached \ {got[t]}
          /\ kept' = kept /\ pc'[t] \in {"idle", "list"} /\ pc[t] = "take" /\ got[t] \in cached
          /\ live'[t].range = live[t].range /\ live'[t].buddy = live[t].buddy \cup {got[t]}
      BY <1>7, <1>a DEF Take, Goto, Return, Chosen, CallTypes, LiveTypes
    <2>2. InTransit(t)' = InTransit(t)
      BY <2>1 DEF InTransit
    <2>3. got[t] \notin Using(t)
      BY <2>1, <1>d
    <2>4. Using(t)' = Using(t) \cup {got[t]} /\ Apart(t)'
      BY <2>1, <2>2, <2>3, <1>a DEF Using, Owned, Apart
    <2>5. M(got[t])
      BY <2>1, <2>4, <1>b, <1>c DEF Moved
    <2> QED BY <2>4, <2>5
  <1>8. CASE Keep(t)
    <2>1. pc[t] = "in_range" /\ kept[t] = NoChunk /\ cached' = cached /\ live' = live
      BY <1>8, <1>a DEF Keep, Control
    <2>2. InTransit(t) = {}
      BY <2>1 DEF InTransit
    <2>3. CASE regions = {}
      <3>1. UNCHANGED <<regions, reserved, kept>> /\ pc'[t] = "idle"
        BY <1>8, <2>3, <1>a DEF Keep, Return, CallTypes
      <3>2. InTransit(t)' = {}
        BY <3>1, <2>1 DEF InTransit
      <3> QED BY <1>1, <2>1, <2>2, <3>1, <3>2
    <2>4. CASE regions # {}
      <3>1. PICK k \in regions :
                /\ regions' = regions \ {k} /\ reserved' = reserved \cup ({k} \ {NoChunk})
                /\ kept'[t] = k /\ pc'[t] \in {"want_buddy", "want_range"}
        BY <1>8, <2>4, <1>a DEF Keep, Cut, Goto, CallTypes
      <3>2. k # NoChunk /\ k \notin Using(t)
        BY <1>a, <1>d DEF Accounts
      <3>3. InTransit(t)' = {k} /\ Owned(t)' = Owned(t)
        BY <3>1, <3>2, <2>1 DEF InTransit, Owned
      <3>4. Using(t)' = Using(t) \cup {k} /\ Apart(t)'
        BY <3>2, <3>3, <2>1, <2>2, <1>a DEF Using, Apart
      <3>5. M(k)
        BY <3>1, <3>2, <3>4, <2>1, <1>b, <1>c DEF Moved
      <3> QED BY <3>4, <3>5
    <2> QED BY <2>3, <2>4
  <1>9. CASE List(t)
    <2>1. /\ regions' = {kept[t]} /\ reserved' = reserved \ {kept[t]}
          /\ cached' = cached /\ live' = live /\ pc'[t] = "idle" /\ pc[t] = "list"
          /\ kept[t] # NoChunk /\ kept'[t] = NoChunk
      BY <1>9, <1>a DEF List, Return, Control, CallTypes
    <2>2. InTransit(t) = {kept[t]} /\ InTransit(t)' = {} /\ Owned(t)' = Owned(t)
      BY <2>1 DEF InTransit, Owned
    <2>3. Using(t)' = Using(t) \ {kept[t]} /\ Apart(t)' /\ kept[t] \in Using(t)
      BY <2>1, <2>2, <1>a DEF Using, Apart
    <2>4. M(kept[t])
      BY <2>1, <2>3, <1>b, <1>c DEF Moved
    <2> QED BY <2>3, <2>4
  <1> QED BY <1>2, <1>3, <1>4, <1>5, <1>6, <1>7, <1>8, <1>9 DEF Step

(* The accounts after a step; finalize starts them, with nothing given out. *)
LEMMA AccountsStep ==
    ASSUME Inv, NEW t \in Threads, Begin(t) \/ Step(t)
    PROVE  ChunksAccounted'
  <1> SUFFICES ASSUME range' = "finalized"
               PROVE  /\ Accounts(regions, reserved, cached, Uses)'
                      /\ \A u \in Threads : Apart(u)'
    <2>1. (\A k : k \in reserved' <=> k \in cached' \/ \E u \in Threads : k \in Uses'[u])
          => reserved' = cached' \cup UNION {Using(u)' : u \in Threads}
      BY DEF Uses
    <2> QED BY <2>1 DEF ChunksAccounted, Accounts, Apart, Uses, Using
  <1>1. CASE range = "finalized"
    <2>a. Accounts(regions, reserved, cached, Uses) /\ \A u \in Threads : Apart(u)
      BY <1>1, InParts DEF Inv
    <2>1. Accounts(regions', reserved', cached', Uses')
      BY <1>1, <2>a, StepMoves, MovedKeeps
    <2>2. \A u \in Threads : Apart(u)'
      <3>1. ASSUME NEW u \in Threads, u # t PROVE Apart(u)'
        BY <3>1, <2>a, Others DEF Apart, Owned, InTransit
      <3> QED BY <3>1, <1>1, StepMoves
    <2> QED BY <2>1, <2>2 DEF Accounts
  <1>2. CASE range # "finalized"
    <2>a. cached = {} /\ \A u \in Threads : Owned(u) = {} /\ InTransit(u) = {}
      BY <1>2 DEF Inv, SetUpInv
    <2>1. Finalize(t)
      BY <1>2 DEF Step, Begin, LockRange, LockBuddy, InitRange, InitBuddy, Register, Choose, Record,
         DeallocLarge, Search, Take, Refilled, Dealloc, Keep, List, store
    <2>2. reserved' = {} /\ cached' = {} /\ live' = live /\ kept' = kept
      BY <2>1, <2>a, <1>2 DEF Finalize
    <2>3. ASSUME NEW u \in Threads PROVE live'[u].range = {} /\ live'[u].buddy = {}
                                         /\ InTransit(u)' = {}
      <3>1. CASE u # t
        BY <3>1, <2>a, Others DEF Owned, InTransit
      <3>2. CASE u = t
        <4>1. pc'[t] = "idle"
          BY <2>1 DEF Finalize, Return, Inv, TypeOK, CallTypes
        <4>2. kept[t] = NoChunk
          BY <2>a, <2>1 DEF InTransit, Finalize
        <4> QED BY <3>2, <4>1, <4>2, <2>2, <2>a DEF InTransit, Owned
      <3> QED BY <3>1, <3>2
    <2>4. \A u \in Threads : Uses'[u] = {} /\ Apart(u)'
      BY <2>3 DEF Uses, Using, Owned, Apart
    <2> QED BY <2>2, <2>4 DEF Accounts
  <1> QED BY <1>1, <1>2

(***************************************************************************)
(* The last list handed over still covers the range list: what a call      *)
(* moves is in it already.                                                 *)
(***************************************************************************)
LEMMA HandoffStep ==
    ASSUME Inv, NEW t \in Threads, Begin(t) \/ Step(t)
    PROVE  HandoffComplete'
  <1>a. /\ StoreTypes /\ Control(t) /\ Chosen(t) /\ HandoffComplete
        /\ (handoff # {} => range = "finalized")
        /\ (range = "finalized" => Accounts(regions, reserved, cached, Uses))
    BY InParts DEF Inv, TypeOK, ControlInv, ChosenInv, SetUpInv
  <1>1. CASE List(t)
    <2>1. range = "finalized" /\ kept[t] # NoChunk
      BY <1>1, <1>a DEF List, Control, Inv, SetUpInv
    <2>2. kept[t] \in Uses[t]
      BY <2>1 DEF Uses, Using, InTransit
    <2>3. kept[t] \in reserved
      BY <2>1, <2>2, <1>a DEF Accounts
    <2> QED BY <1>1, <2>3 DEF List, HandoffComplete
  <1>2. CASE ~List(t)
    <2>1. handoff' = handoff
      BY <1>2 DEF Step, Begin, LockRange, LockBuddy, InitRange, InitBuddy, Register, Finalize,
         Choose, Record, DeallocLarge, Search, Take, Refilled, Dealloc, Keep, store
    <2>2. CASE handoff = {}
      BY <2>1, <2>2 DEF HandoffComplete
    <2>3. CASE handoff # {}
      <3>1. range = "finalized"
        BY <2>3, <1>a
      <3>2. PICK k : Moved(t, k, regions, reserved, cached, Uses,
                           regions', reserved', cached', Uses')
        BY <3>1, StepMoves
      <3>3. k \in Uses[t] => k \in reserved
        BY <3>1, <1>a DEF Accounts
      <3>4. regions' \cup reserved' \subseteq regions \cup reserved
        BY <3>2, <3>3 DEF Moved
      <3> QED BY <3>4, <2>1, <2>3, <1>a DEF HandoffComplete
    <2> QED BY <2>2, <2>3
  <1> QED BY <1>1, <1>2

-------------------------------------------------------------------------------
LEMMA InvStep == Inv /\ [Next]_vars => Inv'
  <1> SUFFICES ASSUME Inv, [Next]_vars PROVE Inv'
    OBVIOUS
  <1>1. CASE Next
    <2>1. PICK t \in Threads : Begin(t) \/ Step(t)
      BY <1>1 DEF Next
    <2> QED
      BY <2>1, TypeStep, ControlStep, LockStep, SetUpStep, ChosenStep, AccountsStep, HandoffStep
      DEF Inv
  <1>2. CASE UNCHANGED vars
    <2>1. /\ StoreTypes' = StoreTypes /\ LiveTypes' = LiveTypes /\ CallTypes' = CallTypes
          /\ ControlInv' = ControlInv /\ LockInv' = LockInv
      BY <1>2 DEF vars, store, StoreTypes, LiveTypes, CallTypes, ControlInv, Control, LockInv,
         HoldsRange, HoldsBuddy
    <2>2. /\ SetUpInv' = SetUpInv /\ ChosenInv' = ChosenInv
          /\ ChunksAccounted' = ChunksAccounted /\ HandoffComplete' = HandoffComplete
      BY <1>2 DEF vars, store, SetUpInv, ChosenInv, Chosen, ChunksAccounted, HandoffComplete,
         Owned, InTransit
    <2> QED BY <2>1, <2>2 DEF Inv, TypeOK
  <1> QED BY <1>1, <1>2

(***************************************************************************)
(* In every reachable state a deadlock needs init or trim_for_boot: a      *)
(* thread of any other call that holds the range lock waits for nothing,   *)
(* so one that holds the buddy lock waits for nobody in such a circle.     *)
(***************************************************************************)
LEMMA LocksOrdered == Inv => OnlyInitOrTrimDeadlocks
  <1> SUFFICES ASSUME Inv, NEW S \in SUBSET Threads, Deadlocked(S),
                      \A t \in S : call[t] \notin BothCalls
               PROVE  FALSE
    BY DEF OnlyInitOrTrimDeadlocks
  <1>a. \A t \in S : kept[t] = NoChunk /\ pc[t] # "list"
    BY DEF Inv, ControlInv, Control, BothCalls
  <1>1. lock["range"] \notin S
    <2> SUFFICES ASSUME NEW u \in S, lock["range"] = u PROVE FALSE
      OBVIOUS
    <2>1. pc[u] \in {"in_range", "record"}
      BY <1>a DEF Inv, LockInv, HoldsRange
    <2>2. Waits(u) = {}
      BY <2>1 DEF Waits
    <2> QED BY <2>2 DEF Deadlocked
  <1>2. \A t \in S : pc[t] = "want_buddy" /\ lock["buddy"] \in S
    BY <1>1 DEF Deadlocked, Waits
  <1>3. PICK u \in S : lock["buddy"] = u
    BY <1>2 DEF Deadlocked
  <1>4. HoldsBuddy(u)
    BY <1>3, <1>a DEF Inv, LockInv
  <1> QED BY <1>2, <1>4 DEF HoldsBuddy

(***************************************************************************)
(* Locks, stores and calls have their types for any number of threads.     *)
(***************************************************************************)
THEOREM TypeCorrect == Spec => []TypeOK
  <1>1. Inv => TypeOK
    BY DEF Inv
  <1> QED BY <1>1, InitInv, InvStep, PTL DEF Spec

(***************************************************************************)
(* The two locks keep the accounts of the two allocators together, for any *)
(* number of threads, chunks and calls: no chunk is in two places.         *)
(***************************************************************************)
THEOREM AccountsKept == Spec => []ChunksAccounted
  <1>1. Inv => ChunksAccounted
    BY DEF Inv
  <1> QED BY <1>1, InitInv, InvStep, PTL DEF Spec

(***************************************************************************)
(* The list trim_for_boot returned covers all memory in use or free after  *)
(* it, whatever the other threads do before and after it.                  *)
(***************************************************************************)
THEOREM HandoffKept == Spec => []HandoffComplete
  <1>1. Inv => HandoffComplete
    BY DEF Inv
  <1> QED BY <1>1, InitInv, InvStep, PTL DEF Spec

(***************************************************************************)
(* alloc, dealloc, the registering calls and finalize alone never wait for *)
(* each other in a circle, for any number of threads.                      *)
(***************************************************************************)
THEOREM LockOrder == Spec => []OnlyInitOrTrimDeadlocks
  BY LocksOrdered, InitInv, InvStep, PTL DEF Spec
=============================================================================
