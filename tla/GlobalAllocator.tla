---------------------------- MODULE GlobalAllocator ----------------------------
(***************************************************************************)
(* GLOBAL_ALLOCATOR of allocator/src/lib.rs: the range list allocator and  *)
(* the buddy allocator, each behind a SpinLock (mutex/src/lib.rs), and the *)
(* entry points that take the two locks in different orders and nest them. *)
(*                                                                         *)
(* Memory counts in chunks of MAX_ALLOCATABLE_BYTES; what the allocators   *)
(* do inside a chunk is in RangeListAllocator and BuddyAllocator.  Taking  *)
(* a lock, choosing a chunk, and recording the choice are separate steps.  *)
(***************************************************************************)
EXTENDS Integers, FiniteSets

CONSTANTS
    Threads,
    NoThread,
    Chunks,     \* memory, in chunks
    NoChunk,    \* a null pointer
    MaxCalls    \* bound: calls made in a behaviour

ASSUME ThreadsAssumption == IsFiniteSet(Threads) /\ NoThread \notin Threads
ASSUME ChunksAssumption == NoChunk \notin Chunks
ASSUME CallsAssumption == MaxCalls \in Nat

VARIABLES
    lock,       \* lock -> the thread that holds its guard
    range,      \* the range list: "unset", "collecting" or "finalized"
    buddy,      \* buddy_allocator.get().is_some()
    regions, reserved, \* the range list's two lists
    cached,     \* chunks in the buddy allocator's free lists
    handoff,    \* ghost: what trim_for_boot returned last
    live,       \* thread -> chunks it allocated, by the allocator they came from
    call, pc,   \* thread -> its call and where it stands
    got,        \* thread -> the chunk it has chosen
    kept,       \* thread -> the memory trim_for_boot keeps back
    calls       \* calls made so far

store == <<range, buddy, regions, reserved, cached, handoff, live>>
vars == <<lock, store, call, pc, got, kept, calls>>

Locks == {"range", "buddy"}
RangeCalls == {"add_available_region", "add_reserved_region",
               "allocate_dynamic_reserved_region", "finalize", "alloc_large", "dealloc_large"}
BuddyCalls == {"alloc", "dealloc"}
BothCalls == {"init", "trim_for_boot"}
Calls == RangeCalls \cup BuddyCalls \cup BothCalls
Pcs == {"idle", "want_range", "in_range", "record", "want_buddy", "in_buddy", "take",
        "refilled", "list"}

Init ==
    /\ lock = [l \in Locks |-> NoThread]
    /\ range = "unset" /\ buddy = FALSE
    /\ regions = {} /\ reserved = {} /\ cached = {} /\ handoff = {}
    /\ live = [t \in Threads |-> [range |-> {}, buddy |-> {}]]
    /\ call = [t \in Threads |-> "none"]
    /\ pc = [t \in Threads |-> "idle"]
    /\ got = [t \in Threads |-> NoChunk]
    /\ kept = [t \in Threads |-> NoChunk]
    /\ calls = 0

-------------------------------------------------------------------------------
(* Locks and calls *)

(* Mutant: a test and a store instead of the exchange. *)
Lock_NoExchange(t, l) == lock' = [lock EXCEPT ![l] = t]

(* SpinLock::lock: the exchange that succeeds; failed ones change nothing. *)
Lock(t, l) ==
    /\ lock[l] = NoThread
    /\ lock' = [lock EXCEPT ![l] = t]

(* SpinLockGuard::drop *)
Unlock(l) == lock' = [lock EXCEPT ![l] = NoThread]

Goto(t, to) == pc' = [pc EXCEPT ![t] = to]

Return(t) ==
    /\ pc' = [pc EXCEPT ![t] = "idle"]
    /\ call' = [call EXCEPT ![t] = "none"]
    /\ got' = [got EXCEPT ![t] = NoChunk]

(* A call begins; alloc and dealloc choose the lock by the layout's size. *)
Begin(t) ==
    /\ pc[t] = "idle"
    /\ calls < MaxCalls
    /\ calls' = calls + 1
    /\ \E c \in Calls :
          /\ call' = [call EXCEPT ![t] = c]
          /\ Goto(t, IF c \in BuddyCalls THEN "want_buddy" ELSE "want_range")
          /\ CASE c = "dealloc"       -> \E k \in live[t].buddy : got' = [got EXCEPT ![t] = k]
               [] c = "dealloc_large" -> \E k \in live[t].range : got' = [got EXCEPT ![t] = k]
               [] OTHER               -> UNCHANGED got
    /\ UNCHANGED <<lock, store, kept>>

LockRange(t) ==
    /\ pc[t] = "want_range"
    /\ Lock(t, "range")
    /\ Goto(t, "in_range")
    /\ UNCHANGED <<store, call, got, kept, calls>>

LockBuddy(t) ==
    /\ pc[t] = "want_buddy"
    /\ Lock(t, "buddy")
    /\ Goto(t, "in_buddy")
    /\ UNCHANGED <<store, call, got, kept, calls>>

-------------------------------------------------------------------------------
(* Under the range lock *)

(* init, first half: the range lock stays held. *)
InitRange(t) ==
    /\ pc[t] = "in_range" /\ call[t] = "init"
    /\ range' = (IF range = "unset" THEN "collecting" ELSE range)
    /\ Goto(t, "want_buddy")
    /\ UNCHANGED <<lock, buddy, regions, reserved, cached, handoff, live, call, got, kept, calls>>

(* The calls that only register; an Err leaves everything as it was. *)
Register(t) ==
    /\ pc[t] = "in_range"
    /\ call[t] \in {"add_available_region", "add_reserved_region",
                    "allocate_dynamic_reserved_region"}
    /\ \/ /\ range = "collecting" /\ call[t] = "add_available_region"
          /\ \E k \in Chunks : regions' = regions \cup {k}
          /\ UNCHANGED reserved
       \/ /\ range = "collecting" /\ call[t] = "add_reserved_region"
          /\ \E k \in Chunks : reserved' = reserved \cup {k}
          /\ UNCHANGED regions
       \/ /\ range = "collecting" /\ call[t] = "allocate_dynamic_reserved_region"
          /\ \E k \in regions \ reserved : reserved' = reserved \cup {k}
          /\ UNCHANGED regions
       \/ UNCHANGED <<regions, reserved>>
    /\ Unlock("range")
    /\ Return(t)
    /\ UNCHANGED <<range, buddy, cached, handoff, live, kept, calls>>

(* finalize: a reservation outside the available memory is an Err. *)
Finalize(t) ==
    /\ pc[t] = "in_range" /\ call[t] = "finalize"
    /\ IF range = "collecting" /\ reserved \subseteq regions
       THEN /\ range' = "finalized"
            /\ regions' = regions \ reserved
            /\ reserved' = {}
       ELSE UNCHANGED <<range, regions, reserved>>
    /\ Unlock("range")
    /\ Return(t)
    /\ UNCHANGED <<buddy, cached, handoff, live, kept, calls>>

(* Mutant: when the range list has nothing, ask the buddy allocator. *)
Choose_FallBack(t) ==
    /\ pc[t] = "in_range" /\ call[t] \in {"alloc_large", "alloc"}
    /\ IF range = "finalized" /\ regions # {}
       THEN (\E k \in regions : got' = [got EXCEPT ![t] = k]) /\ Goto(t, "record")
       ELSE Goto(t, "want_buddy") /\ UNCHANGED got
    /\ UNCHANGED <<lock, store, call, kept, calls>>

(* allocate_region finds memory, for alloc of a large layout and for the   *)
(* refill of the buddy allocator (alloc_for_buddy_allocator).              *)
Choose(t) ==
    /\ pc[t] = "in_range" /\ call[t] \in {"alloc_large", "alloc"}
    /\ IF range = "finalized" /\ regions # {}
       THEN \E k \in regions : got' = [got EXCEPT ![t] = k]
       ELSE UNCHANGED got
    /\ Goto(t, "record")
    /\ UNCHANGED <<lock, store, call, kept, calls>>

(* Mutant: a failed allocation is recorded like the others. *)
Cut_Null(k) == regions' = regions \ {k} /\ reserved' = reserved \cup {k}

Cut(k) ==
    /\ regions' = regions \ {k}
    /\ reserved' = reserved \cup ({k} \ {NoChunk})

(* Mutant: the early return of a failed allocation keeps the guard. *)
Record_KeepGuard(t) ==
    /\ pc[t] = "record"
    /\ Cut(got[t])
    /\ IF got[t] = NoChunk /\ call[t] # "alloc" THEN UNCHANGED lock ELSE Unlock("range")
    /\ IF call[t] = "alloc"
       THEN Goto(t, "refilled") /\ UNCHANGED <<live, call, got>>
       ELSE /\ live' = [live EXCEPT ![t].range = @ \cup ({got[t]} \ {NoChunk})]
            /\ Return(t)
    /\ UNCHANGED <<range, buddy, cached, handoff, kept, calls>>

(* allocate_region cuts it out of one list and records it in the other; a  *)
(* refill goes on under the buddy lock.                                    *)
Record(t) ==
    /\ pc[t] = "record"
    /\ Cut(got[t])
    /\ Unlock("range")
    /\ IF call[t] = "alloc"
       THEN Goto(t, "refilled") /\ UNCHANGED <<live, call, got>>
       ELSE /\ live' = [live EXCEPT ![t].range = @ \cup ({got[t]} \ {NoChunk})]
            /\ Return(t)
    /\ UNCHANGED <<range, buddy, cached, handoff, kept, calls>>

DeallocLarge(t) ==
    /\ pc[t] = "in_range" /\ call[t] = "dealloc_large"
    /\ regions' = regions \cup {got[t]}
    /\ reserved' = reserved \ {got[t]}
    /\ live' = [live EXCEPT ![t].range = @ \ {got[t]}]
    /\ Unlock("range")
    /\ Return(t)
    /\ UNCHANGED <<range, buddy, cached, handoff, kept, calls>>

-------------------------------------------------------------------------------
(* Under the buddy lock *)

(* init, second half; both guards go at the end of the function. *)
InitBuddy(t) ==
    /\ pc[t] = "in_buddy" /\ call[t] = "init"
    /\ buddy' = TRUE
    /\ lock' = [l \in Locks |-> NoThread]
    /\ Return(t)
    /\ UNCHANGED <<range, regions, reserved, cached, handoff, live, kept, calls>>

(* BuddyAllocator::alloc: a free block if there is one, else a refill from *)
(* the range list with the buddy lock held.  trim_for_boot comes here for  *)
(* its Vec, with the range lock held.                                      *)
Search(t) ==
    /\ pc[t] = "in_buddy" /\ call[t] \in {"alloc", "trim_for_boot"}
    /\ \/ /\ ~buddy
          /\ Goto(t, "refilled")
          /\ UNCHANGED got
       \/ /\ buddy
          /\ \E k \in cached : got' = [got EXCEPT ![t] = k]
          /\ Goto(t, "take")
       \/ /\ buddy /\ cached = {}
          /\ Goto(t, "want_range")
          /\ UNCHANGED got
    /\ UNCHANGED <<lock, store, call, kept, calls>>

Take(t) ==
    /\ pc[t] = "take"
    /\ cached' = cached \ {got[t]}
    /\ live' = [live EXCEPT ![t].buddy = @ \cup {got[t]}]
    /\ Unlock("buddy")
    /\ IF call[t] = "trim_for_boot"
       THEN Goto(t, "list") /\ UNCHANGED <<call, got>>
       ELSE Return(t)
    /\ UNCHANGED <<range, buddy, regions, reserved, handoff, kept, calls>>

(* set_memory with the new chunk and the allocation from it, or null. *)
Refilled(t) ==
    /\ pc[t] = "refilled"
    /\ live' = [live EXCEPT ![t].buddy = @ \cup ({got[t]} \ {NoChunk})]
    /\ Unlock("buddy")
    /\ Return(t)
    /\ UNCHANGED <<range, buddy, regions, reserved, cached, handoff, kept, calls>>

Dealloc(t) ==
    /\ pc[t] = "in_buddy" /\ call[t] = "dealloc"
    /\ cached' = cached \cup {got[t]}
    /\ live' = [live EXCEPT ![t].buddy = @ \ {got[t]}]
    /\ Unlock("buddy")
    /\ Return(t)
    /\ UNCHANGED <<range, buddy, regions, reserved, handoff, kept, calls>>

-------------------------------------------------------------------------------
(* trim_for_boot, all of it under the range lock *)

(* Not finalized, or no memory to keep: an Err.  Otherwise Vec::with_capacity *)
(* allocates, from the range list if the list of reservations is long.     *)
Keep(t) ==
    /\ pc[t] = "in_range" /\ call[t] = "trim_for_boot"
    /\ IF range = "finalized" /\ regions # {}
       THEN \E k \in regions :
                /\ Cut(k)
                /\ kept' = [kept EXCEPT ![t] = k]
                /\ \/ Goto(t, "want_buddy")
                   \/ Goto(t, "want_range")
                /\ UNCHANGED <<lock, call, got>>
       ELSE /\ Unlock("range")
            /\ Return(t)
            /\ UNCHANGED <<regions, reserved, kept>>
    /\ UNCHANGED <<range, buddy, cached, handoff, live, calls>>

(* Mutant: what was kept back is released before the list is copied. *)
List_ReleaseFirst(t) ==
    /\ pc[t] = "list"
    /\ handoff' = reserved \ {kept[t]}
    /\ regions' = {kept[t]}
    /\ reserved' = reserved \ {kept[t]}
    /\ kept' = [kept EXCEPT ![t] = NoChunk]
    /\ Unlock("range")
    /\ Return(t)
    /\ UNCHANGED <<range, buddy, cached, live, calls>>

(* The reserved list is copied, all other free memory is forgotten, and    *)
(* what was kept back becomes free again.                                  *)
List(t) ==
    /\ pc[t] = "list"
    /\ handoff' = reserved
    /\ regions' = {kept[t]}
    /\ reserved' = reserved \ {kept[t]}
    /\ kept' = [kept EXCEPT ![t] = NoChunk]
    /\ Unlock("range")
    /\ Return(t)
    /\ UNCHANGED <<range, buddy, cached, live, calls>>

-------------------------------------------------------------------------------
Step(t) ==
    \/ LockRange(t) \/ LockBuddy(t)
    \/ InitRange(t) \/ Register(t) \/ Finalize(t)
    \/ Choose(t) \/ Record(t) \/ DeallocLarge(t)
    \/ InitBuddy(t) \/ Search(t) \/ Take(t) \/ Refilled(t) \/ Dealloc(t)
    \/ Keep(t) \/ List(t)

Next == \E t \in Threads : Begin(t) \/ Step(t)

Spec == Init /\ [][Next]_vars

(* Every thread keeps running. *)
FairSpec == Spec /\ \A t \in Threads : WF_vars(Step(t))

-------------------------------------------------------------------------------
StoreTypes ==
    /\ lock \in [Locks -> Threads \cup {NoThread}]
    /\ range \in {"unset", "collecting", "finalized"}
    /\ buddy \in BOOLEAN
    /\ regions \subseteq Chunks /\ reserved \subseteq Chunks
    /\ cached \subseteq Chunks /\ handoff \subseteq Chunks
LiveTypes == live \in [Threads -> [range : SUBSET Chunks, buddy : SUBSET Chunks]]
CallTypes ==
    /\ call \in [Threads -> Calls \cup {"none"}]
    /\ pc \in [Threads -> Pcs]
    /\ got \in [Threads -> Chunks \cup {NoChunk}]
    /\ kept \in [Threads -> Chunks \cup {NoChunk}]
    /\ calls \in 0 .. MaxCalls

(* Types of the locks, the stores and the calls. *)
TypeOK == StoreTypes /\ LiveTypes /\ CallTypes

Owned(t) == live[t].range \cup live[t].buddy
(* Chunks a thread has taken and not yet passed on. *)
InTransit(t) == (IF pc[t] = "refilled" THEN {got[t]} \ {NoChunk} ELSE {})
                \cup ({kept[t]} \ {NoChunk})

(***************************************************************************)
(* The two locks keep the accounts of the two allocators together: once    *)
(* finalized, a chunk is free, in the buddy allocator's lists, with one    *)
(* caller, or in transit under a lock, never in two of these places; and   *)
(* the range list's record of what it gave out is exactly the rest         *)
(* (alloc_for_buddy_allocator, alloc, dealloc, trim_for_boot).             *)
(***************************************************************************)
ChunksAccounted ==
    range = "finalized" =>
        /\ regions \cap reserved = {}
        /\ reserved = cached \cup UNION {Owned(t) \cup InTransit(t) : t \in Threads}
        /\ \A t \in Threads :
              /\ live[t].range \cap live[t].buddy = {}
              /\ Owned(t) \cap InTransit(t) = {}
              /\ (Owned(t) \cup InTransit(t)) \cap cached = {}
        /\ \A t, u \in Threads :
              t # u => (Owned(t) \cup InTransit(t)) \cap (Owned(u) \cup InTransit(u)) = {}

(***************************************************************************)
(* trim_for_boot with other callers under way: whatever is free, cached,   *)
(* owned or in transit after it returned is in the list it returned.       *)
(***************************************************************************)
HandoffComplete == handoff # {} => regions \cup reserved \subseteq handoff

Waits(t) == CASE pc[t] = "want_range" -> {"range"}
              [] pc[t] = "want_buddy" -> {"buddy"}
              [] OTHER                -> {}

(* A set of threads that wait only for each other: they wait forever. *)
Deadlocked(S) ==
    /\ S # {}
    /\ \A t \in S : \E l \in Waits(t) : lock[l] \in S

(***************************************************************************)
(* alloc, dealloc, the registering calls and finalize take the locks in    *)
(* one order, buddy before range: they never wait for each other in a      *)
(* circle.  Every deadlock there is has init or trim_for_boot in it, which *)
(* take them the other way round.                                          *)
(***************************************************************************)
OnlyInitOrTrimDeadlocks ==
    \A S \in SUBSET Threads :
        Deadlocked(S) => \E t \in S : call[t] \in BothCalls

(***************************************************************************)
(* trim_for_boot "is intended to be called just before transferring        *)
(* control" (lib.rs:222): it returns.  It must not wait for a lock its own *)
(* caller holds.                                                           *)
(***************************************************************************)
NoSelfDeadlock == \A t \in Threads : \A l \in Waits(t) : lock[l] # t

(***************************************************************************)
(* Every call returns while the threads run, unless threads wait for each  *)
(* other: no path leaves a lock behind.                                    *)
(***************************************************************************)
CallReturns ==
    \A t \in Threads :
        pc[t] # "idle" ~> pc[t] = "idle" \/ \E S \in SUBSET Threads : Deadlocked(S)
===============================================================================
