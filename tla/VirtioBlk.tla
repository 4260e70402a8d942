------------------------------ MODULE VirtioBlk ------------------------------
(***************************************************************************)
(* The virtio block driver: file/block-device/src/virtio_blk.rs over queue *)
(* 0 of virtio/src/queue.rs, and the device at the other end of the rings. *)
(*                                                                         *)
(* A call holds the queue's SpinLock only inside allocate_descriptor,      *)
(* set_available_ring, pop_used and dequeue_used: each is one step, and    *)
(* the steps of several calls interleave.  The request header and the      *)
(* status byte live on the caller's stack, which the device addresses.     *)
(***************************************************************************)
EXTENDS Integers, Sequences, FiniteSets, SequencesExt

CONSTANTS
    Threads,   \* callers of the shared driver
    QSIZE,     \* the queue size, a power of 2
    IDX_MOD,   \* the range of the u16 ring indices (2^16)
    BLOCK,     \* block_size()
    CAPACITY,  \* num_blocks()
    LBA_MOD,   \* the range of an Lba (2^64)
    Lbas, Lens, \* the arguments of read_at and write_at
    MaxShared  \* bound: calls in a behaviour with calls that overlap

ASSUME QueueAssumption ==
    /\ QSIZE \in Nat \ {0}
    /\ IDX_MOD \in Nat
    /\ IDX_MOD > QSIZE
    /\ IDX_MOD % QSIZE = 0
ASSUME ThreadsAssumption == IsFiniteSet(Threads) /\ MaxShared \in Nat

VARIABLES
    started,   \* ghost: the calls so far, counted up to MaxShared
    shared,    \* ghost: some call has overlapped another one
    \* the driver
    ready,     \* queues.is_some()
    readonly,  \* is_readonly
    free,      \* free_list: descriptors, the next one to pop first
    avail_idx, used_idx,
    \* memory shared with the device
    desc,      \* descriptor table: [addr, more, next]; more is VIRTQ_DESC_F_NEXT
    avail,     \* avail ring; its idx field always equals avail_idx
    used, usedNo, \* used ring and its idx field
    \* the device
    device,    \* "new", "live", "failed" or "reset"
    kicked,    \* notified of the avail ring
    seen,      \* the avail index it has reached
    working,   \* the requests it has fetched and not answered, as it fetched them
    \* the calls
    pc, op, descs, status, ret

use    == <<started, shared>>
driver == <<ready, readonly>>
queue  == <<free, avail_idx, used_idx>>
rings  == <<desc, avail, used, usedNo>>
dev    == <<device, kicked, seen, working>>
calls  == <<pc, op, descs, status, ret>>
vars   == <<use, driver, queue, rings, dev, calls>>

Descs == 0 .. QSIZE - 1
Wrap(i) == i % IDX_MOD    \* wrapping_add and wrapping_sub of a u16
Slot(i) == i % QSIZE      \* idx & (size - 1)

(* What a descriptor's addr points at; a free one holds the free list's link. *)
LINK == <<"link">>
Parts(o) == IF o = "flush" THEN <<"req", "status">> ELSE <<"req", "buf", "status">>

Idle(t) == pc[t] = "idle"

(***************************************************************************)
(* A call starts: the driver is Sync, so others may be under way.  Calls   *)
(* that never overlap may go on forever, around the wrap of the indices.   *)
(***************************************************************************)
Enter ==
    LET overlap == shared \/ \E t \in Threads : ~Idle(t)
    IN  /\ overlap => started < MaxShared
        /\ started' = Min({started + 1, MaxShared})
        /\ shared' = overlap

Goto(t, from, to) ==
    /\ pc[t] = from
    /\ pc' = [pc EXCEPT ![t] = to]

(* op, status and ret are locals of the call. *)
Return(t) ==
    /\ pc' = [pc EXCEPT ![t] = "idle"]
    /\ op' = [op EXCEPT ![t] = "none"]
    /\ status' = [status EXCEPT ![t] = "RESERVED"]

(* The result is r; what the call still holds is dequeued before it returns. *)
Finish(t, r) ==
    IF descs[t] = <<>> THEN Return(t) /\ UNCHANGED ret
    ELSE /\ pc' = [pc EXCEPT ![t] = "free"]
         /\ ret' = [ret EXCEPT ![t] = r]
         /\ UNCHANGED <<op, status>>

Init ==
    /\ started = 0 /\ shared = FALSE
    /\ ready = FALSE /\ readonly = "unset"
    /\ free = <<>> /\ avail_idx = 0 /\ used_idx = 0
    /\ desc = [d \in Descs |-> [addr |-> LINK, more |-> FALSE, next |-> 0]]
    /\ avail = [i \in Descs |-> 0]
    /\ used = [i \in Descs |-> 0] /\ usedNo = 0
    /\ device = "new" /\ kicked = FALSE /\ seen = 0 /\ working = <<>>
    /\ pc = [t \in Threads |-> "idle"]
    /\ op = [t \in Threads |-> "none"]
    /\ descs = [t \in Threads |-> <<>>]
    /\ status = [t \in Threads |-> "RESERVED"]
    /\ ret = [t \in Threads |-> "none"]

-------------------------------------------------------------------------------
(* Initialisation and removal *)

(* VirtQueue::new pushes 0, 1, ...: the last descriptor is popped first. *)
FreshQueue ==
    /\ free' = [i \in 1 .. QSIZE |-> QSIZE - i]
    /\ avail_idx' = 0 /\ used_idx' = 0
    /\ desc' = [d \in Descs |-> [addr |-> LINK, more |-> FALSE, next |-> 0]]
    /\ avail' = [i \in Descs |-> 0]
    /\ used' = [i \in Descs |-> 0] /\ usedNo' = 0
    /\ seen' = 0 /\ working' = <<>> /\ kicked' = FALSE

(***************************************************************************)
(* init(&mut self): no call is under way.  The device may refuse the       *)
(* features or ask for a reset before the queue exists (refused), or ask   *)
(* for a reset once queues is Some (late).  is_readonly is set on success. *)
(***************************************************************************)
init(outcome, ro) ==
    /\ readonly = "unset"
    /\ \A t \in Threads : Idle(t)
    /\ CASE outcome = "ok" ->
              /\ FreshQueue
              /\ device' = "live" /\ ready' = TRUE /\ readonly' = ro
         [] outcome = "late" ->
              /\ FreshQueue
              /\ device' = "failed" /\ ready' = TRUE /\ UNCHANGED readonly
         [] outcome = "refused" ->
              /\ device' = "failed"
              /\ UNCHANGED <<ready, readonly, queue, rings, kicked, seen, working>>
    /\ UNCHANGED <<use, calls>>

(* uninstall(&self): the device forgets the queue, the driver does not. *)
uninstall ==
    /\ device = "live"
    /\ Enter
    /\ device' = "reset" /\ kicked' = FALSE /\ working' = <<>>
    /\ UNCHANGED <<driver, queue, rings, seen, calls>>

-------------------------------------------------------------------------------
(* read_at, write_at and flush *)

(***************************************************************************)
(* A call that fails a check returns its error and changes nothing: no     *)
(* step.  The checks of a transfer are those of read_at and write_at on    *)
(* the length, the alignment and the range, whose end is a checked_add.    *)
(***************************************************************************)
InRange(lba, len) ==
    LET end == lba + len \div BLOCK
    IN  len # 0 /\ len % BLOCK = 0 /\ end < LBA_MOD /\ end <= CAPACITY

Submit(t, o) ==
    /\ Enter
    /\ Goto(t, "idle", "alloc")
    /\ ready
    /\ op' = [op EXCEPT ![t] = o]
    /\ UNCHANGED <<driver, queue, rings, dev, descs, status, ret>>

read_at(t, lba, len) ==
    /\ InRange(lba, len)
    /\ Submit(t, "rw")

write_at(t, lba, len) ==
    /\ readonly = "no"
    /\ InRange(lba, len)
    /\ Submit(t, "rw")

flush(t) == Submit(t, "flush")

(* The part's descriptor is popped, filled and linked from the one before. *)
Chained(t, d) ==
    LET k == Len(descs[t]) + 1
        filled == [desc EXCEPT ![d] = [addr |-> <<t, Parts(op[t])[k]>>,
                                       more |-> k < Len(Parts(op[t])),
                                       next |-> @.next]]
    IN  IF k = 1 THEN filled ELSE [filled EXCEPT ![Last(descs[t])].next = d]

allocate_descriptor(t) ==
    /\ Goto(t, "alloc", IF Len(descs[t]) + 1 < Len(Parts(op[t])) THEN "alloc" ELSE "publish")
    /\ free # <<>>
    /\ LET d == Head(free)
       IN  /\ free' = Tail(free)
           /\ desc' = Chained(t, d)
           /\ descs' = [descs EXCEPT ![t] = Append(@, d)]
    /\ UNCHANGED <<use, driver, avail_idx, used_idx, avail, used, usedNo, dev, op, status, ret>>

allocate_descriptor_Empty_Leak(t) ==
    /\ pc[t] = "alloc"
    /\ free = <<>>
    /\ Return(t)
    /\ descs' = [descs EXCEPT ![t] = <<>>]
    /\ UNCHANGED <<use, driver, queue, rings, dev, ret>>

allocate_descriptor_Empty(t) ==
    /\ pc[t] = "alloc"
    /\ free = <<>>
    /\ Finish(t, "Busy")
    /\ UNCHANGED <<use, driver, queue, rings, dev, descs>>

set_available_ring_NoWrap(t) ==
    /\ Goto(t, "publish", "notify")
    /\ avail' = [avail EXCEPT ![Slot(avail_idx)] = Head(descs[t])]
    /\ avail_idx' = avail_idx + 1
    /\ UNCHANGED <<use, driver, free, used_idx, desc, used, usedNo, dev, op, descs, status, ret>>

set_available_ring(t) ==
    /\ pc[t] = "publish"
    /\ IF Wrap(avail_idx - used_idx) >= QSIZE
       THEN Finish(t, "Busy") /\ UNCHANGED <<avail, avail_idx>>
       ELSE /\ avail' = [avail EXCEPT ![Slot(avail_idx)] = Head(descs[t])]
            /\ avail_idx' = Wrap(avail_idx + 1)
            /\ Goto(t, "publish", "notify")
            /\ UNCHANGED <<op, status, ret>>
    /\ UNCHANGED <<use, driver, free, used_idx, desc, used, usedNo, dev, descs>>

queue_notify_Lost(t) ==
    /\ Goto(t, "notify", "wait")
    /\ UNCHANGED <<use, driver, queue, rings, dev, op, descs, status, ret>>

(* A device that is not live ignores the notification. *)
queue_notify(t) ==
    /\ Goto(t, "notify", "wait")
    /\ kicked' = (kicked \/ device = "live")
    /\ UNCHANGED <<use, driver, queue, rings, device, seen, working, op, descs, status, ret>>

pop_used_KeepIdx(t) ==
    /\ Wrap(usedNo - used_idx) # 0
    /\ Goto(t, "wait", "check")
    /\ UNCHANGED <<use, driver, queue, rings, dev, op, descs, status, ret>>

pop_used_Timeout(t) ==
    /\ pc[t] = "wait"
    /\ Finish(t, "Timeout")
    /\ UNCHANGED <<use, driver, queue, rings, dev, descs>>

pop_used_NextSlot(t) ==
    /\ pc[t] = "wait"
    /\ Wrap(usedNo - used_idx) # 0
    /\ used_idx' = Wrap(used_idx + 1)
    /\ IF used[Slot(used_idx + 1)] # Head(descs[t]) THEN Finish(t, "Io")
       ELSE Goto(t, "wait", "check") /\ UNCHANGED <<op, status, ret>>
    /\ UNCHANGED <<use, driver, free, avail_idx, rings, dev, descs>>

(* While nothing is used the loop spins: no step. *)
pop_used(t) ==
    LET delta == Wrap(usedNo - used_idx)
    IN  /\ pc[t] = "wait"
        /\ delta # 0
        /\ IF delta > QSIZE THEN Finish(t, "Corrupted") /\ UNCHANGED used_idx
           ELSE /\ used_idx' = Wrap(used_idx + 1)
                /\ IF used[Slot(used_idx)] # Head(descs[t]) THEN Finish(t, "Io")
                   ELSE Goto(t, "wait", "check") /\ UNCHANGED <<op, status, ret>>
        /\ UNCHANGED <<use, driver, free, avail_idx, rings, dev, descs>>

check_status(t) ==
    /\ pc[t] = "check"
    /\ Finish(t, CASE status[t] = "OK"     -> "Ok"
                   [] status[t] = "UNSUPP" -> "Unsupported"
                   [] OTHER                -> "Io")
    /\ UNCHANGED <<use, driver, queue, rings, dev, descs>>

(* The push stores the free list's link over the descriptor's addr. *)
dequeue_used(t) ==
    LET d == Head(descs[t])
    IN  /\ pc[t] = "free"
        /\ free' = <<d>> \o free
        /\ desc' = [desc EXCEPT ![d].addr = LINK]
        /\ descs' = [descs EXCEPT ![t] = Tail(@)]
        /\ IF Len(descs[t]) = 1 THEN Return(t) /\ ret' = [ret EXCEPT ![t] = "none"]
                                ELSE UNCHANGED <<pc, op, status, ret>>
        /\ UNCHANGED <<use, driver, avail_idx, used_idx, avail, used, usedNo, dev>>

-------------------------------------------------------------------------------
(* The device (external): it answers what it fetched in any order. *)

(* The addresses it finds from descriptor d on, at most a queue of them. *)
Chain(d) ==
    LET From[fuel \in Nat] ==
          [x \in Descs |->
             IF desc[x].more /\ fuel > 0 THEN <<desc[x].addr>> \o From[fuel - 1][desc[x].next]
                                         ELSE <<desc[x].addr>>]
    IN  From[QSIZE - 1][d]

DeviceFetch ==
    /\ device = "live" /\ kicked
    /\ IF seen = avail_idx THEN kicked' = FALSE /\ UNCHANGED <<seen, working>>
       ELSE LET head == avail[Slot(seen)]
            IN  /\ working' = Append(working, [head |-> head, addrs |-> Chain(head)])
                /\ seen' = Wrap(seen + 1)
                /\ UNCHANGED kicked
    /\ UNCHANGED <<use, driver, queue, rings, device, calls>>

DeviceAnswer(i, s) ==
    /\ working' = RemoveAt(working, i)
    /\ used' = [used EXCEPT ![Slot(usedNo)] = working[i].head]
    /\ usedNo' = Wrap(usedNo + 1)
    /\ status' = [t \in Threads |->
                    IF Last(working[i].addrs) = <<t, "status">> THEN s ELSE status[t]]
    /\ UNCHANGED <<use, driver, queue, desc, avail, device, kicked, seen, pc, op, descs, ret>>

-------------------------------------------------------------------------------
Progress(t) ==
    \/ allocate_descriptor(t)
    \/ allocate_descriptor_Empty(t)
    \/ set_available_ring(t)
    \/ queue_notify(t)
    \/ pop_used(t)
    \/ check_status(t)
    \/ dequeue_used(t)

Call(t) ==
    \/ \E lba \in Lbas, len \in Lens : read_at(t, lba, len) \/ write_at(t, lba, len)
    \/ flush(t)

DeviceAnswers ==
    \E i \in 1 .. Len(working), s \in {"OK", "IOERR", "UNSUPP"} : DeviceAnswer(i, s)

Next ==
    \/ \E outcome \in {"ok", "late", "refused"}, ro \in {"yes", "no"} : init(outcome, ro)
    \/ uninstall
    \/ \E t \in Threads : Call(t) \/ Progress(t)
    \/ DeviceFetch
    \/ DeviceAnswers

Spec == Init /\ [][Next]_vars

(***************************************************************************)
(* A caller keeps running, and a live device that has been notified        *)
(* fetches and answers.  Nobody has to call, to initialise or to uninstall.*)
(***************************************************************************)
FairSpec ==
    /\ Spec
    /\ \A t \in Threads : WF_vars(Progress(t))
    /\ WF_vars(DeviceFetch)
    /\ WF_vars(DeviceAnswers)

-------------------------------------------------------------------------------
Waiting == {t \in Threads : pc[t] \in {"notify", "wait"}}
Unseen == {Wrap(seen + i) : i \in 0 .. Wrap(avail_idx - seen) - 1}

(* Types: a call holds the descriptors of the parts it has filled. *)
TypeOK ==
    /\ ready \in BOOLEAN /\ readonly \in {"unset", "yes", "no"}
    /\ free \in Seq(Descs)
    /\ {avail_idx, used_idx, usedNo, seen} \subseteq 0 .. IDX_MOD - 1
    /\ device \in {"new", "live", "failed", "reset"}
    /\ \A d \in Descs : desc[d].next \in Descs /\ avail[d] \in Descs /\ used[d] \in Descs
    /\ \A t \in Threads :
          /\ descs[t] \in Seq(Descs)
          /\ pc[t] \in {"publish", "notify", "wait", "check"} =>
                Len(descs[t]) = Len(Parts(op[t]))

(***************************************************************************)
(* Every path through submit_rw and flush gives back what it allocated,    *)
(* exactly once: a descriptor is on the free list or held by one call.     *)
(***************************************************************************)
DescriptorsConserved ==
    ready =>
      /\ IsInjective(free)
      /\ \A t \in Threads : IsInjective(descs[t]) /\ ToSet(free) \cap ToSet(descs[t]) = {}
      /\ \A t, u \in Threads : t # u => ToSet(descs[t]) \cap ToSet(descs[u]) = {}
      /\ ToSet(free) \cup UNION {ToSet(descs[t]) : t \in Threads} = Descs

(***************************************************************************)
(* set_available_ring and pop_used: across wrap-around the indices count   *)
(* one entry per waiting call, split between the avail ring, the device    *)
(* and the used ring, so neither ring overwrites an entry nobody has read  *)
(* and QueueCorrupted is never reported of a device that behaves.          *)
(***************************************************************************)
RingsBalanced ==
    /\ Wrap(avail_idx - used_idx) = Cardinality(Waiting)
    /\ device = "live" =>
         Cardinality(Waiting) = Wrap(avail_idx - seen) + Len(working) + Wrap(usedNo - used_idx)

(***************************************************************************)
(* "The API is synchronous and thread-safe" (block-device-api/src/         *)
(* lib.rs:6): what the device is to fetch, or works on, is the request of  *)
(* a call that has not returned, header, data and status in this order.    *)
(***************************************************************************)
Synchronous ==
    device = "live" =>
      /\ \A i \in Unseen : \E t \in Threads :
            descs[t] # <<>> /\ avail[Slot(i)] = Head(descs[t])
      /\ \A i \in 1 .. Len(working) : \E t \in Threads :
            /\ Len(descs[t]) = Len(Parts(op[t]))
            /\ working[i].head = Head(descs[t])
            /\ working[i].addrs = [k \in 1 .. Len(descs[t]) |-> <<t, Parts(op[t])[k]>>]

(***************************************************************************)
(* The same for calls that never overlap, as the boot loader's do: no    *)
(* error path lets a call return while the device owns its descriptors.    *)
(***************************************************************************)
SerialSynchronous == ~shared => Synchronous

(***************************************************************************)
(* pop_used and the status check: a call that held its descriptors until   *)
(* the device answered reports Ok exactly when the device did ("On error,  *)
(* no data is considered transferred", block-device-api/src/lib.rs:57).    *)
(***************************************************************************)
ResultsTrue ==
    \A t \in Threads :
      ~shared /\ pc[t] = "free" => (ret[t] = "Ok" <=> status[t] = "OK")

(***************************************************************************)
(* The spin loop of submit_rw and flush has no timeout: a call ends when   *)
(* the device answers, unless the device is not (or no longer) live.       *)
(***************************************************************************)
CallReturns ==
    \A t \in Threads :
      (~Idle(t) /\ device = "live") ~> (Idle(t) \/ device # "live" \/ shared)
===============================================================================
