---------------------------- MODULE VirtioBlkProofs ----------------------------
(***************************************************************************)
(* Proofs about VirtioBlk for every number of callers, queue size and      *)
(* index range.                                                            *)
(***************************************************************************)
EXTENDS VirtioBlk, NaturalRecursion, SequenceTheorems, FiniteSetTheorems, TLAPS

-------------------------------------------------------------------------------
(* Wrapping indices *)

(* An index less than one lap off is brought back by one lap. *)
LEMMA WrapLap ==
    ASSUME NEW x \in Int, -IDX_MOD <= x, x < 2 * IDX_MOD
    PROVE  Wrap(x) = IF x < 0 THEN x + IDX_MOD ELSE IF x < IDX_MOD THEN x ELSE x - IDX_MOD
  <1> DEFINE q == x \div IDX_MOD
             r == x % IDX_MOD
  <1>a. IDX_MOD \in Nat /\ IDX_MOD > 0
    BY QueueAssumption
  <1>1. q \in Int /\ r \in 0 .. IDX_MOD - 1 /\ x = IDX_MOD * q + r
    BY <1>a
  <1> HIDE DEF q, r
  <1>2. q < 2
    <2> SUFFICES ASSUME q >= 2 PROVE FALSE
      BY <1>1
    <2>1. IDX_MOD * q >= IDX_MOD * 2
      BY <1>a, <1>1
    <2> QED BY <2>1, <1>1, <1>a
  <1>3. q >= -1
    <2> SUFFICES ASSUME q <= -2 PROVE FALSE
      BY <1>1
    <2>1. IDX_MOD * q <= IDX_MOD * (-2)
      BY <1>a, <1>1
    <2> QED BY <2>1, <1>1, <1>a
  <1>4. q = -1 \/ q = 0 \/ q = 1
    BY <1>1, <1>2, <1>3
  <1>5. r = IF x < 0 THEN x + IDX_MOD ELSE IF x < IDX_MOD THEN x ELSE x - IDX_MOD
    <2>1. CASE q = -1
      BY <2>1, <1>1, <1>a
    <2>2. CASE q = 0
      BY <2>2, <1>1, <1>a
    <2>3. CASE q = 1
      BY <2>3, <1>1, <1>a
    <2> QED BY <2>1, <2>2, <2>3, <1>4
  <1> QED BY <1>5 DEF Wrap, r

Indices == 0 .. IDX_MOD - 1

LEMMA WrapIndex ==
    /\ \A i \in Indices : Wrap(i + 1) \in Indices /\ Slot(i) \in Descs
    /\ \A i, j \in Indices : Wrap(i - j) \in Indices /\ (Wrap(i - j) = 0 <=> i = j)
    /\ \A i \in Indices : Wrap(i - i) = 0
  <1>a. IDX_MOD \in Nat /\ IDX_MOD > 0 /\ QSIZE \in Nat \ {0}
    BY QueueAssumption
  <1>1. ASSUME NEW i \in Indices PROVE Wrap(i + 1) \in Indices /\ Slot(i) \in Descs
    BY <1>a DEF Wrap, Slot, Indices, Descs
  <1>2. ASSUME NEW i \in Indices, NEW j \in Indices
        PROVE  Wrap(i - j) \in Indices /\ (Wrap(i - j) = 0 <=> i = j)
    <2>1. i - j \in Int /\ -IDX_MOD <= i - j /\ i - j < 2 * IDX_MOD
      BY <1>a DEF Indices
    <2> QED BY <2>1, <1>a, WrapLap DEF Indices
  <1> QED BY <1>1, <1>2

(* Advancing the index ahead adds one entry between the two. *)
LEMMA WrapAhead ==
    ASSUME NEW i \in Indices, NEW j \in Indices, Wrap(i - j) < IDX_MOD - 1
    PROVE  Wrap(Wrap(i + 1) - j) = Wrap(i - j) + 1
  <1>a. IDX_MOD \in Nat /\ IDX_MOD > 0
    BY QueueAssumption
  <1>1. Wrap(i + 1) = IF i + 1 < IDX_MOD THEN i + 1 ELSE 0
    BY <1>a, WrapLap DEF Indices
  <1>2. Wrap(i - j) = IF i < j THEN i - j + IDX_MOD ELSE i - j
    BY <1>a, WrapLap DEF Indices
  <1>3. \A k \in Indices : Wrap(k - j) = IF k < j THEN k - j + IDX_MOD ELSE k - j
    BY <1>a, WrapLap DEF Indices
  <1>4. CASE i + 1 < IDX_MOD
    <2>1. i + 1 \in Indices /\ Wrap(i + 1) = i + 1
      BY <1>1, <1>4, <1>a DEF Indices
    <2> QED BY <2>1, <1>2, <1>3, <1>a DEF Indices
  <1>5. CASE i + 1 = IDX_MOD
    <2>1. 0 \in Indices /\ Wrap(i + 1) = 0 /\ j # 0
      BY <1>1, <1>2, <1>5, <1>a DEF Indices
    <2> QED BY <2>1, <1>2, <1>3, <1>5, <1>a DEF Indices
  <1> QED BY <1>4, <1>5, <1>a DEF Indices

(* Advancing the index behind takes one entry away. *)
LEMMA WrapBehind ==
    ASSUME NEW i \in Indices, NEW j \in Indices, Wrap(i - j) # 0
    PROVE  Wrap(i - Wrap(j + 1)) = Wrap(i - j) - 1
  <1>a. IDX_MOD \in Nat /\ IDX_MOD > 0
    BY QueueAssumption
  <1>1. Wrap(j + 1) = IF j + 1 < IDX_MOD THEN j + 1 ELSE 0
    BY <1>a, WrapLap DEF Indices
  <1>2. \A k \in Indices : Wrap(i - k) = IF i < k THEN i - k + IDX_MOD ELSE i - k
    BY <1>a, WrapLap DEF Indices
  <1>3. Wrap(j + 1) \in Indices
    BY WrapIndex
  <1> QED BY <1>1, <1>2, <1>3, <1>a DEF Indices

-------------------------------------------------------------------------------
(* Sequences without repetition *)

LEMMA TakeFirst ==
    ASSUME NEW S, NEW s \in Seq(S), s # <<>>, IsInjective(s)
    PROVE  /\ Head(s) \in S /\ Head(s) \in ToSet(s)
           /\ Tail(s) \in Seq(S) /\ Len(Tail(s)) = Len(s) - 1
           /\ IsInjective(Tail(s)) /\ ToSet(Tail(s)) = ToSet(s) \ {Head(s)}
  <1>1. /\ Len(s) \in Nat \ {0} /\ DOMAIN s = 1 .. Len(s) /\ Head(s) = s[1]
    BY EmptySeq, LenProperties
  <1>2. /\ Head(s) \in S /\ Tail(s) \in Seq(S) /\ Len(Tail(s)) = Len(s) - 1
        /\ \A i \in 1 .. Len(Tail(s)) : Tail(s)[i] = s[i + 1]
    BY HeadTailProperties
  <1>3. DOMAIN Tail(s) = 1 .. Len(s) - 1
    BY <1>2, LenProperties
  <1>4. IsInjective(Tail(s))
    BY <1>1, <1>2, <1>3 DEF IsInjective
  <1>5. ASSUME NEW x \in ToSet(s), x # Head(s) PROVE x \in ToSet(Tail(s))
    <2>1. PICK i \in 1 .. Len(s) : s[i] = x
      BY <1>1 DEF ToSet
    <2>2. i - 1 \in 1 .. Len(s) - 1 /\ Tail(s)[i - 1] = x
      BY <2>1, <1>1, <1>2, <1>5
    <2> QED BY <2>2, <1>3 DEF ToSet
  <1>6. ASSUME NEW x \in ToSet(Tail(s)) PROVE x \in ToSet(s) /\ x # Head(s)
    <2>1. PICK i \in 1 .. Len(s) - 1 : Tail(s)[i] = x
      BY <1>3 DEF ToSet
    <2>2. s[i + 1] = x /\ i + 1 \in 1 .. Len(s) /\ i + 1 # 1
      BY <2>1, <1>1, <1>2
    <2> QED BY <2>2, <1>1 DEF ToSet, IsInjective
  <1>7. Head(s) \in ToSet(s)
    BY <1>1 DEF ToSet
  <1> QED BY <1>2, <1>4, <1>5, <1>6, <1>7

LEMMA AddLast ==
    ASSUME NEW S, NEW s \in Seq(S), NEW d \in S, d \notin ToSet(s), IsInjective(s)
    PROVE  /\ Append(s, d) \in Seq(S) /\ Len(Append(s, d)) = Len(s) + 1
           /\ IsInjective(Append(s, d)) /\ ToSet(Append(s, d)) = ToSet(s) \cup {d}
  <1>1. /\ Append(s, d) \in Seq(S) /\ Len(Append(s, d)) = Len(s) + 1
        /\ \A i \in 1 .. Len(s) : Append(s, d)[i] = s[i]
        /\ Append(s, d)[Len(s) + 1] = d
    BY AppendProperties
  <1>2. /\ Len(s) \in Nat /\ DOMAIN s = 1 .. Len(s)
        /\ DOMAIN Append(s, d) = 1 .. Len(s) + 1
    BY <1>1, LenProperties
  <1>3. \A i \in 1 .. Len(s) : s[i] # d
    BY <1>2 DEF ToSet
  <1>4. IsInjective(Append(s, d))
    BY <1>1, <1>2, <1>3 DEF IsInjective
  <1>5. ToSet(Append(s, d)) = ToSet(s) \cup {d}
    BY <1>1, <1>2 DEF ToSet
  <1> QED BY <1>1, <1>4, <1>5

LEMMA AddFirst ==
    ASSUME NEW S, NEW s \in Seq(S), NEW d \in S, d \notin ToSet(s), IsInjective(s)
    PROVE  /\ <<d>> \o s \in Seq(S) /\ IsInjective(<<d>> \o s)
           /\ ToSet(<<d>> \o s) = ToSet(s) \cup {d}
  <1>a. <<d>> \in Seq(S) /\ Len(<<d>>) = 1 /\ <<d>>[1] = d
    OBVIOUS
  <1>b. Len(s) \in Nat /\ DOMAIN s = 1 .. Len(s)
    BY LenProperties
  <1>1. /\ <<d>> \o s \in Seq(S) /\ Len(<<d>> \o s) = 1 + Len(s)
        /\ \A i \in 1 .. 1 + Len(s) : (<<d>> \o s)[i] = IF i = 1 THEN d ELSE s[i - 1]
    <2>1. /\ <<d>> \o s \in Seq(S) /\ Len(<<d>> \o s) = 1 + Len(s)
          /\ \A i \in 1 .. 1 + Len(s) : (<<d>> \o s)[i] = IF i <= 1 THEN <<d>>[i] ELSE s[i - 1]
      BY <1>a, <1>b, ConcatProperties
    <2> QED BY <2>1, <1>a, <1>b
  <1>2. DOMAIN (<<d>> \o s) = 1 .. 1 + Len(s)
    BY <1>1, LenProperties
  <1>3. \A i \in 1 .. Len(s) : s[i] # d
    BY <1>b DEF ToSet
  <1> HIDE DEF IsInjective, ToSet
  <1> DEFINE c == <<d>> \o s
  <1>4. /\ DOMAIN c = 1 .. 1 + Len(s)
        /\ \A i \in 1 .. 1 + Len(s) : c[i] = IF i = 1 THEN d ELSE s[i - 1]
    BY <1>1, <1>2
  <1> HIDE DEF c
  <1>5. IsInjective(c)
    BY <1>3, <1>4, <1>b DEF IsInjective
  <1>6. ASSUME NEW x \in ToSet(c) PROVE x \in ToSet(s) \cup {d}
    BY <1>4, <1>6, <1>b DEF ToSet
  <1>7. ASSUME NEW x \in ToSet(s) \cup {d} PROVE x \in ToSet(c)
    <2>1. CASE x = d
      BY <2>1, <1>4, <1>b DEF ToSet
    <2>2. CASE x \in ToSet(s)
      <3>1. PICK i \in 1 .. Len(s) : s[i] = x
        BY <2>2, <1>b DEF ToSet
      <3>2. i + 1 \in 1 .. 1 + Len(s) /\ c[i + 1] = x
        BY <3>1, <1>4, <1>b
      <3> QED BY <3>2, <1>4 DEF ToSet
    <2> QED BY <2>1, <2>2, <1>7
  <1> QED BY <1>1, <1>5, <1>6, <1>7 DEF c

-------------------------------------------------------------------------------
(* The inductive invariant *)

Pcs == {"idle", "alloc", "publish", "notify", "wait", "check", "free"}
Entries == [addr : {LINK} \cup (Threads \X {"req", "buf", "status"}), more : BOOLEAN,
            next : Descs]

QueueTypes ==
    /\ ready \in BOOLEAN /\ readonly \in {"unset", "yes", "no"}
    /\ free \in Seq(Descs)
    /\ avail_idx \in Indices /\ used_idx \in Indices /\ usedNo \in Indices /\ seen \in Indices
RingTypes ==
    /\ desc \in [Descs -> Entries]
    /\ avail \in [Descs -> Descs] /\ used \in [Descs -> Descs]
DeviceTypes ==
    /\ device \in {"new", "live", "failed", "reset"}
    /\ \E S : working \in Seq(S) /\ \A r \in S : r.head \in Descs
CallTypes ==
    /\ pc \in [Threads -> Pcs]
    /\ op \in [Threads -> {"none", "rw", "flush"}]
    /\ descs \in [Threads -> Seq(Descs)]

(* What a call holds where it stands. *)
Phase(t) ==
    /\ pc[t] = "idle" => descs[t] = <<>>
    /\ pc[t] = "alloc" => Len(descs[t]) < Len(Parts(op[t]))
    /\ pc[t] \in {"publish", "notify", "wait", "check"} => Len(descs[t]) = Len(Parts(op[t]))
    /\ pc[t] = "free" => descs[t] # <<>>

(***************************************************************************)
(* The rings hold no more entries than slots, and a device that is not (or *)
(* no longer) live has left no more answers than there are waiting calls.  *)
(***************************************************************************)
Unread == Wrap(usedNo - used_idx)
RingInv ==
    /\ RingsBalanced
    /\ Cardinality(Waiting) <= QSIZE
    /\ Unread <= Cardinality(Waiting)
    /\ device # "live" => working = <<>>
    /\ readonly = "unset" => device # "live"

Inv ==
    /\ QueueTypes /\ RingTypes /\ DeviceTypes /\ CallTypes
    /\ \A t \in Threads : Phase(t)
    /\ DescriptorsConserved /\ RingInv

LEMMA PartsLen ==
    \A o : Len(Parts(o)) \in {2, 3} /\ \A k \in 1 .. Len(Parts(o)) :
               Parts(o)[k] \in {"req", "buf", "status"}
  BY DEF Parts

LEMMA Idling == (\A t \in Threads : Idle(t)) => Waiting = {} /\ Cardinality(Waiting) = 0
  BY FS_EmptySet DEF Idle, Waiting

LEMMA WaitingFinite == IsFiniteSet(Waiting) /\ Cardinality(Waiting) \in Nat
  BY ThreadsAssumption, FS_Subset, FS_CardinalityType DEF Waiting

LEMMA InvTypes == Inv => TypeOK
  <1> SUFFICES ASSUME Inv PROVE TypeOK
    OBVIOUS
  <1>1. \A d \in Descs : desc[d].next \in Descs /\ avail[d] \in Descs /\ used[d] \in Descs
    BY DEF Inv, RingTypes, Entries
  <1>2. \A t \in Threads :
          /\ descs[t] \in Seq(Descs)
          /\ pc[t] \in {"publish", "notify", "wait", "check"} =>
                Len(descs[t]) = Len(Parts(op[t]))
    BY DEF Inv, CallTypes, Phase
  <1> QED BY <1>1, <1>2 DEF Inv, TypeOK, QueueTypes, DeviceTypes, Indices

(* No queue, nobody calls. *)
LEMMA InitInv == Init => Inv
  <1> SUFFICES ASSUME Init PROVE Inv
    OBVIOUS
  <1>a. QSIZE \in Nat \ {0} /\ IDX_MOD \in Nat \ {0}
    BY QueueAssumption
  <1>b. 0 \in Indices /\ 0 \in Descs
    BY <1>a DEF Indices, Descs
  <1>1. QueueTypes
    <2>1. free \in Seq(Descs)
      BY EmptySeq DEF Init
    <2> QED BY <1>b, <2>1 DEF Init, QueueTypes
  <1>2. RingTypes
    BY <1>b DEF Init, RingTypes, Entries
  <1>3. DeviceTypes
    <2>1. working \in Seq({}) /\ device = "new"
      BY EmptySeq DEF Init
    <2>2. \E S : working \in Seq(S) /\ \A r \in S : r.head \in Descs
      BY <2>1
    <2> QED BY <2>1, <2>2 DEF DeviceTypes
  <1>4. CallTypes /\ \A t \in Threads : Phase(t)
    BY DEF Init, CallTypes, Pcs, Phase
  <1>5. DescriptorsConserved
    BY DEF Init, DescriptorsConserved
  <1>6. RingInv
    <2>1. Cardinality(Waiting) = 0
      BY Idling DEF Init, Idle
    <2>2. Wrap(0 - 0) = 0
      BY <1>b, WrapIndex
    <2> QED BY <1>a, <2>1, <2>2 DEF Init, RingInv, RingsBalanced, Unread
  <1> QED BY <1>1, <1>2, <1>3, <1>4, <1>5, <1>6 DEF Inv

-------------------------------------------------------------------------------
(* Types after a step *)

LEMMA Calls ==
    ASSUME NEW t \in Threads, Call(t)
    PROVE  \E o \in {"rw", "flush"} : Submit(t, o)
  BY DEF Call, read_at, write_at, flush

(* A call that finishes goes on to free what it holds. *)
LEMMA Finishes ==
    ASSUME CallTypes, NEW t \in Threads, NEW r, Finish(t, r)
    PROVE  /\ pc' = [pc EXCEPT ![t] = IF descs[t] = <<>> THEN "idle" ELSE "free"]
           /\ op' \in [Threads -> {"none", "rw", "flush"}]
           /\ \A u \in Threads \ {t} : op'[u] = op[u]
           /\ descs[t] # <<>> => op' = op
  BY DEF Finish, Return, CallTypes

LEMMA CallTypeStep ==
    ASSUME Inv, Next
    PROVE  CallTypes'
  <1>a. QueueTypes /\ CallTypes /\ DescriptorsConserved
    BY DEF Inv
  <1>1. CASE \/ \E outcome \in {"ok", "late", "refused"}, ro \in {"yes", "no"} : init(outcome, ro)
             \/ uninstall \/ DeviceFetch \/ DeviceAnswers
    <2>1. UNCHANGED <<pc, op, descs>>
      BY <1>1 DEF init, uninstall, DeviceFetch, DeviceAnswers, DeviceAnswer, calls
    <2> QED BY <1>a, <2>1 DEF CallTypes
  <1>2. ASSUME NEW t \in Threads, Call(t) PROVE CallTypes'
    BY <1>2, <1>a, Calls DEF Submit, Goto, CallTypes, Pcs
  <1>3. ASSUME NEW t \in Threads, allocate_descriptor(t) PROVE CallTypes'
    <2>1. descs[t] \in Seq(Descs) /\ Head(free) \in Descs
      BY <1>3, <1>a, HeadTailProperties DEF allocate_descriptor, CallTypes, QueueTypes
    <2>2. Append(descs[t], Head(free)) \in Seq(Descs)
      BY <2>1, AppendProperties
    <2>3. /\ descs' = [descs EXCEPT ![t] = Append(descs[t], Head(free))] /\ op' = op
          /\ \E p \in Pcs : pc' = [pc EXCEPT ![t] = p]
      BY <1>3 DEF allocate_descriptor, Goto, Pcs
    <2> QED BY <2>2, <2>3, <1>a DEF CallTypes
  <1>4. ASSUME NEW t \in Threads,
               allocate_descriptor_Empty(t) \/ set_available_ring(t) \/ queue_notify(t)
               \/ pop_used(t) \/ check_status(t)
        PROVE  CallTypes'
    <2>1. descs' = descs
      BY <1>4 DEF allocate_descriptor_Empty, set_available_ring, queue_notify, pop_used,
         check_status
    <2>2. CASE \E r : Finish(t, r)
      BY <2>1, <2>2, <1>a, Finishes DEF CallTypes, Pcs
    <2>3. CASE op' = op /\ \E p \in Pcs : pc' = [pc EXCEPT ![t] = p]
      BY <2>1, <2>3, <1>a DEF CallTypes
    <2> QED
      BY <2>2, <2>3, <1>4 DEF allocate_descriptor_Empty, set_available_ring, queue_notify,
         pop_used, check_status, Goto, Pcs
  <1>5. ASSUME NEW t \in Threads, dequeue_used(t) PROVE CallTypes'
    <2>1. descs[t] \in Seq(Descs) /\ descs[t] # <<>>
      BY <1>5, <1>a DEF dequeue_used, CallTypes, Inv, Phase
    <2>2. Tail(descs[t]) \in Seq(Descs)
      BY <2>1, HeadTailProperties
    <2> QED BY <2>2, <1>5, <1>a DEF dequeue_used, Return, CallTypes, Pcs
  <1> QED BY <1>1, <1>2, <1>3, <1>4, <1>5 DEF Next, Progress

(* The queue init makes: every descriptor is free, once. *)
LEMMA Fresh ==
    ASSUME FreshQueue
    PROVE  /\ free' \in Seq(Descs) /\ IsInjective(free') /\ ToSet(free') = Descs
           /\ avail_idx' = 0 /\ used_idx' = 0 /\ usedNo' = 0 /\ seen' = 0 /\ working' = <<>>
           /\ RingTypes'
  <1>a. QSIZE \in Nat \ {0}
    BY QueueAssumption
  <1> DEFINE f == [i \in 1 .. QSIZE |-> QSIZE - i]
  <1>1. DOMAIN f = 1 .. QSIZE /\ \A i \in 1 .. QSIZE : f[i] = QSIZE - i /\ f[i] \in Descs
    BY <1>a DEF Descs
  <1>2. f \in Seq(Descs)
    <2>1. f \in [1 .. QSIZE -> Descs]
      BY <1>1
    <2> QED BY <2>1, <1>a, SeqDef
  <1> HIDE DEF f
  <1>3. IsInjective(f)
    BY <1>1, <1>a DEF IsInjective
  <1>4. ASSUME NEW d \in Descs PROVE d \in ToSet(f)
    <2>1. QSIZE - d \in 1 .. QSIZE /\ f[QSIZE - d] = d
      BY <1>1, <1>a DEF Descs
    <2> QED BY <2>1, <1>1 DEF ToSet
  <1>5. ToSet(f) = Descs
    BY <1>4, <1>1 DEF ToSet
  <1>6. free' = f
    BY DEF FreshQueue, f
  <1>7. RingTypes'
    BY <1>a DEF FreshQueue, RingTypes, Entries, Descs
  <1> QED BY <1>2, <1>3, <1>5, <1>6, <1>7 DEF FreshQueue

LEMMA QueueTypeStep ==
    ASSUME Inv, Next
    PROVE  QueueTypes'
  <1>a. QueueTypes /\ CallTypes /\ \A t \in Threads : Phase(t)
    BY DEF Inv
  <1>b. 0 \in Indices
    BY QueueAssumption DEF Indices
  <1>1. ASSUME NEW outcome \in {"ok", "late", "refused"}, NEW ro \in {"yes", "no"},
               init(outcome, ro)
        PROVE  QueueTypes'
    <2>1. CASE outcome = "refused"
      BY <2>1, <1>1, <1>a DEF init, queue, rings, QueueTypes
    <2>2. CASE outcome # "refused"
      <3>1. FreshQueue /\ ready' = TRUE /\ readonly' \in {readonly, ro}
        BY <2>2, <1>1 DEF init
      <3> QED BY <3>1, <1>a, <1>b, Fresh DEF QueueTypes
    <2> QED BY <2>1, <2>2
  <1>2. CASE uninstall \/ \E t \in Threads : Call(t)
    <2>1. UNCHANGED <<ready, readonly, free, avail_idx, used_idx, usedNo, seen>>
      BY <1>2, Calls DEF uninstall, Submit, driver, queue, rings, dev
    <2> QED BY <2>1, <1>a DEF QueueTypes
  <1>3. ASSUME NEW t \in Threads, allocate_descriptor(t) PROVE QueueTypes'
    <2>1. Tail(free) \in Seq(Descs)
      BY <1>3, <1>a, HeadTailProperties DEF allocate_descriptor, QueueTypes
    <2> QED BY <2>1, <1>3, <1>a DEF allocate_descriptor, QueueTypes, driver, dev
  <1>4. ASSUME NEW t \in Threads,
               allocate_descriptor_Empty(t) \/ queue_notify(t) \/ check_status(t)
        PROVE  QueueTypes'
    <2>1. UNCHANGED <<ready, readonly, free, avail_idx, used_idx, usedNo, seen>>
      BY <1>4 DEF allocate_descriptor_Empty, queue_notify, check_status, driver, queue, rings, dev
    <2> QED BY <2>1, <1>a DEF QueueTypes
  <1>5. ASSUME NEW t \in Threads, set_available_ring(t) PROVE QueueTypes'
    <2>1. /\ UNCHANGED <<ready, readonly, free, used_idx, usedNo, seen>>
          /\ avail_idx' \in {avail_idx, Wrap(avail_idx + 1)}
      BY <1>5 DEF set_available_ring, driver, dev
    <2> QED BY <2>1, <1>a, WrapIndex DEF QueueTypes
  <1>6. ASSUME NEW t \in Threads, pop_used(t) PROVE QueueTypes'
    <2>1. /\ UNCHANGED <<ready, readonly, free, avail_idx, usedNo, seen>>
          /\ used_idx' \in {used_idx, Wrap(used_idx + 1)}
      BY <1>6 DEF pop_used, driver, rings, dev
    <2> QED BY <2>1, <1>a, WrapIndex DEF QueueTypes
  <1>7. ASSUME NEW t \in Threads, dequeue_used(t) PROVE QueueTypes'
    <2>1. descs[t] \in Seq(Descs) /\ descs[t] # <<>>
      BY <1>7, <1>a DEF dequeue_used, CallTypes, Phase
    <2>2. <<Head(descs[t])>> \in Seq(Descs)
      BY <2>1, HeadTailProperties
    <2>3. <<Head(descs[t])>> \o free \in Seq(Descs)
      BY <2>2, <1>a, ConcatProperties DEF QueueTypes
    <2> QED BY <2>3, <1>7, <1>a DEF dequeue_used, QueueTypes, driver, dev
  <1>8. CASE DeviceFetch \/ DeviceAnswers
    <2>1. /\ UNCHANGED <<ready, readonly, free, avail_idx, used_idx>>
          /\ seen' \in {seen, Wrap(seen + 1)} /\ usedNo' \in {usedNo, Wrap(usedNo + 1)}
      BY <1>8 DEF DeviceFetch, DeviceAnswers, DeviceAnswer, driver, queue, rings
    <2> QED BY <2>1, <1>a, WrapIndex DEF QueueTypes
  <1> QED BY <1>1, <1>2, <1>3, <1>4, <1>5, <1>6, <1>7, <1>8 DEF Next, Progress

LEMMA RingTypeStep ==
    ASSUME Inv, Next
    PROVE  RingTypes'
  <1>a. QueueTypes /\ RingTypes /\ DeviceTypes /\ CallTypes /\ \A t \in Threads : Phase(t)
    BY DEF Inv
  <1>1. CASE UNCHANGED rings
    BY <1>1, <1>a DEF rings, RingTypes
  <1>2. CASE FreshQueue
    BY <1>2, Fresh
  <1>3. ASSUME NEW t \in Threads, allocate_descriptor(t) PROVE RingTypes'
    <2> DEFINE d == Head(free)
               k == Len(descs[t]) + 1
               e == [addr |-> <<t, Parts(op[t])[k]>>, more |-> k < Len(Parts(op[t])),
                     next |-> desc[d].next]
               filled == [desc EXCEPT ![d] = e]
    <2>1. d \in Descs
      BY <1>3, <1>a, HeadTailProperties DEF allocate_descriptor, QueueTypes
    <2>2. k \in 1 .. Len(Parts(op[t]))
      <3>1. descs[t] \in Seq(Descs) /\ Len(descs[t]) < Len(Parts(op[t]))
        BY <1>3, <1>a DEF allocate_descriptor, Goto, CallTypes, Phase
      <3>2. Len(descs[t]) \in Nat /\ Len(Parts(op[t])) \in Nat
        BY <3>1, LenProperties, PartsLen
      <3> QED BY <3>1, <3>2
    <2>3. e \in Entries
      <3>1. Parts(op[t])[k] \in {"req", "buf", "status"}
        BY <2>2, PartsLen
      <3>2. desc[d].next \in Descs
        BY <2>1, <1>a DEF RingTypes, Entries
      <3> QED BY <3>1, <3>2 DEF Entries
    <2>4. filled \in [Descs -> Entries]
      BY <2>1, <2>3, <1>a DEF RingTypes
    <2>5. desc' = IF k = 1 THEN filled ELSE [filled EXCEPT ![Last(descs[t])].next = d]
      BY <1>3 DEF allocate_descriptor, Chained
    <2>6. k # 1 => Last(descs[t]) \in Descs
      BY <1>a, ElementOfSeq, LenProperties DEF CallTypes, Last
    <2> HIDE DEF d, k, filled
    <2>7. desc' \in [Descs -> Entries]
      <3>1. CASE k = 1
        BY <3>1, <2>4, <2>5
      <3>2. CASE k # 1
        BY <3>2, <2>1, <2>4, <2>5, <2>6 DEF Entries
      <3> QED BY <3>1, <3>2
    <2> QED BY <2>7, <1>3, <1>a DEF allocate_descriptor, RingTypes
  <1>4. ASSUME NEW t \in Threads, set_available_ring(t) PROVE RingTypes'
    <2>1. Slot(avail_idx) \in Descs
      BY <1>a, WrapIndex DEF QueueTypes
    <2>2. descs[t] \in Seq(Descs) /\ descs[t] # <<>>
      <3>1. descs[t] \in Seq(Descs) /\ Len(descs[t]) = Len(Parts(op[t]))
        BY <1>4, <1>a DEF set_available_ring, CallTypes, Phase
      <3>2. Len(Parts(op[t])) \in {2, 3}
        BY PartsLen
      <3> QED BY <3>1, <3>2
    <2>3. Head(descs[t]) \in Descs
      BY <2>2, HeadTailProperties
    <2> QED BY <2>1, <2>3, <1>4, <1>a DEF set_available_ring, RingTypes
  <1>5. ASSUME NEW t \in Threads, dequeue_used(t) PROVE RingTypes'
    <2>1. Head(descs[t]) \in Descs
      BY <1>5, <1>a, HeadTailProperties DEF dequeue_used, CallTypes, Phase
    <2> QED BY <2>1, <1>5, <1>a DEF dequeue_used, RingTypes, Entries
  <1>6. ASSUME NEW i \in 1 .. Len(working), NEW s, DeviceAnswer(i, s) PROVE RingTypes'
    <2>1. working[i].head \in Descs
      BY <1>a, ElementOfSeq DEF DeviceTypes
    <2> QED BY <2>1, <1>6, <1>a DEF DeviceAnswer, RingTypes
  <1>7. ASSUME NEW t \in Threads, Call(t) PROVE UNCHANGED rings
    BY <1>7, Calls DEF Submit
  <1>8. ASSUME NEW outcome \in {"ok", "late", "refused"}, NEW ro \in {"yes", "no"},
               init(outcome, ro)
        PROVE  FreshQueue \/ UNCHANGED rings
    BY <1>8 DEF init
  <1> QED
    BY <1>1, <1>2, <1>3, <1>4, <1>5, <1>6, <1>7, <1>8
    DEF Next, Progress, DeviceAnswers, uninstall, allocate_descriptor_Empty, queue_notify,
        pop_used, check_status, DeviceFetch

LEMMA Removed ==
    ASSUME NEW S, NEW s \in Seq(S), NEW i \in 1 .. Len(s)
    PROVE  RemoveAt(s, i) \in Seq(S) /\ Len(RemoveAt(s, i)) = Len(s) - 1
  <1>a. Len(s) \in Nat /\ \A j \in 1 .. Len(s) : s[j] \in S
    BY LenProperties, ElementOfSeq
  <1>1. SubSeq(s, 1, i - 1) \in Seq(S) /\ Len(SubSeq(s, 1, i - 1)) = i - 1
    <2>1. \A j \in 1 .. i - 1 : s[j] \in S
      BY <1>a
    <2>2. /\ SubSeq(s, 1, i - 1) \in Seq(S)
          /\ Len(SubSeq(s, 1, i - 1)) = IF 1 <= i - 1 THEN i - 1 - 1 + 1 ELSE 0
      BY <2>1, <1>a, SubSeqProperties
    <2> QED BY <2>2, <1>a
  <1>2. SubSeq(s, i + 1, Len(s)) \in Seq(S) /\ Len(SubSeq(s, i + 1, Len(s))) = Len(s) - i
    <2>1. \A j \in i + 1 .. Len(s) : s[j] \in S
      BY <1>a
    <2>2. /\ SubSeq(s, i + 1, Len(s)) \in Seq(S)
          /\ Len(SubSeq(s, i + 1, Len(s))) =
                 IF i + 1 <= Len(s) THEN Len(s) - (i + 1) + 1 ELSE 0
      BY <2>1, <1>a, SubSeqProperties
    <2> QED BY <2>2, <1>a
  <1>3. /\ RemoveAt(s, i) \in Seq(S)
        /\ Len(RemoveAt(s, i)) = Len(SubSeq(s, 1, i - 1)) + Len(SubSeq(s, i + 1, Len(s)))
    BY <1>1, <1>2, ConcatProperties, Zenon DEF RemoveAt
  <1> DEFINE p == Len(SubSeq(s, 1, i - 1))
             q == Len(SubSeq(s, i + 1, Len(s)))
             n == Len(s)
  <1>4. p = i - 1 /\ q = n - i /\ n \in Nat /\ i \in 1 .. n /\ Len(RemoveAt(s, i)) = p + q
    BY <1>1, <1>2, <1>3, <1>a
  <1> HIDE DEF p, q, n
  <1>5. Len(RemoveAt(s, i)) = n - 1
    BY <1>4
  <1> QED BY <1>3, <1>5 DEF n

LEMMA DeviceTypeStep ==
    ASSUME Inv, Next
    PROVE  DeviceTypes'
  <1>a. QueueTypes /\ RingTypes /\ DeviceTypes
    BY DEF Inv
  <1>b. working' = <<>> => \E S : working' \in Seq(S) /\ \A r \in S : r.head \in Descs
    <2>1. <<>> \in Seq({})
      BY EmptySeq
    <2> QED BY <2>1
  <1>1. ASSUME NEW outcome \in {"ok", "late", "refused"}, NEW ro \in {"yes", "no"},
               init(outcome, ro)
        PROVE  DeviceTypes'
    <2>1. device' \in {"live", "failed"} /\ working' \in {working, <<>>}
      BY <1>1 DEF init, FreshQueue
    <2> QED BY <2>1, <1>a, <1>b DEF DeviceTypes
  <1>2. CASE uninstall
    BY <1>2, <1>b DEF uninstall, DeviceTypes
  <1>3. CASE DeviceFetch
    <2>1. device' = device
      BY <1>3 DEF DeviceFetch
    <2>2. CASE working' = working
      BY <2>1, <2>2, <1>a DEF DeviceTypes
    <2>3. CASE working' # working
      <3> DEFINE h == avail[Slot(seen)]
                 w == [head |-> h, addrs |-> Chain(h)]
      <3>1. working' = Append(working, w)
        BY <1>3, <2>3 DEF DeviceFetch
      <3>2. h \in Descs
        BY <1>a, WrapIndex DEF QueueTypes, RingTypes
      <3>3. w.head \in Descs
        BY <3>2
      <3> HIDE DEF w
      <3>4. PICK S : working \in Seq(S) /\ \A r \in S : r.head \in Descs
        BY <1>a DEF DeviceTypes
      <3>5. working \in Seq(S \cup {w}) /\ \A r \in S \cup {w} : r.head \in Descs
        BY <3>3, <3>4, SeqMonotonic
      <3>6. Append(working, w) \in Seq(S \cup {w})
        BY <3>5, AppendProperties
      <3> QED BY <3>1, <3>5, <3>6, <2>1, <1>a DEF DeviceTypes
    <2> QED BY <2>2, <2>3
  <1>4. ASSUME NEW i \in 1 .. Len(working), NEW s, DeviceAnswer(i, s) PROVE DeviceTypes'
    <2>1. device' = device /\ working' = RemoveAt(working, i)
      BY <1>4 DEF DeviceAnswer
    <2> QED BY <2>1, <1>a, Removed DEF DeviceTypes
  <1>5. CASE UNCHANGED <<device, working>>
    BY <1>5, <1>a DEF DeviceTypes
  <1>6. ASSUME NEW t \in Threads, Call(t) PROVE UNCHANGED <<device, working>>
    BY <1>6, Calls DEF Submit, dev
  <1>7. ASSUME NEW t \in Threads, Progress(t) PROVE UNCHANGED <<device, working>>
    BY <1>7 DEF Progress, allocate_descriptor, allocate_descriptor_Empty, set_available_ring,
       queue_notify, pop_used, check_status, dequeue_used, dev
  <1> QED BY <1>1, <1>2, <1>3, <1>4, <1>5, <1>6, <1>7 DEF Next, DeviceAnswers

(* Only init, uninstall and the device act for nobody; a step of a call    *)
(* leaves the others alone.                                                *)
LEMMA OtherCalls ==
    ASSUME Inv, NEW t \in Threads, Call(t) \/ Progress(t), NEW u \in Threads, u # t
    PROVE  pc'[u] = pc[u] /\ op'[u] = op[u] /\ descs'[u] = descs[u]
  <1>a. CallTypes
    BY DEF Inv
  <1>1. CASE Call(t)
    BY <1>1, <1>a, Calls DEF Submit, Goto, CallTypes
  <1>2. CASE allocate_descriptor(t)
    BY <1>2, <1>a DEF allocate_descriptor, Goto, CallTypes
  <1>3. CASE dequeue_used(t)
    BY <1>3, <1>a DEF dequeue_used, Return, CallTypes
  <1>4. CASE allocate_descriptor_Empty(t) \/ set_available_ring(t) \/ queue_notify(t)
             \/ pop_used(t) \/ check_status(t)
    <2>1. descs' = descs
      BY <1>4 DEF allocate_descriptor_Empty, set_available_ring, queue_notify, pop_used,
         check_status
    <2>2. CASE \E r : Finish(t, r)
      BY <2>1, <2>2, <1>a, Finishes DEF CallTypes
    <2>3. CASE op' = op /\ \E p : pc' = [pc EXCEPT ![t] = p]
      BY <2>1, <2>3, <1>a DEF CallTypes
    <2> QED
      BY <2>2, <2>3, <1>4 DEF allocate_descriptor_Empty, set_available_ring, queue_notify,
         pop_used, check_status, Goto
  <1> QED BY <1>1, <1>2, <1>3, <1>4 DEF Progress

LEMMA PhaseStep ==
    ASSUME Inv, Next
    PROVE  \A u \in Threads : Phase(u)'
  <1> SUFFICES ASSUME NEW u \in Threads PROVE Phase(u)'
    OBVIOUS
  <1>a. QueueTypes /\ CallTypes /\ Phase(u)
    BY DEF Inv
  <1>b. /\ descs[u] \in Seq(Descs) /\ Len(descs[u]) \in Nat
        /\ Len(Parts(op[u])) \in {2, 3} /\ Len(Parts("rw")) \in {2, 3}
        /\ Len(Parts("flush")) \in {2, 3} /\ Len(Parts(op'[u])) \in {2, 3}
    BY <1>a, LenProperties, PartsLen DEF CallTypes
  <1>c. pc \in [Threads -> Pcs] /\ op \in [Threads -> {"none", "rw", "flush"}]
        /\ descs \in [Threads -> Seq(Descs)]
    BY <1>a DEF CallTypes
  <1>d. Len(<<>>) = 0
    BY EmptySeq
  <1>1. CASE \/ \E outcome \in {"ok", "late", "refused"}, ro \in {"yes", "no"} : init(outcome, ro)
             \/ uninstall \/ DeviceFetch \/ DeviceAnswers
    <2>1. UNCHANGED <<pc, op, descs>>
      BY <1>1 DEF init, uninstall, DeviceFetch, DeviceAnswers, DeviceAnswer, calls
    <2> QED BY <1>a, <2>1 DEF Phase
  <1>2. ASSUME NEW t \in Threads, t # u, Call(t) \/ Progress(t) PROVE Phase(u)'
    BY <1>2, <1>a, OtherCalls DEF Phase
  <1>3. CASE Call(u)
    <2>1. PICK o \in {"rw", "flush"} : Submit(u, o)
      BY <1>3, Calls
    <2>2. descs'[u] = <<>> /\ pc'[u] = "alloc"
      BY <2>1, <1>a, <1>c DEF Submit, Goto, Phase
    <2>3. Len(descs'[u]) = 0
      BY <2>2, <1>d
    <2>4. Len(descs'[u]) < Len(Parts(op'[u]))
      BY <2>3, <1>b
    <2> QED BY <2>2, <2>4 DEF Phase
  <1>4. CASE allocate_descriptor(u)
    <2>1. Len(descs[u]) < Len(Parts(op[u])) /\ op'[u] = op[u]
      BY <1>4, <1>a DEF allocate_descriptor, Goto, Phase
    <2>2. Head(free) \in Descs
      BY <1>4, <1>a, HeadTailProperties DEF allocate_descriptor, QueueTypes
    <2>3. descs'[u] = Append(descs[u], Head(free))
      BY <1>4, <1>c DEF allocate_descriptor
    <2>4. Len(descs'[u]) = Len(descs[u]) + 1
      BY <2>2, <2>3, <1>b, AppendProperties
    <2>5. pc'[u] = IF Len(descs[u]) + 1 < Len(Parts(op[u])) THEN "alloc" ELSE "publish"
      BY <1>4, <1>c DEF allocate_descriptor, Goto
    <2> QED BY <2>1, <2>4, <2>5, <1>b DEF Phase
  <1>5. CASE \E r : Finish(u, r) /\ descs' = descs
    <2>1. pc'[u] = IF descs[u] = <<>> THEN "idle" ELSE "free"
      BY <1>5, <1>a, <1>c, Finishes
    <2> QED BY <2>1, <1>5 DEF Phase
  <1>6. CASE /\ UNCHANGED <<op, descs>>
             /\ pc[u] \in {"publish", "notify", "wait"} /\ pc'[u] \in {"notify", "wait", "check"}
    BY <1>6, <1>a DEF Phase
  <1>7. CASE dequeue_used(u)
    <2>1. descs[u] # <<>> /\ pc[u] = "free"
      BY <1>7, <1>a DEF dequeue_used, Phase
    <2>2. descs'[u] = Tail(descs[u]) /\ Len(Tail(descs[u])) = Len(descs[u]) - 1
          /\ Tail(descs[u]) \in Seq(Descs)
      BY <2>1, <1>7, <1>b, <1>c, HeadTailProperties DEF dequeue_used
    <2>3. CASE Len(descs[u]) = 1
      <3>1. pc'[u] = "idle"
        BY <2>3, <1>7, <1>c DEF dequeue_used, Return
      <3>2. Len(Tail(descs[u])) = 0
        BY <2>2, <2>3
      <3>3. Tail(descs[u]) = <<>>
        BY <3>2, <2>2, EmptySeq
      <3> QED BY <3>1, <3>3, <2>2 DEF Phase
    <2>4. CASE Len(descs[u]) # 1
      <3>1. pc'[u] = "free"
        BY <2>1, <2>4, <1>7 DEF dequeue_used
      <3>2. Len(descs[u]) # 0
        BY <2>1, <1>b, EmptySeq
      <3>3. Len(descs'[u]) # 0
        BY <2>2, <2>4, <3>2, <1>b
      <3>4. descs'[u] # <<>>
        BY <3>3, <1>d
      <3> QED BY <3>1, <3>4 DEF Phase
    <2> QED BY <2>3, <2>4
  <1>8. CASE allocate_descriptor_Empty(u) \/ check_status(u)
    BY <1>8, <1>5 DEF allocate_descriptor_Empty, check_status
  <1>9. CASE set_available_ring(u) \/ queue_notify(u) \/ pop_used(u)
    BY <1>9, <1>5, <1>6, <1>c DEF set_available_ring, queue_notify, pop_used, Goto
  <1> QED
    BY <1>1, <1>2, <1>3, <1>4, <1>7, <1>8, <1>9 DEF Next, Progress

-------------------------------------------------------------------------------
(* Descriptors after a step *)

(* Set F is free and each call t holds A[t]: all descriptors, apart. *)
Shares(F, A) ==
    /\ \A t \in Threads : F \cap A[t] = {}
    /\ \A t, u \in Threads : t # u => A[t] \cap A[u] = {}
    /\ F \subseteq Descs /\ \A t \in Threads : A[t] \subseteq Descs
    /\ \A d \in Descs : d \in F \/ \E t \in Threads : d \in A[t]

Holdings == [t \in Threads |-> ToSet(descs[t])]

LEMMA InShares ==
    DescriptorsConserved <=>
        (ready => /\ IsInjective(free) /\ \A t \in Threads : IsInjective(descs[t])
                  /\ Shares(ToSet(free), Holdings))
  <1> DEFINE F == ToSet(free)
             A(t) == ToSet(descs[t])
  <1>1. F \cup UNION {A(t) : t \in Threads} = Descs
        <=> /\ F \subseteq Descs /\ \A t \in Threads : A(t) \subseteq Descs
            /\ \A d \in Descs : d \in F \/ \E t \in Threads : d \in A(t)
    <2> HIDE DEF F, A
    <2> QED OBVIOUS
  <1> QED BY <1>1 DEF DescriptorsConserved, Shares, Holdings

(* One call takes one free descriptor. *)
LEMMA SharesTake ==
    ASSUME NEW F, NEW A, NEW G, NEW B, NEW t \in Threads, NEW d,
           Shares(F, A), \A u \in Threads \ {t} : B[u] = A[u],
           d \in F, G = F \ {d}, B[t] = A[t] \cup {d}
    PROVE  Shares(G, B)
  <1>1. d \in Descs /\ \A u \in Threads : d \notin A[u]
    BY DEF Shares
  <1>2. \A u \in Threads : G \cap B[u] = {} /\ B[u] \subseteq Descs
    BY <1>1 DEF Shares
  <1>3. \A u, v \in Threads : u # v => B[u] \cap B[v] = {}
    BY <1>1 DEF Shares
  <1>4. \A e \in Descs : e \in G \/ \E u \in Threads : e \in B[u]
    BY <1>1 DEF Shares
  <1> QED BY <1>2, <1>3, <1>4 DEF Shares

(* One call gives one of its descriptors back. *)
LEMMA SharesGive ==
    ASSUME NEW F, NEW A, NEW G, NEW B, NEW t \in Threads, NEW d,
           Shares(F, A), \A u \in Threads \ {t} : B[u] = A[u],
           d \in A[t], G = F \cup {d}, B[t] = A[t] \ {d}
    PROVE  Shares(G, B)
  <1>1. d \in Descs /\ \A u \in Threads \ {t} : d \notin A[u]
    BY DEF Shares
  <1>2. \A u \in Threads : G \cap B[u] = {} /\ B[u] \subseteq Descs
    BY <1>1 DEF Shares
  <1>3. \A u, v \in Threads : u # v => B[u] \cap B[v] = {}
    BY <1>1 DEF Shares
  <1>4. \A e \in Descs : e \in G \/ \E u \in Threads : e \in B[u]
    BY <1>1 DEF Shares
  <1> QED BY <1>1, <1>2, <1>3, <1>4 DEF Shares

LEMMA DescriptorStep ==
    ASSUME Inv, Next
    PROVE  DescriptorsConserved'
  <1>a. QueueTypes /\ CallTypes /\ \A t \in Threads : Phase(t)
    BY DEF Inv
  <1>b. ready => /\ IsInjective(free) /\ \A t \in Threads : IsInjective(descs[t])
                 /\ Shares(ToSet(free), Holdings)
    BY InShares DEF Inv
  <1> SUFFICES ASSUME ready'
               PROVE  /\ IsInjective(free') /\ \A t \in Threads : IsInjective(descs'[t])
                      /\ Shares(ToSet(free'), Holdings')
    <2> DEFINE F == ToSet(free')
               A(t) == ToSet(descs'[t])
    <2>1. F \cup UNION {A(t) : t \in Threads} = Descs
          <=> /\ F \subseteq Descs /\ \A t \in Threads : A(t) \subseteq Descs
              /\ \A d \in Descs : d \in F \/ \E t \in Threads : d \in A(t)
      <3> HIDE DEF F, A
      <3> QED OBVIOUS
    <2> QED BY <2>1 DEF DescriptorsConserved, Shares, Holdings
  <1>1. CASE UNCHANGED <<ready, free, descs>>
    BY <1>1, <1>b DEF Holdings
  <1>2. ASSUME NEW outcome \in {"ok", "late", "refused"}, NEW ro \in {"yes", "no"},
               init(outcome, ro), ~UNCHANGED <<ready, free, descs>>
        PROVE  /\ IsInjective(free') /\ \A t \in Threads : IsInjective(descs'[t])
               /\ Shares(ToSet(free'), Holdings')
    <2>1. FreshQueue /\ descs' = descs /\ \A t \in Threads : pc[t] = "idle"
      BY <1>2 DEF init, calls, queue, Idle
    <2>2. \A t \in Threads : descs'[t] = <<>>
      BY <2>1, <1>a DEF Phase
    <2>3. IsInjective(<<>>) /\ ToSet(<<>>) = {}
      BY DEF IsInjective, ToSet
    <2>4. IsInjective(free') /\ ToSet(free') = Descs
      BY <2>1, Fresh
    <2>5. \A t \in Threads : Holdings'[t] = {}
      BY <2>2, <2>3 DEF Holdings
    <2>6. Shares(ToSet(free'), Holdings')
      BY <2>4, <2>5 DEF Shares
    <2> QED BY <2>2, <2>3, <2>4, <2>6
  <1>3. ASSUME NEW t \in Threads, allocate_descriptor(t)
        PROVE  /\ IsInjective(free') /\ \A u \in Threads : IsInjective(descs'[u])
               /\ Shares(ToSet(free'), Holdings')
    <2> DEFINE d == Head(free)
    <2>a. /\ ready /\ free # <<>> /\ free' = Tail(free)
          /\ descs' = [descs EXCEPT ![t] = Append(descs[t], d)]
      BY <1>3 DEF allocate_descriptor, driver
    <2>b. free \in Seq(Descs) /\ descs[t] \in Seq(Descs)
      BY <1>a DEF QueueTypes, CallTypes
    <2>1. /\ d \in Descs /\ d \in ToSet(free) /\ IsInjective(free')
          /\ ToSet(free') = ToSet(free) \ {d}
      BY <2>a, <2>b, <1>b, TakeFirst
    <2> HIDE DEF d
    <2>2. d \notin ToSet(descs[t])
      BY <2>1, <2>a, <1>b DEF Shares, Holdings
    <2>3. IsInjective(Append(descs[t], d)) /\ ToSet(Append(descs[t], d)) = ToSet(descs[t]) \cup {d}
      BY <2>1, <2>2, <2>a, <2>b, <1>b, AddLast
    <2>4. /\ descs'[t] = Append(descs[t], d)
          /\ \A u \in Threads \ {t} : descs'[u] = descs[u]
      BY <2>a, <1>a DEF CallTypes
    <2>5. /\ Holdings'[t] = Holdings[t] \cup {d}
          /\ \A u \in Threads \ {t} : Holdings'[u] = Holdings[u]
      BY <2>3, <2>4 DEF Holdings
    <2>6. Shares(ToSet(free'), Holdings')
      BY <2>1, <2>5, <2>a, <1>b, SharesTake
    <2> QED BY <2>1, <2>3, <2>4, <2>6, <2>a, <1>b
  <1>4. ASSUME NEW t \in Threads, dequeue_used(t)
        PROVE  /\ IsInjective(free') /\ \A u \in Threads : IsInjective(descs'[u])
               /\ Shares(ToSet(free'), Holdings')
    <2> DEFINE d == Head(descs[t])
    <2>a. /\ ready /\ descs[t] # <<>> /\ free' = <<d>> \o free
          /\ descs' = [descs EXCEPT ![t] = Tail(descs[t])]
      BY <1>4, <1>a DEF dequeue_used, driver, Phase
    <2>b. free \in Seq(Descs) /\ descs[t] \in Seq(Descs)
      BY <1>a DEF QueueTypes, CallTypes
    <2>1. /\ d \in Descs /\ d \in ToSet(descs[t]) /\ IsInjective(Tail(descs[t]))
          /\ ToSet(Tail(descs[t])) = ToSet(descs[t]) \ {d}
      BY <2>a, <2>b, <1>b, TakeFirst
    <2> HIDE DEF d
    <2>2. d \notin ToSet(free)
      BY <2>1, <2>a, <1>b DEF Shares, Holdings
    <2>3. IsInjective(<<d>> \o free) /\ ToSet(<<d>> \o free) = ToSet(free) \cup {d}
      BY <2>1, <2>2, <2>a, <2>b, <1>b, AddFirst
    <2>4. /\ descs'[t] = Tail(descs[t])
          /\ \A u \in Threads \ {t} : descs'[u] = descs[u]
      BY <2>a, <1>a DEF CallTypes
    <2>5. /\ Holdings'[t] = Holdings[t] \ {d} /\ d \in Holdings[t]
          /\ \A u \in Threads \ {t} : Holdings'[u] = Holdings[u]
      BY <2>1, <2>4 DEF Holdings
    <2>6. ToSet(free') = ToSet(free) \cup {d} /\ Shares(ToSet(free), Holdings)
      BY <2>3, <2>a, <1>b
    <2>7. Shares(ToSet(free'), Holdings')
      BY <2>5, <2>6, SharesGive
    <2> QED BY <2>1, <2>3, <2>4, <2>7, <2>a, <1>b
  <1>5. ASSUME NEW t \in Threads, Call(t) PROVE UNCHANGED <<ready, free, descs>>
    BY <1>5, Calls DEF Submit, driver, queue
  <1>6. ASSUME NEW t \in Threads, Progress(t), ~allocate_descriptor(t), ~dequeue_used(t)
        PROVE  UNCHANGED <<ready, free, descs>>
    BY <1>6 DEF Progress, allocate_descriptor_Empty, set_available_ring,
       queue_notify, pop_used, check_status, driver, queue
  <1>7. uninstall \/ DeviceFetch \/ DeviceAnswers => UNCHANGED <<ready, free, descs>>
    BY DEF uninstall, DeviceFetch, DeviceAnswers, DeviceAnswer, driver, queue, calls
  <1> QED BY <1>1, <1>2, <1>3, <1>4, <1>5, <1>6, <1>7 DEF Next

-------------------------------------------------------------------------------
(* Rings after a step *)

InRing == {"notify", "wait"}

(* The number of waiting calls follows the one call that moves. *)
LEMMA WaitingChange ==
    ASSUME Inv, NEW t \in Threads, Call(t) \/ Progress(t)
    PROVE  /\ (pc[t] \in InRing <=> pc'[t] \in InRing) => Waiting' = Waiting
           /\ pc[t] \notin InRing /\ pc'[t] \in InRing =>
                  Cardinality(Waiting') = Cardinality(Waiting) + 1
           /\ pc[t] \in InRing /\ pc'[t] \notin InRing =>
                  Cardinality(Waiting') = Cardinality(Waiting) - 1
  <1>a. \A u \in Threads \ {t} : pc'[u] = pc[u]
    BY OtherCalls
  <1>1. (pc[t] \in InRing <=> pc'[t] \in InRing) => Waiting' = Waiting
    BY <1>a DEF Waiting, InRing
  <1>2. pc[t] \notin InRing /\ pc'[t] \in InRing => Waiting' = Waiting \cup {t} /\ t \notin Waiting
    BY <1>a DEF Waiting, InRing
  <1>3. pc[t] \in InRing /\ pc'[t] \notin InRing => Waiting' = Waiting \ {t} /\ t \in Waiting
    BY <1>a DEF Waiting, InRing
  <1>4. /\ t \notin Waiting => Cardinality(Waiting \cup {t}) = Cardinality(Waiting) + 1
        /\ t \in Waiting => Cardinality(Waiting \ {t}) = Cardinality(Waiting) - 1
    BY WaitingFinite, FS_AddElement, FS_RemoveElement
  <1> QED BY <1>1, <1>2, <1>3, <1>4

LEMMA RingStep ==
    ASSUME Inv, Next
    PROVE  RingInv'
  <1>a. QueueTypes /\ CallTypes /\ RingInv /\ \A t \in Threads : Phase(t)
    BY DEF Inv
  <1>b. /\ avail_idx \in Indices /\ used_idx \in Indices /\ usedNo \in Indices /\ seen \in Indices
        /\ QSIZE \in Nat /\ IDX_MOD \in Nat /\ QSIZE < IDX_MOD
    BY <1>a, QueueAssumption DEF QueueTypes
  <1> DEFINE C == Cardinality(Waiting)
             D == Wrap(avail_idx - used_idx)
             E == Wrap(usedNo - used_idx)
             N == Wrap(avail_idx - seen)
             L == Len(working)
  <1>c. /\ C \in Nat /\ D \in Nat /\ E \in Nat /\ N \in Nat /\ L \in Nat
    <2>1. D \in Indices /\ E \in Indices /\ N \in Indices
      BY <1>b, WrapIndex
    <2>2. L \in Nat
      BY LenProperties DEF Inv, DeviceTypes
    <2> QED BY <2>1, <2>2, WaitingFinite DEF Indices
  <1>d. /\ D = C /\ C <= QSIZE /\ E <= C
        /\ device = "live" => C = N + L + E
        /\ device # "live" => working = <<>>
        /\ readonly = "unset" => device # "live"
    BY <1>a DEF RingInv, RingsBalanced, Unread
  <1> HIDE DEF C, D, E, N, L
  <1> SUFFICES /\ D' = C' /\ C' <= QSIZE /\ E' <= C'
               /\ device' = "live" => C' = N' + L' + E'
               /\ device' # "live" => working' = <<>>
               /\ readonly' = "unset" => device' # "live"
    BY DEF RingInv, RingsBalanced, Unread, C, D, E, N, L
  <1>1. CASE /\ UNCHANGED <<avail_idx, used_idx, usedNo, seen, working, device, readonly>>
             /\ Waiting' = Waiting
    <2>1. C' = C /\ D' = D /\ E' = E /\ N' = N /\ L' = L
      BY <1>1 DEF C, D, E, N, L
    <2> QED BY <2>1, <1>1, <1>d
  <1>2. ASSUME NEW outcome \in {"ok", "late", "refused"}, NEW ro \in {"yes", "no"},
               init(outcome, ro)
        PROVE  /\ D' = C' /\ C' <= QSIZE /\ E' <= C'
               /\ device' = "live" => C' = N' + L' + E'
               /\ device' # "live" => working' = <<>>
               /\ readonly' = "unset" => device' # "live"
    <2>1. pc' = pc /\ \A t \in Threads : Idle(t)
      BY <1>2 DEF init, calls
    <2>2. C' = 0 /\ C = 0
      BY <2>1, Idling DEF C, Waiting
    <2>3. CASE outcome = "refused"
      <3>1. /\ UNCHANGED <<avail_idx, used_idx, usedNo, seen, working>>
            /\ device' = "failed" /\ readonly' = readonly /\ readonly = "unset"
        BY <1>2, <2>3 DEF init, queue, rings
      <3>2. D' = D /\ E' = E
        BY <3>1 DEF D, E
      <3> QED BY <2>2, <3>1, <3>2, <1>d, <1>b
    <2>4. CASE outcome # "refused"
      <3>1. FreshQueue /\ (device' = "live" => outcome = "ok")
            /\ (outcome = "ok" => readonly' = ro) /\ readonly' \in {readonly, ro}
        BY <1>2, <2>4 DEF init
      <3>2. /\ avail_idx' = 0 /\ used_idx' = 0 /\ usedNo' = 0 /\ seen' = 0 /\ working' = <<>>
        BY <3>1, Fresh
      <3>3. Wrap(0 - 0) = 0 /\ Len(<<>>) = 0
        BY <1>b, WrapIndex, EmptySeq DEF Indices
      <3>4. D' = 0 /\ E' = 0 /\ N' = 0 /\ L' = 0
        BY <3>2, <3>3 DEF D, E, N, L
      <3> QED BY <3>1, <3>2, <3>4, <2>2, <1>b
    <2> QED BY <2>3, <2>4
  <1>3. CASE uninstall
    <2>1. /\ UNCHANGED <<avail_idx, used_idx, usedNo, seen, pc, readonly>>
          /\ device' = "reset" /\ working' = <<>>
      BY <1>3 DEF uninstall, queue, rings, driver, calls
    <2>2. C' = C /\ D' = D /\ E' = E
      BY <2>1 DEF C, D, E, Waiting
    <2> QED BY <2>1, <2>2, <1>d
  <1>4. ASSUME NEW t \in Threads, Call(t)
        PROVE  /\ UNCHANGED <<avail_idx, used_idx, usedNo, seen, working, device, readonly>>
               /\ Waiting' = Waiting
    <2>1. PICK o \in {"rw", "flush"} : Submit(t, o)
      BY <1>4, Calls
    <2>2. pc[t] \notin InRing /\ pc'[t] \notin InRing
      BY <2>1, <1>a DEF Submit, Goto, InRing, CallTypes
    <2> QED BY <2>1, <2>2, <1>4, WaitingChange DEF Submit, driver, queue, rings, dev
  <1>5. ASSUME NEW t \in Threads, \/ allocate_descriptor(t) \/ allocate_descriptor_Empty(t)
                                  \/ queue_notify(t) \/ check_status(t) \/ dequeue_used(t)
        PROVE  /\ UNCHANGED <<avail_idx, used_idx, usedNo, seen, working, device, readonly>>
               /\ Waiting' = Waiting
    <2>1. pc[t] \in InRing <=> pc'[t] \in InRing
      <3>1. CASE allocate_descriptor(t) \/ queue_notify(t)
        BY <3>1, <1>a DEF allocate_descriptor, queue_notify, Goto, InRing, CallTypes
      <3>2. CASE allocate_descriptor_Empty(t) \/ check_status(t)
        BY <3>2, <1>a, Finishes DEF allocate_descriptor_Empty, check_status, InRing, CallTypes
      <3>3. CASE dequeue_used(t)
        BY <3>3, <1>a DEF dequeue_used, Return, InRing, CallTypes
      <3> QED BY <3>1, <3>2, <3>3, <1>5
    <2>2. UNCHANGED <<avail_idx, used_idx, usedNo, seen, working, device, readonly>>
      BY <1>5 DEF allocate_descriptor, allocate_descriptor_Empty, queue_notify, check_status,
         dequeue_used, driver, queue, rings, dev
    <2>3. Waiting' = Waiting
      BY <2>1, <1>5, WaitingChange DEF Progress
    <2> QED BY <2>2, <2>3
  <1>6. ASSUME NEW t \in Threads, set_available_ring(t)
        PROVE  /\ D' = C' /\ C' <= QSIZE /\ E' <= C'
               /\ device' = "live" => C' = N' + L' + E'
               /\ device' # "live" => working' = <<>>
               /\ readonly' = "unset" => device' # "live"
    <2>1. UNCHANGED <<used_idx, usedNo, seen, working, device, readonly>> /\ pc[t] = "publish"
      BY <1>6 DEF set_available_ring, driver, dev
    <2>2. CASE D >= QSIZE
      <3>1. avail_idx' = avail_idx /\ Finish(t, "Busy")
        BY <1>6, <2>2 DEF set_available_ring, D
      <3>2. pc'[t] \notin InRing
        BY <3>1, <1>a, Finishes DEF InRing, CallTypes
      <3>3. Waiting' = Waiting
        BY <3>2, <2>1, <1>6, WaitingChange DEF Progress, InRing
      <3>4. C' = C /\ D' = D /\ E' = E /\ N' = N /\ L' = L
        BY <2>1, <3>1, <3>3 DEF C, D, E, N, L
      <3> QED BY <3>4, <2>1, <1>d
    <2>3. CASE ~(D >= QSIZE)
      <3>1. avail_idx' = Wrap(avail_idx + 1) /\ pc'[t] = "notify"
        BY <1>6, <2>3, <1>a DEF set_available_ring, Goto, D, CallTypes
      <3>2. C' = C + 1
        BY <3>1, <2>1, <1>6, WaitingChange DEF Progress, InRing, C
      <3>3. D < IDX_MOD - 1 /\ (device = "live" => N < IDX_MOD - 1)
        BY <2>3, <1>b, <1>c, <1>d
      <3>4. D' = D + 1
        BY <3>1, <3>3, <2>1, <1>b, WrapAhead DEF D
      <3>5. device = "live" => N' = N + 1
        BY <3>1, <3>3, <2>1, <1>b, WrapAhead DEF N
      <3>6. E' = E /\ L' = L
        BY <2>1 DEF E, L
      <3> QED BY <3>2, <3>4, <3>5, <3>6, <2>1, <2>3, <1>b, <1>c, <1>d
    <2> QED BY <2>2, <2>3
  <1>7. ASSUME NEW t \in Threads, pop_used(t)
        PROVE  /\ D' = C' /\ C' <= QSIZE /\ E' <= C'
               /\ device' = "live" => C' = N' + L' + E'
               /\ device' # "live" => working' = <<>>
               /\ readonly' = "unset" => device' # "live"
    <2>1. /\ UNCHANGED <<avail_idx, usedNo, seen, working, device, readonly>>
          /\ pc[t] = "wait" /\ E # 0
      BY <1>7 DEF pop_used, driver, rings, dev, E
    <2>2. ~(E > QSIZE)
      BY <1>b, <1>c, <1>d
    <2>3. used_idx' = Wrap(used_idx + 1)
          /\ ((\E r : Finish(t, r)) \/ Goto(t, "wait", "check"))
      BY <1>7, <2>2 DEF pop_used, E
    <2>4. pc'[t] \notin InRing
      BY <2>3, <1>a, Finishes DEF InRing, Goto, CallTypes
    <2>5. C' = C - 1
      BY <2>1, <2>4, <1>7, WaitingChange DEF Progress, InRing, C
    <2>6. D # 0
      BY <2>1, <1>c, <1>d
    <2>7. D' = D - 1
      BY <2>1, <2>3, <2>6, <1>b, WrapBehind DEF D
    <2>8. E' = E - 1
      BY <2>1, <2>3, <1>b, WrapBehind DEF E
    <2>9. N' = N /\ L' = L
      BY <2>1 DEF N, L
    <2> QED BY <2>1, <2>5, <2>7, <2>8, <2>9, <1>b, <1>c, <1>d
  <1>8. CASE DeviceFetch
    <2>1. /\ UNCHANGED <<avail_idx, used_idx, usedNo, device, readonly, pc>> /\ device = "live"
      BY <1>8 DEF DeviceFetch, driver, queue, rings, calls
    <2>2. C' = C /\ D' = D /\ E' = E
      BY <2>1 DEF C, D, E, Waiting
    <2>3. CASE seen = avail_idx
      <3>1. N' = N /\ L' = L
        BY <1>8, <2>1, <2>3 DEF DeviceFetch, N, L
      <3> QED BY <3>1, <2>1, <2>2, <1>d
    <2>4. CASE seen # avail_idx
      <3>1. seen' = Wrap(seen + 1) /\ \E w : working' = Append(working, w)
        BY <1>8, <2>4 DEF DeviceFetch
      <3>2. N # 0
        BY <2>4, <1>b, WrapIndex DEF N
      <3>3. N' = N - 1
        BY <3>1, <3>2, <2>1, <1>b, WrapBehind DEF N
      <3>4. L' = L + 1
        <4>1. PICK S : working \in Seq(S)
          BY DEF Inv, DeviceTypes
        <4>2. PICK w : working' = Append(working, w)
          BY <3>1
        <4>3. working \in Seq(S \cup {w})
          BY <4>1, SeqMonotonic
        <4> QED BY <4>2, <4>3, AppendProperties DEF L
      <3> QED BY <3>3, <3>4, <2>1, <2>2, <1>c, <1>d
    <2> QED BY <2>3, <2>4
  <1>9. ASSUME NEW i \in 1 .. Len(working), NEW s, DeviceAnswer(i, s)
        PROVE  /\ D' = C' /\ C' <= QSIZE /\ E' <= C'
               /\ device' = "live" => C' = N' + L' + E'
               /\ device' # "live" => working' = <<>>
               /\ readonly' = "unset" => device' # "live"
    <2>1. /\ UNCHANGED <<avail_idx, used_idx, seen, device, readonly, pc>>
          /\ usedNo' = Wrap(usedNo + 1) /\ working' = RemoveAt(working, i)
      BY <1>9 DEF DeviceAnswer, driver, queue
    <2>2. C' = C /\ D' = D /\ N' = N
      BY <2>1 DEF C, D, N, Waiting
    <2>3. L # 0 /\ device = "live"
      <3>1. L # 0
        BY <1>c DEF L
      <3>2. Len(<<>>) = 0
        BY EmptySeq
      <3> QED BY <3>1, <3>2, <1>d DEF L
    <2>4. E < IDX_MOD - 1
      BY <2>3, <1>b, <1>c, <1>d
    <2>5. E' = E + 1
      BY <2>1, <2>4, <1>b, WrapAhead DEF E
    <2>6. L' = L - 1
      BY <2>1, Removed DEF L, Inv, DeviceTypes
    <2> QED BY <2>1, <2>2, <2>3, <2>5, <2>6, <1>c, <1>d
  <1> QED
    BY <1>1, <1>2, <1>3, <1>4, <1>5, <1>6, <1>7, <1>8, <1>9 DEF Next, Progress, DeviceAnswers
-------------------------------------------------------------------------------
LEMMA InvStep == Inv /\ [Next]_vars => Inv'
  <1> SUFFICES ASSUME Inv, [Next]_vars PROVE Inv'
    OBVIOUS
  <1>1. CASE Next
    BY <1>1, QueueTypeStep, RingTypeStep, DeviceTypeStep, CallTypeStep, PhaseStep, DescriptorStep,
       RingStep DEF Inv
  <1>2. CASE UNCHANGED vars
    BY <1>2 DEF vars, use, driver, queue, rings, dev, calls, Inv, QueueTypes, RingTypes,
       DeviceTypes, CallTypes, Phase, DescriptorsConserved, RingInv, RingsBalanced, Unread, Waiting
  <1> QED BY <1>1, <1>2

(***************************************************************************)
(* Types, for every number of callers and every queue size: a call that    *)
(* publishes a request has filled a descriptor for each of its parts.      *)
(***************************************************************************)
THEOREM TypeCorrect == Spec => []TypeOK
  BY InitInv, InvStep, InvTypes, PTL DEF Spec

(***************************************************************************)
(* However calls overlap and whatever the device answers, no descriptor of *)
(* the queue is lost or held twice.                                        *)
(***************************************************************************)
THEOREM DescriptorsKept == Spec => []DescriptorsConserved
  <1>1. Inv => DescriptorsConserved
    BY DEF Inv
  <1> QED BY <1>1, InitInv, InvStep, PTL DEF Spec

(***************************************************************************)
(* The indices count the waiting calls across every wrap-around, for every *)
(* queue size below the index range.                                       *)
(***************************************************************************)
THEOREM RingsKept == Spec => []RingsBalanced
  <1>1. Inv => RingsBalanced
    BY DEF Inv, RingInv
  <1> QED BY <1>1, InitInv, InvStep, PTL DEF Spec

-------------------------------------------------------------------------------
(* What the device finds *)

Addrs == {LINK} \cup (Threads \X {"req", "buf", "status"})

(* The walk of the device along the next fields unfolds. *)
LEMMA ChainUnfolds ==
    ASSUME RingTypes
    PROVE  \E F :
             /\ \A d : Chain(d) = F[QSIZE - 1][d]
             /\ \A n \in Nat, x \in Descs : ~desc[x].more => F[n][x] = <<desc[x].addr>>
             /\ \A n \in Nat, x \in Descs : desc[x].more =>
                   F[n + 1][x] = <<desc[x].addr>> \o F[n][desc[x].next]
  <1> DEFINE T == [Descs -> Seq(Addrs)]
             more(x) == desc[x].more
             one(x) == <<desc[x].addr>>
             next(x) == desc[x].next
             Step(g) == [x \in Descs |-> IF more(x) THEN one(x) \o g[next(x)] ELSE one(x)]
             start == [x \in Descs |-> one(x)]
             Rec(f) == f = [n \in Nat |-> [x \in Descs |->
                              IF more(x) /\ n > 0 THEN one(x) \o f[n - 1][next(x)] ELSE one(x)]]
  <1>1. \A x \in Descs : one(x) \in Seq(Addrs) /\ next(x) \in Descs
    BY DEF RingTypes, Entries, Addrs
  <1>2. \A d : Chain(d) = (CHOOSE f : Rec(f))[QSIZE - 1][d]
    BY DEF Chain
  <1> HIDE DEF more, one, next
  <1>3. start \in T
    BY <1>1
  <1>4. ASSUME NEW g \in T PROVE Step(g) \in T
    <2>1. \A x \in Descs : g[next(x)] \in Seq(Addrs)
      BY <1>1
    <2>2. \A x \in Descs : one(x) \o g[next(x)] \in Seq(Addrs)
      BY <1>1, <2>1, ConcatProperties
    <2> QED BY <1>1, <2>2
  <1> DEFINE step == [g \in T |-> Step(g)]
  <1>5. step \in [T -> T]
    <2> HIDE DEF T, Step
    <2> QED BY <1>4
  <1>6. PICK f \in [Nat -> T] : f[0] = start /\ \A n \in Nat : f[n + 1] = step[f[n]]
    <2> HIDE DEF T, step, start
    <2>1. Iterates(T)  BY IterateExists
    <2> QED BY <1>3, <1>5, <2>1, Zenon DEF Iterates
  <1>7. \A n \in Nat : f[n + 1] = Step(f[n])
    <2> HIDE DEF T, Step, start
    <2> QED BY <1>6
  <1>8. Rec(f)
    <2> DEFINE rhs == [n \in Nat |-> [x \in Descs |->
                         IF more(x) /\ n > 0 THEN one(x) \o f[n - 1][next(x)] ELSE one(x)]]
    <2>1. ASSUME NEW n \in Nat PROVE f[n] = rhs[n]
      <3>1. CASE n = 0
        BY <3>1, <1>6
      <3>2. CASE n # 0
        <4>1. n - 1 \in Nat /\ (n - 1) + 1 = n /\ n > 0
          BY <3>2
        <4>2. f[n] = Step(f[n - 1])
          BY <1>7, <4>1
        <4> QED BY <4>1, <4>2
      <3> QED BY <3>1, <3>2
    <2>2. f = [n \in Nat |-> f[n]]
      <3> HIDE DEF T
      <3> QED BY <1>6
    <2>3. rhs = [n \in Nat |-> rhs[n]]
      OBVIOUS
    <2> HIDE DEF rhs
    <2>4. f = rhs
      BY <2>1, <2>2, <2>3
    <2> QED BY <2>4 DEF rhs
  <1> DEFINE F == CHOOSE g : Rec(g)
  <1>9. Rec(F)
    <2> HIDE DEF Rec
    <2> QED BY <1>8
  <1>10. /\ \A n \in Nat, x \in Descs : ~more(x) => F[n][x] = one(x)
         /\ \A n \in Nat, x \in Descs : more(x) => F[n + 1][x] = one(x) \o F[n][next(x)]
    <2> DEFINE G == F
    <2>1. G = [n \in Nat |-> [x \in Descs |->
                 IF more(x) /\ n > 0 THEN one(x) \o G[n - 1][next(x)] ELSE one(x)]]
      BY <1>9
    <2> HIDE DEF G
    <2> DEFINE cell(n, x) == IF more(x) /\ n > 0 THEN one(x) \o G[n - 1][next(x)] ELSE one(x)
               row(n) == [x \in Descs |-> cell(n, x)]
    <2>2. \A n \in Nat : G[n] = row(n)
      <3>1. G = [n \in Nat |-> row(n)]
        BY <2>1, Zenon
      <3> HIDE DEF row
      <3> QED BY <3>1
    <2>3. \A n \in Nat, x \in Descs : G[n][x] = cell(n, x)
      <3> HIDE DEF cell
      <3> QED BY <2>2
    <2>4. ASSUME NEW n \in Nat, NEW x \in Descs, ~more(x) PROVE G[n][x] = one(x)
      BY <2>3, <2>4, Zenon
    <2>5. ASSUME NEW n \in Nat, NEW x \in Descs, more(x)
          PROVE  G[n + 1][x] = one(x) \o G[n][next(x)]
      <3>1. n + 1 \in Nat /\ n + 1 > 0 /\ (n + 1) - 1 = n
        OBVIOUS
      <3>2. G[n + 1][x] = cell(n + 1, x)
        BY <2>3, <3>1
      <3>3. cell(n + 1, x) = one(x) \o G[(n + 1) - 1][next(x)]
        BY <2>5, <3>1, Zenon
      <3> QED BY <3>1, <3>2, <3>3, Zenon
    <2> HIDE DEF cell, row
    <2> QED BY <2>4, <2>5, Zenon DEF G
  <1> HIDE DEF F
  <1> QED BY <1>2, <1>10 DEF F, more, one, next

-------------------------------------------------------------------------------
(* Calls that do not overlap *)

(* The addresses of a request, as Synchronous has them. *)
Request(t) == [k \in 1 .. Len(descs[t]) |-> <<t, Parts(op[t])[k]>>]

(* Until a call starts to free, its descriptors are filled and linked. *)
Filled(t) ==
    pc[t] \in {"alloc", "publish", "notify", "wait", "check"} =>
      \A k \in 1 .. Len(descs[t]) :
         /\ desc[descs[t][k]].addr = <<t, Parts(op[t])[k]>>
         /\ desc[descs[t][k]].more <=> k < Len(Parts(op[t]))
         /\ k < Len(descs[t]) => desc[descs[t][k]].next = descs[t][k + 1]

Alone == \A t, u \in Threads : ~Idle(t) /\ ~Idle(u) => t = u

(* Wherever a waiting call's request is, it is that call's. *)
Owned(t) ==
    pc[t] \in InRing =>
      /\ device = "live" /\ seen # avail_idx => avail[Slot(seen)] = Head(descs[t])
      /\ working # <<>> => working[1].head = Head(descs[t]) /\ working[1].addrs = Request(t)
      /\ usedNo # used_idx => used[Slot(used_idx)] = Head(descs[t])

(* The status is OK only after the device's answer, and then the result says so. *)
Answered(t) ==
    /\ pc[t] \in {"idle", "alloc", "publish"} => status[t] # "OK"
    /\ pc[t] \in InRing /\ usedNo = used_idx => status[t] # "OK"
    /\ pc[t] = "free" => (ret[t] = "Ok" <=> status[t] = "OK")

Statuses == {"RESERVED", "OK", "IOERR", "UNSUPP"}
Results == {"none", "Busy", "Corrupted", "Io", "Unsupported", "Ok"}

SerialInv ==
    /\ shared \in BOOLEAN
    /\ status \in [Threads -> Statuses] /\ ret \in [Threads -> Results]
    /\ \A t \in Threads : Filled(t) /\ (~Idle(t) => ready)
    /\ ~shared => Alone /\ \A t \in Threads : Owned(t) /\ Answered(t)

(* From the head of a filled chain the device finds the whole request. *)
LEMMA ChainIsRequest ==
    ASSUME Inv, NEW t \in Threads, ready, Filled(t), pc[t] \in InRing
    PROVE  Chain(Head(descs[t])) = Request(t)
  <1> DEFINE n == Len(Parts(op[t]))
             d(k) == descs[t][k]
             a(k) == <<t, Parts(op[t])[k]>>
  <1>1. /\ descs[t] \in Seq(Descs) /\ Len(descs[t]) = n /\ n \in {2, 3}
        /\ IsInjective(descs[t])
    BY PartsLen DEF Inv, CallTypes, Phase, DescriptorsConserved, InRing
  <1>2. /\ DOMAIN descs[t] = 1 .. n /\ Head(descs[t]) = d(1)
        /\ \A k \in 1 .. n : d(k) \in Descs
    BY <1>1, LenProperties, ElementOfSeq
  <1>3. \A j, k \in 1 .. n : d(j) = d(k) => j = k
    BY <1>1, <1>2 DEF IsInjective
  <1>4. \A k \in 1 .. n : /\ desc[d(k)].addr = a(k)
                          /\ desc[d(k)].more <=> k < n
                          /\ k < n => desc[d(k)].next = d(k + 1)
    BY <1>1 DEF Filled, InRing
  <1>5. Request(t) = [k \in 1 .. n |-> a(k)]
    BY <1>1 DEF Request
  <1>6. PICK F :
             /\ \A x : Chain(x) = F[QSIZE - 1][x]
             /\ \A m \in Nat, x \in Descs : ~desc[x].more => F[m][x] = <<desc[x].addr>>
             /\ \A m \in Nat, x \in Descs : desc[x].more =>
                   F[m + 1][x] = <<desc[x].addr>> \o F[m][desc[x].next]
    BY ChainUnfolds DEF Inv
  <1> HIDE DEF n, d, a
  <1>7. QSIZE \in Nat /\ n <= QSIZE
    <2>1. QSIZE \in Nat
      BY QueueAssumption
    <2>2. CASE n = 2
      BY <2>1, <2>2, <1>2, <1>3 DEF Descs
    <2>3. CASE n = 3
      BY <2>1, <2>3, <1>2, <1>3 DEF Descs
    <2> QED BY <2>2, <2>3, <1>1, <2>1
  <1>8. /\ \A m \in Nat : F[m][d(n)] = <<a(n)>>
        /\ \A m \in Nat, k \in 1 .. n - 1 : F[m + 1][d(k)] = <<a(k)>> \o F[m][d(k + 1)]
    <2>1. n \in 1 .. n /\ ~desc[d(n)].more /\ desc[d(n)].addr = a(n) /\ d(n) \in Descs
      BY <1>1, <1>2, <1>4
    <2>2. \A k \in 1 .. n - 1 : /\ desc[d(k)].more /\ d(k) \in Descs
                                /\ desc[d(k)].addr = a(k) /\ desc[d(k)].next = d(k + 1)
      BY <1>1, <1>2, <1>4
    <2>3. ASSUME NEW m \in Nat PROVE F[m][d(n)] = <<a(n)>>
      BY <2>1, <1>6, Zenon
    <2>4. ASSUME NEW m \in Nat, NEW k \in 1 .. n - 1
          PROVE  F[m + 1][d(k)] = <<a(k)>> \o F[m][d(k + 1)]
      <3>1. /\ desc[d(k)].more /\ d(k) \in Descs
            /\ desc[d(k)].addr = a(k) /\ desc[d(k)].next = d(k + 1)
        BY <2>2
      <3>2. F[m + 1][d(k)] = <<desc[d(k)].addr>> \o F[m][desc[d(k)].next]
        BY <3>1, <1>6, Zenon
      <3> QED BY <3>1, <3>2, Zenon
    <2> QED BY <2>3, <2>4
  <1>9. CASE n = 2
    <2>1. QSIZE - 2 \in Nat /\ (QSIZE - 2) + 1 = QSIZE - 1 /\ 1 \in 1 .. n - 1
      BY <1>7, <1>9
    <2>2. F[QSIZE - 1][d(1)] = <<a(1)>> \o <<a(2)>>
      <3>1. F[(QSIZE - 2) + 1][d(1)] = <<a(1)>> \o F[QSIZE - 2][d(1 + 1)]
        BY <2>1, <1>8, Zenon
      <3>2. F[QSIZE - 2][d(n)] = <<a(n)>>
        BY <2>1, <1>8, Zenon
      <3>3. 1 + 1 = 2
        OBVIOUS
      <3> QED BY <3>1, <3>2, <3>3, <2>1, <1>9, Zenon
    <2>3. <<a(1)>> \o <<a(2)>> = [k \in 1 .. 2 |-> a(k)]
      OBVIOUS
    <2> QED BY <2>2, <2>3, <1>2, <1>5, <1>6, <1>9
  <1>10. CASE n = 3
    <2>1. /\ QSIZE - 2 \in Nat /\ (QSIZE - 2) + 1 = QSIZE - 1 /\ 1 \in 1 .. n - 1
          /\ QSIZE - 3 \in Nat /\ (QSIZE - 3) + 1 = QSIZE - 2 /\ 2 \in 1 .. n - 1
      BY <1>7, <1>10
    <2>a. 1 + 1 = 2 /\ 2 + 1 = 3
      OBVIOUS
    <2>2. F[QSIZE - 1][d(1)] = <<a(1)>> \o F[QSIZE - 2][d(2)]
      <3>1. F[(QSIZE - 2) + 1][d(1)] = <<a(1)>> \o F[QSIZE - 2][d(1 + 1)]
        BY <2>1, <1>8, Zenon
      <3> QED BY <3>1, <2>1, <2>a, Zenon
    <2>3. F[QSIZE - 2][d(2)] = <<a(2)>> \o <<a(3)>>
      <3>1. F[(QSIZE - 3) + 1][d(2)] = <<a(2)>> \o F[QSIZE - 3][d(2 + 1)]
        BY <2>1, <1>8, Zenon
      <3>2. F[QSIZE - 3][d(n)] = <<a(n)>>
        BY <2>1, <1>8, Zenon
      <3> QED BY <3>1, <3>2, <2>1, <2>a, <1>10, Zenon
    <2>4. <<a(1)>> \o (<<a(2)>> \o <<a(3)>>) = [k \in 1 .. 3 |-> a(k)]
      OBVIOUS
    <2> QED BY <2>2, <2>3, <2>4, <1>2, <1>5, <1>6, <1>10
  <1> QED BY <1>1, <1>9, <1>10

LEMMA RequestEnds ==
    ASSUME Inv, NEW t \in Threads, pc[t] \in InRing
    PROVE  Last(Request(t)) = <<t, "status">>
  <1> DEFINE n == Len(Parts(op[t]))
  <1>1. Len(descs[t]) = n /\ n \in {2, 3}
    BY PartsLen DEF Inv, Phase, InRing
  <1>2. Parts(op[t])[n] = "status"
    BY DEF Parts
  <1>3. Request(t) = [k \in 1 .. n |-> <<t, Parts(op[t])[k]>>]
    BY <1>1 DEF Request
  <1> HIDE DEF n
  <1>4. Len(Request(t)) = n /\ Request(t)[n] = <<t, Parts(op[t])[n]>>
    BY <1>1, <1>3
  <1> QED BY <1>2, <1>4 DEF Last

(* With one call under way its request is in one place. *)
LEMMA Places ==
    ASSUME Inv, Alone, NEW t \in Threads, ~Idle(t)
    PROVE  /\ pc[t] \notin InRing =>
                 usedNo = used_idx /\ working = <<>> /\ (device = "live" => seen = avail_idx)
           /\ device = "live" /\ seen # avail_idx =>
                 working = <<>> /\ usedNo = used_idx /\ Wrap(avail_idx - seen) = 1
           /\ working # <<>> =>
                 Len(working) = 1 /\ usedNo = used_idx /\ seen = avail_idx /\ device = "live"
           /\ usedNo # used_idx => Unread = 1
  <1> DEFINE C == Cardinality(Waiting)
             E == Wrap(usedNo - used_idx)
             N == Wrap(avail_idx - seen)
             L == Len(working)
  <1>1. /\ pc[t] \in InRing => C = 1
        /\ pc[t] \notin InRing => C = 0
        /\ C \in Nat /\ C <= 1
    <2>1. Waiting = IF pc[t] \in InRing THEN {t} ELSE {}
      BY DEF Alone, Waiting, InRing, Idle
    <2> QED BY <2>1, FS_Singleton, FS_EmptySet
  <1>2. /\ E \in Nat /\ N \in Nat /\ (E = 0 <=> usedNo = used_idx) /\ (N = 0 <=> avail_idx = seen)
    <2>1. avail_idx \in Indices /\ used_idx \in Indices /\ usedNo \in Indices /\ seen \in Indices
      BY DEF Inv, QueueTypes
    <2>2. \A i \in Indices : i \in Nat
      BY QueueAssumption DEF Indices
    <2> QED BY <2>1, <2>2, WrapIndex
  <1>3. L \in Nat /\ (L = 0 <=> working = <<>>)
    BY LenProperties, EmptySeq DEF Inv, DeviceTypes
  <1>4. /\ E <= C /\ (device = "live" => C = N + L + E) /\ (device # "live" => working = <<>>)
    BY DEF Inv, RingInv, RingsBalanced, Unread
  <1> HIDE DEF C, E, N, L
  <1>5. /\ pc[t] \notin InRing => E = 0 /\ L = 0 /\ (device = "live" => N = 0)
        /\ device = "live" /\ N # 0 => L = 0 /\ E = 0 /\ N = 1
        /\ L # 0 => L = 1 /\ E = 0 /\ N = 0 /\ device = "live"
        /\ E # 0 => E = 1
    BY <1>1, <1>2, <1>3, <1>4
  <1> QED BY <1>2, <1>3, <1>5 DEF E, N, L, Unread

(* What is being worked on belongs to somebody. *)
LEMMA SomebodyWaits ==
    ASSUME Inv, working # <<>> \/ (device = "live" /\ seen # avail_idx)
    PROVE  \E t \in Threads : pc[t] \in InRing
  <1> SUFFICES ASSUME \A t \in Threads : pc[t] \notin InRing PROVE FALSE
    OBVIOUS
  <1>1. Cardinality(Waiting) = 0
    <2>1. Waiting = {}
      BY DEF Waiting, InRing
    <2> QED BY <2>1, FS_EmptySet
  <1>2. /\ Wrap(usedNo - used_idx) \in Nat /\ Wrap(avail_idx - seen) \in Nat
        /\ (Wrap(avail_idx - seen) = 0 <=> avail_idx = seen)
    <2>1. avail_idx \in Indices /\ used_idx \in Indices /\ usedNo \in Indices /\ seen \in Indices
      BY DEF Inv, QueueTypes
    <2>2. \A i \in Indices : i \in Nat
      BY QueueAssumption DEF Indices
    <2> QED BY <2>1, <2>2, WrapIndex
  <1>3. Len(working) \in Nat /\ (Len(working) = 0 <=> working = <<>>)
    BY LenProperties, EmptySeq DEF Inv, DeviceTypes
  <1> QED BY <1>1, <1>2, <1>3 DEF Inv, RingInv, RingsBalanced

LEMMA SerialInit == Init => SerialInv
  BY DEF Init, SerialInv, Statuses, Results, Filled, Idle, Alone, Owned, Answered, InRing

(* Only Enter sets shared, and only if another call is under way. *)
LEMMA SharedStep ==
    ASSUME SerialInv, Next
    PROVE  /\ shared' \in BOOLEAN
           /\ ~shared' => ~shared
           /\ ~shared' /\ (uninstall \/ \E t \in Threads : Call(t)) => \A u \in Threads : Idle(u)
  <1>1. CASE Enter
    BY <1>1 DEF Enter, SerialInv
  <1>2. CASE UNCHANGED use /\ ~uninstall /\ ~\E t \in Threads : Call(t)
    BY <1>2 DEF use, SerialInv
  <1>3. uninstall \/ (\E t \in Threads : Call(t)) => Enter
    BY Calls DEF uninstall, Submit
  <1>4. ASSUME NEW t \in Threads, Progress(t) PROVE UNCHANGED use
    BY <1>4 DEF Progress, allocate_descriptor, allocate_descriptor_Empty, set_available_ring,
       queue_notify, pop_used, check_status, dequeue_used
  <1>5. \/ \E outcome \in {"ok", "late", "refused"}, ro \in {"yes", "no"} : init(outcome, ro)
        \/ DeviceFetch \/ DeviceAnswers
        => UNCHANGED use
    BY DEF init, DeviceFetch, DeviceAnswers, DeviceAnswer
  <1> QED BY <1>1, <1>2, <1>3, <1>4, <1>5 DEF Next

LEMMA ProgressBusy ==
    ASSUME NEW t \in Threads, Progress(t)
    PROVE  ~Idle(t)
  BY DEF Progress, allocate_descriptor, allocate_descriptor_Empty, set_available_ring, Idle,
     queue_notify, pop_used, check_status, dequeue_used, Goto

(* A call that is alone stays so. *)
LEMMA AloneStep ==
    ASSUME Inv, SerialInv, Next, ~shared'
    PROVE  Alone'
  <1>a. ~shared /\ Alone /\ CallTypes
    BY SharedStep DEF SerialInv, Inv
  <1>1. CASE pc' = pc
    BY <1>1, <1>a DEF Alone, Idle
  <1>2. ASSUME NEW t \in Threads, Call(t) PROVE Alone'
    <2>1. \A u \in Threads : Idle(u)
      BY <1>2, SharedStep
    <2>2. \A u \in Threads : u # t => pc'[u] = pc[u]
      BY <1>2, OtherCalls
    <2> QED BY <2>1, <2>2 DEF Alone, Idle
  <1>3. ASSUME NEW t \in Threads, Progress(t) PROVE Alone'
    <2>1. ~Idle(t)
      BY <1>3, ProgressBusy
    <2>2. \A u \in Threads : u # t => pc'[u] = pc[u]
      BY <1>3, OtherCalls
    <2> QED BY <2>1, <2>2, <1>a DEF Alone, Idle
  <1>4. \/ \E outcome \in {"ok", "late", "refused"}, ro \in {"yes", "no"} : init(outcome, ro)
        \/ uninstall \/ DeviceFetch \/ DeviceAnswers
        => pc' = pc
    BY DEF init, uninstall, DeviceFetch, DeviceAnswers, DeviceAnswer, calls
  <1> QED BY <1>1, <1>2, <1>3, <1>4 DEF Next

(* The table is written where a call takes or gives back a descriptor. *)
Filling == {"alloc", "publish", "notify", "wait", "check"}

LEMMA FilledStays ==
    ASSUME CallTypes, NEW u \in Threads, Filled(u),
           pc'[u] \in Filling => pc[u] \in Filling /\ op'[u] = op[u],
           descs'[u] = descs[u], \A x \in ToSet(descs[u]) : desc'[x] = desc[x]
    PROVE  Filled(u)'
  <1> SUFFICES ASSUME pc'[u] \in Filling, NEW k \in 1 .. Len(descs[u])
               PROVE  /\ desc'[descs[u][k]].addr = <<u, Parts(op[u])[k]>>
                      /\ desc'[descs[u][k]].more <=> k < Len(Parts(op[u]))
                      /\ k < Len(descs[u]) => desc'[descs[u][k]].next = descs[u][k + 1]
    BY DEF Filled, Filling
  <1>1. descs[u][k] \in ToSet(descs[u])
    BY LenProperties DEF CallTypes, ToSet
  <1>2. desc'[descs[u][k]] = desc[descs[u][k]]
    BY <1>1
  <1> QED BY <1>2 DEF Filled, Filling

LEMMA FilledStep ==
    ASSUME Inv, SerialInv, Next
    PROVE  \A u \in Threads : Filled(u)' /\ (~Idle(u) => ready)'
  <1> SUFFICES ASSUME NEW u \in Threads PROVE Filled(u)' /\ (~Idle(u) => ready)'
    OBVIOUS
  <1>a. CallTypes /\ QueueTypes /\ RingTypes /\ Phase(u) /\ Filled(u) /\ (~Idle(u) => ready)
    BY DEF Inv, SerialInv
  <1>b. ready => /\ IsInjective(free) /\ \A t \in Threads : IsInjective(descs[t])
                 /\ Shares(ToSet(free), Holdings)
    BY InShares DEF Inv
  <1>1. CASE UNCHANGED <<desc, pc, op, descs, ready>>
    BY <1>1, <1>a, FilledStays DEF Idle
  <1>2. ASSUME NEW outcome \in {"ok", "late", "refused"}, NEW ro \in {"yes", "no"},
               init(outcome, ro)
        PROVE  Filled(u)' /\ (~Idle(u) => ready)'
    BY <1>2 DEF init, calls, Idle, Filled
  <1>3. ASSUME NEW t \in Threads, Call(t) PROVE Filled(u)' /\ (~Idle(u) => ready)'
    <2>1. PICK o \in {"rw", "flush"} : Submit(t, o)
      BY <1>3, Calls
    <2>2. ready /\ ready' = ready /\ desc' = desc /\ descs' = descs
      BY <2>1 DEF Submit, driver, rings
    <2>3. CASE u # t
      <3>1. pc'[u] = pc[u] /\ op'[u] = op[u]
        BY <1>3, <2>3, OtherCalls
      <3> QED BY <3>1, <2>2, <1>a, FilledStays DEF Idle
    <2>4. CASE u = t
      <3>1. descs'[u] = <<>>
        BY <2>1, <2>2, <2>4, <1>a DEF Submit, Goto, Phase
      <3>2. Len(descs'[u]) = 0
        BY <3>1, EmptySeq
      <3> QED BY <3>2, <2>2 DEF Filled
    <2> QED BY <2>3, <2>4
  <1>4. ASSUME NEW t \in Threads, allocate_descriptor(t)
        PROVE  Filled(u)' /\ (~Idle(u) => ready)'
    <2> DEFINE d == Head(free)
               n == Len(descs[t])
               a == <<t, Parts(op[t])[n + 1]>>
               m == n + 1 < Len(Parts(op[t]))
               nx == desc[d].next
               e == [addr |-> a, more |-> m, next |-> nx]
               filled == [desc EXCEPT ![d] = e]
    <2>a. ready /\ ready' = ready
      BY <1>4, ProgressBusy DEF Progress, SerialInv, allocate_descriptor, driver
    <2>b. descs[t] \in Seq(Descs) /\ n \in Nat /\ free \in Seq(Descs) /\ free # <<>>
      BY <1>4, <1>a, LenProperties DEF allocate_descriptor, CallTypes, QueueTypes
    <2>c. /\ Filled(t) /\ Phase(t) /\ pc[t] = "alloc" /\ op' = op
          /\ descs' = [descs EXCEPT ![t] = Append(descs[t], d)]
      BY <1>4 DEF Inv, SerialInv, allocate_descriptor, Goto
    <2>d. desc' = IF n + 1 = 1 THEN filled ELSE [filled EXCEPT ![Last(descs[t])].next = d]
      BY <1>4 DEF allocate_descriptor, Chained
    <2>1. d \in Descs /\ d \in ToSet(free)
      BY <2>a, <2>b, <1>b, TakeFirst
    <2>2. n # 0 => /\ Last(descs[t]) = descs[t][n] /\ Last(descs[t]) \in ToSet(descs[t])
                   /\ Last(descs[t]) \in Descs
      <3>1. n # 0 => n \in 1 .. n /\ DOMAIN descs[t] = 1 .. n
        BY <2>b, LenProperties
      <3>2. Last(descs[t]) = descs[t][n]
        BY DEF Last
      <3>3. n # 0 => descs[t][n] \in Descs
        BY <3>1, <2>b, ElementOfSeq
      <3> QED BY <3>1, <3>2, <3>3 DEF ToSet
    <2>3. d \notin ToSet(descs[t]) /\ d \notin ToSet(descs[u])
      BY <2>1, <2>a, <1>b DEF Shares, Holdings
    <2> HIDE DEF d, n, a, m, nx
    <2>4. DOMAIN desc = Descs /\ \A x \in Descs : x # d => filled[x] = desc[x]
      BY <1>a DEF RingTypes
    <2>5. filled[d] = e /\ DOMAIN filled = Descs
      BY <2>1, <2>4
    <2>6. e.addr = a /\ e.more = m /\ e.next = nx
      OBVIOUS
    <2> HIDE DEF e, filled
    <2>7. \A x \in Descs : x # d /\ (n # 0 => x # Last(descs[t])) => desc'[x] = desc[x]
      BY <2>2, <2>4, <2>5, <2>d, <2>b
    <2>8. CASE u # t
      <3>1. ToSet(descs[u]) \subseteq Descs /\ (n # 0 => Last(descs[t]) \notin ToSet(descs[u]))
        BY <2>2, <2>8, <2>a, <1>b DEF Shares, Holdings
      <3>2. \A x \in ToSet(descs[u]) : desc'[x] = desc[x]
        BY <3>1, <2>3, <2>7
      <3>3. pc'[u] = pc[u] /\ op'[u] = op[u] /\ descs'[u] = descs[u]
        BY <1>4, <2>8, OtherCalls DEF Progress
      <3> QED BY <3>2, <3>3, <2>a, <1>a, FilledStays DEF Idle
    <2>9. CASE u = t
      <3>1. desc'[d].addr = a /\ (desc'[d].more <=> m)
        <4>1. CASE n = 0
          BY <4>1, <2>d, <2>5, <2>6
        <4>2. CASE n # 0
          <5>1. desc'[d] = e
            BY <4>2, <2>2, <2>3, <2>b, <2>1, <2>d, <2>5
          <5> QED BY <5>1, <2>6
        <4> QED BY <4>1, <4>2
      <3>2. /\ descs'[t] = Append(descs[t], d) /\ Len(descs'[t]) = n + 1 /\ descs'[t][n + 1] = d
            /\ \A k \in 1 .. n : descs'[t][k] = descs[t][k]
        <4>1. descs'[t] = Append(descs[t], d)
          BY <2>c, <1>a DEF CallTypes
        <4> QED BY <4>1, <2>b, <2>1, AppendProperties DEF n
      <3>3. \A k \in 1 .. n : descs[t][k] \in Descs /\ descs[t][k] # d
        BY <2>b, <2>3, ElementOfSeq, LenProperties DEF n, ToSet
      <3>4. n # 0 => /\ desc'[Last(descs[t])].next = d
                     /\ desc'[Last(descs[t])].addr = desc[Last(descs[t])].addr
                     /\ desc'[Last(descs[t])].more = desc[Last(descs[t])].more
        <4> SUFFICES ASSUME n # 0
                     PROVE  /\ desc'[Last(descs[t])].next = d
                            /\ desc'[Last(descs[t])].addr = desc[Last(descs[t])].addr
                            /\ desc'[Last(descs[t])].more = desc[Last(descs[t])].more
          OBVIOUS
        <4> DEFINE l == Last(descs[t])
        <4>1. l \in Descs /\ l # d
          BY <2>2, <2>3
        <4>2. desc' = [filled EXCEPT ![l].next = d]
          BY <2>d, <2>b
        <4> HIDE DEF l
        <4>3. filled[l] = desc[l] /\ desc[l] \in Entries
          BY <4>1, <2>4, <1>a DEF RingTypes
        <4>4. desc'[l] = [desc[l] EXCEPT !.next = d]
          BY <4>1, <4>2, <4>3, <2>5
        <4> DEFINE r == desc[l]
                   ra == r.addr
                   rm == r.more
                   rn == r.next
        <4>5. r = [addr |-> ra, more |-> rm, next |-> rn]
          BY <4>3 DEF Entries
        <4>6. desc'[l] = [r EXCEPT !.next = d]
          BY <4>4
        <4> HIDE DEF r, ra, rm, rn
        <4>7. desc'[l] = [addr |-> ra, more |-> rm, next |-> d]
          BY <4>5, <4>6
        <4>8. desc'[l].next = d /\ desc'[l].addr = ra /\ desc'[l].more = rm
          BY <4>7
        <4> QED BY <4>8 DEF ra, rm, r, l
      <3>5. ASSUME NEW k \in 1 .. n + 1
            PROVE  /\ desc'[descs'[t][k]].addr = <<t, Parts(op[t])[k]>>
                   /\ desc'[descs'[t][k]].more <=> k < Len(Parts(op[t]))
                   /\ k < n + 1 => desc'[descs'[t][k]].next = descs'[t][k + 1]
        <4>1. CASE k = n + 1
          BY <4>1, <3>1, <3>2, <2>b DEF a, m
        <4>2. CASE k # n + 1
          <5>1. k \in 1 .. n
            BY <4>2, <2>b DEF n
          <5>2. /\ desc[descs[t][k]].addr = <<t, Parts(op[t])[k]>>
                /\ desc[descs[t][k]].more <=> k < Len(Parts(op[t]))
                /\ k < n => desc[descs[t][k]].next = descs[t][k + 1]
            BY <5>1, <2>c DEF Filled, n
          <5>3. CASE k = n
            <6>1. n # 0 /\ descs'[t][k] = Last(descs[t]) /\ descs[t][k] = Last(descs[t])
                  /\ descs'[t][k + 1] = d
              BY <5>1, <5>3, <3>2, <2>2, <2>b
            <6> QED BY <6>1, <5>2, <3>4
          <5>4. CASE k # n
            <6>1. k < n /\ k + 1 \in 1 .. n /\ n # 0 /\ n \in 1 .. n
              BY <5>1, <5>4, <2>b DEF n
            <6>2. descs'[t][k] = descs[t][k] /\ descs'[t][k + 1] = descs[t][k + 1]
              BY <5>1, <6>1, <3>2
            <6>3. descs[t][k] # Last(descs[t])
              <7>1. IsInjective(descs[t]) /\ DOMAIN descs[t] = 1 .. n
                BY <2>a, <2>b, <1>b, LenProperties DEF n
              <7> QED BY <7>1, <5>1, <5>4, <6>1, <2>2 DEF IsInjective
            <6>4. desc'[descs[t][k]] = desc[descs[t][k]]
              BY <6>3, <5>1, <3>3, <2>7
            <6> QED BY <6>1, <6>2, <6>4, <5>2
          <5> QED BY <5>3, <5>4
        <4> QED BY <4>1, <4>2
      <3>6. Filled(t)'
        BY <3>2, <3>5, <2>c DEF Filled
      <3> QED BY <3>6, <2>9, <2>a
    <2> QED BY <2>8, <2>9
  <1>5. ASSUME NEW t \in Threads, dequeue_used(t) PROVE Filled(u)' /\ (~Idle(u) => ready)'
    <2> DEFINE d == Head(descs[t])
    <2>1. ready /\ ready' = ready
      BY <1>5, ProgressBusy DEF Progress, SerialInv, dequeue_used, driver
    <2>2. descs[t] \in Seq(Descs) /\ descs[t] # <<>> /\ pc[t] = "free"
      BY <1>5 DEF dequeue_used, Inv, CallTypes, Phase
    <2>3. d \in Descs /\ d \in ToSet(descs[t])
      BY <2>1, <2>2, <1>b, TakeFirst
    <2>4. desc' = [desc EXCEPT ![d].addr = LINK]
      BY <1>5 DEF dequeue_used
    <2> HIDE DEF d
    <2>5. CASE u = t
      BY <2>5, <2>1, <2>2, <1>5, <1>a DEF dequeue_used, Return, Filled, CallTypes
    <2>6. CASE u # t
      <3>1. ToSet(descs[u]) \subseteq Descs /\ d \notin ToSet(descs[u])
        BY <2>3, <2>6, <2>1, <1>b DEF Shares, Holdings
      <3>2. \A x \in ToSet(descs[u]) : desc'[x] = desc[x]
        BY <3>1, <2>4, <1>a DEF RingTypes
      <3>3. pc'[u] = pc[u] /\ op'[u] = op[u] /\ descs'[u] = descs[u]
        BY <1>5, <2>6, OtherCalls DEF Progress
      <3> QED BY <3>2, <3>3, <2>1, <1>a, FilledStays DEF Idle
    <2> QED BY <2>5, <2>6
  <1>6. ASSUME NEW t \in Threads,
               allocate_descriptor_Empty(t) \/ set_available_ring(t) \/ queue_notify(t)
               \/ pop_used(t) \/ check_status(t)
        PROVE  Filled(u)' /\ (~Idle(u) => ready)'
    <2>1. desc' = desc /\ descs' = descs /\ ready' = ready /\ ready
      <3>1. Progress(t)
        BY <1>6 DEF Progress
      <3>2. ready
        BY <3>1, ProgressBusy DEF SerialInv
      <3> QED BY <3>2, <1>6 DEF allocate_descriptor_Empty, set_available_ring, queue_notify,
             pop_used, check_status, driver, rings
    <2>2. CASE u # t
      <3>1. pc'[u] = pc[u] /\ op'[u] = op[u]
        BY <1>6, <2>2, OtherCalls DEF Progress
      <3> QED BY <3>1, <2>1, <1>a, FilledStays
    <2>3. CASE u = t /\ \E r : Finish(t, r)
      <3>1. pc'[t] \in {"idle", "free"}
        BY <2>3, <1>a, Finishes DEF CallTypes
      <3> QED BY <3>1, <2>1, <2>3 DEF Filled
    <2>4. CASE u = t /\ op' = op /\ pc[t] \in Filling
      BY <2>4, <2>1, <1>a, FilledStays
    <2> QED
      BY <2>2, <2>3, <2>4, <1>6 DEF allocate_descriptor_Empty, set_available_ring, queue_notify,
         pop_used, check_status, Goto, Filling
  <1>7. uninstall \/ DeviceFetch \/ DeviceAnswers => UNCHANGED <<desc, pc, op, descs, ready>>
    BY DEF uninstall, DeviceFetch, DeviceAnswers, DeviceAnswer, driver, rings, calls
  <1> QED BY <1>1, <1>2, <1>3, <1>4, <1>5, <1>6, <1>7 DEF Next, Progress

(* What a call that ends with result r leaves in its locals. *)
LEMMA FinishResult ==
    ASSUME SerialInv, NEW t \in Threads, NEW r \in Results, Finish(t, r)
    PROVE  /\ status' \in [Threads -> Statuses] /\ ret' \in [Threads -> Results]
           /\ \A u \in Threads \ {t} : status'[u] = status[u] /\ ret'[u] = ret[u]
           /\ descs[t] = <<>> => status'[t] = "RESERVED"
           /\ descs[t] # <<>> => status'[t] = status[t] /\ ret'[t] = r
  BY DEF Finish, Return, SerialInv, Statuses

LEMMA OtherValues ==
    ASSUME SerialInv, NEW t \in Threads, Call(t) \/ Progress(t)
    PROVE  /\ status' \in [Threads -> Statuses] /\ ret' \in [Threads -> Results]
           /\ \A u \in Threads \ {t} : status'[u] = status[u] /\ ret'[u] = ret[u]
  <1>a. status \in [Threads -> Statuses] /\ ret \in [Threads -> Results]
    BY DEF SerialInv
  <1>1. CASE UNCHANGED <<status, ret>>
    BY <1>1, <1>a
  <1>2. CASE \E r \in Results : Finish(t, r)
    BY <1>2, FinishResult
  <1>3. CASE dequeue_used(t)
    BY <1>3, <1>a DEF dequeue_used, Return, Statuses, Results
  <1>4. check_status(t) => \E r \in Results : Finish(t, r)
    BY DEF check_status, Results
  <1>5. Call(t) \/ allocate_descriptor(t) \/ queue_notify(t) => UNCHANGED <<status, ret>>
    BY Calls DEF Submit, allocate_descriptor, queue_notify
  <1>6. allocate_descriptor_Empty(t) \/ set_available_ring(t) \/ pop_used(t)
        => UNCHANGED <<status, ret>> \/ \E r \in Results : Finish(t, r)
    BY DEF allocate_descriptor_Empty, set_available_ring, pop_used, Results
  <1> QED BY <1>1, <1>2, <1>3, <1>4, <1>5, <1>6 DEF Progress

LEMMA ValuesStep ==
    ASSUME SerialInv, Next
    PROVE  status' \in [Threads -> Statuses] /\ ret' \in [Threads -> Results]
  <1>a. status \in [Threads -> Statuses] /\ ret \in [Threads -> Results]
    BY DEF SerialInv
  <1>1. CASE \E t \in Threads : Call(t) \/ Progress(t)
    BY <1>1, OtherValues
  <1>2. CASE DeviceAnswers
    BY <1>2, <1>a DEF DeviceAnswers, DeviceAnswer, Statuses
  <1>3. CASE \/ \E outcome \in {"ok", "late", "refused"}, ro \in {"yes", "no"} : init(outcome, ro)
             \/ uninstall \/ DeviceFetch
    BY <1>3, <1>a DEF init, uninstall, DeviceFetch, calls
  <1> QED BY <1>1, <1>2, <1>3 DEF Next

(* A step of the call that is alone. *)
LEMMA OwnStep ==
    ASSUME Inv, SerialInv, ~shared, NEW t \in Threads, Progress(t)
    PROVE  Owned(t)' /\ Answered(t)'
  <1>a. /\ Alone /\ Owned(t) /\ Answered(t) /\ CallTypes /\ Phase(t) /\ RingTypes /\ QueueTypes
        /\ status \in [Threads -> Statuses] /\ ret \in [Threads -> Results]
    BY DEF SerialInv, Inv
  <1>b. ~Idle(t)
    BY ProgressBusy
  <1>c. pc'[t] \notin InRing => Owned(t)'
    BY DEF Owned
  (* Ending with an error before the device has answered, or with its answer. *)
  <1>d. ASSUME NEW r \in Results, Finish(t, r), r = "Ok" <=> status[t] = "OK"
        PROVE  Owned(t)' /\ Answered(t)'
    <2>1. pc'[t] = IF descs[t] = <<>> THEN "idle" ELSE "free"
      BY <1>d, <1>a, Finishes DEF CallTypes
    <2>2. /\ descs[t] = <<>> => status'[t] = "RESERVED"
          /\ descs[t] # <<>> => status'[t] = status[t] /\ ret'[t] = r
      BY <1>d, FinishResult
    <2> QED BY <1>c, <1>d, <2>1, <2>2 DEF Answered, InRing
  <1>1. CASE allocate_descriptor(t)
    <2>1. pc'[t] \in {"alloc", "publish"} /\ pc[t] = "alloc" /\ status' = status
      BY <1>1, <1>a DEF allocate_descriptor, Goto, CallTypes
    <2> QED BY <2>1, <1>a, <1>c DEF Answered, InRing
  <1>2. CASE allocate_descriptor_Empty(t)
    <2>1. Finish(t, "Busy") /\ status[t] # "OK" /\ "Busy" \in Results
      BY <1>2, <1>a DEF allocate_descriptor_Empty, Answered, Results
    <2> QED BY <2>1, <1>d
  <1>3. CASE set_available_ring(t)
    <2>1. pc[t] = "publish" /\ status[t] # "OK"
      BY <1>3, <1>a DEF set_available_ring, Answered
    <2>2. CASE Finish(t, "Busy")
      BY <2>1, <2>2, <1>d DEF Results
    <2>3. CASE ~Finish(t, "Busy")
      <3>1. /\ avail' = [avail EXCEPT ![Slot(avail_idx)] = Head(descs[t])]
            /\ pc'[t] = "notify" /\ UNCHANGED <<status, descs, device, seen, working, usedNo, used_idx>>
        BY <1>3, <2>3, <1>a DEF set_available_ring, Goto, dev, CallTypes
      <3>2. /\ usedNo = used_idx /\ working = <<>> /\ (device = "live" => seen = avail_idx)
        BY <2>1, <1>a, <1>b, Places DEF InRing
      <3>3. avail'[Slot(avail_idx)] = Head(descs[t])
        <4>1. Slot(avail_idx) \in Descs
          BY <1>a, WrapIndex DEF QueueTypes
        <4> QED BY <4>1, <3>1, <1>a DEF RingTypes
      <3>4. Owned(t)'
        BY <3>1, <3>2, <3>3 DEF Owned
      <3> QED BY <3>1, <3>4, <2>1 DEF Answered, InRing
    <2> QED BY <2>2, <2>3
  <1>4. CASE queue_notify(t)
    <2>1. /\ pc[t] = "notify" /\ pc'[t] = "wait"
          /\ UNCHANGED <<status, op, descs, device, seen, working, usedNo, used_idx, used, avail,
                         avail_idx>>
      BY <1>4, <1>a DEF queue_notify, Goto, queue, rings, CallTypes
    <2> QED BY <2>1, <1>a DEF Owned, Answered, InRing, Request
  <1>5. CASE pop_used(t)
    <2>1. pc[t] = "wait" /\ Unread # 0
      BY <1>5 DEF pop_used, Unread
    <2>2. usedNo # used_idx
      BY <2>1, <1>a, WrapIndex DEF QueueTypes, Unread
    <2>3. ~(Unread > QSIZE)
      <3>1. Unread = 1 /\ QSIZE \in Nat \ {0}
        BY <2>2, <1>a, <1>b, Places, QueueAssumption
      <3> QED BY <3>1
    <2>4. used[Slot(used_idx)] = Head(descs[t])
      BY <2>1, <2>2, <1>a DEF Owned, InRing
    <2>5. Goto(t, "wait", "check")
      BY <1>5, <2>3, <2>4 DEF pop_used, Unread
    <2>6. pc'[t] = "check"
      BY <2>5, <1>a DEF Goto, CallTypes
    <2> QED BY <2>6, <1>c DEF Answered, InRing
  <1>6. CASE check_status(t)
    <2>1. PICK r \in Results : Finish(t, r) /\ (r = "Ok" <=> status[t] = "OK")
      <3>1. CASE status[t] = "OK"
        BY <3>1, <1>6 DEF check_status, Results
      <3>2. CASE status[t] = "UNSUPP"
        BY <3>2, <1>6 DEF check_status, Results
      <3>3. CASE status[t] # "OK" /\ status[t] # "UNSUPP"
        BY <3>3, <1>6 DEF check_status, Results
      <3> QED BY <3>1, <3>2, <3>3
    <2> QED BY <2>1, <1>d
  <1>7. CASE dequeue_used(t)
    <2>1. /\ pc[t] = "free"
          /\ \/ pc'[t] = "idle" /\ status'[t] = "RESERVED"
             \/ pc'[t] = "free" /\ UNCHANGED <<status, ret>>
      BY <1>7, <1>a DEF dequeue_used, Return, CallTypes
    <2> QED BY <2>1, <1>a, <1>c DEF Answered, InRing
  <1> QED BY <1>1, <1>2, <1>3, <1>4, <1>5, <1>6, <1>7 DEF Progress

(* The device takes up the one request there is. *)
LEMMA FetchStep ==
    ASSUME Inv, SerialInv, ~shared, DeviceFetch, NEW u \in Threads
    PROVE  Owned(u)' /\ Answered(u)'
  <1>a. Alone /\ Owned(u) /\ Answered(u) /\ QueueTypes /\ Filled(u) /\ (~Idle(u) => ready)
    BY DEF SerialInv, Inv
  <1>1. /\ UNCHANGED <<pc, op, descs, status, ret, used_idx, usedNo, used, avail, avail_idx, device>>
        /\ device = "live"
    BY DEF DeviceFetch, calls, queue, rings
  <1>2. Answered(u)'
    BY <1>1, <1>a DEF Answered
  <1>3. CASE pc[u] \notin InRing
    BY <1>1, <1>2, <1>3 DEF Owned
  <1>4. CASE pc[u] \in InRing /\ seen = avail_idx
    <2>1. UNCHANGED <<seen, working>>
      BY <1>4 DEF DeviceFetch
    <2> QED BY <1>1, <1>2, <1>a, <2>1 DEF Owned, Request
  <1>5. CASE pc[u] \in InRing /\ seen # avail_idx
    <2> DEFINE h == avail[Slot(seen)]
               w == [head |-> h, addrs |-> Chain(h)]
    <2>a. ~Idle(u)
      BY <1>5 DEF Idle, InRing
    <2>1. working = <<>> /\ usedNo = used_idx /\ Wrap(avail_idx - seen) = 1
      BY <1>1, <1>5, <1>a, <2>a, Places
    <2>2. working' = Append(working, w) /\ seen' = Wrap(seen + 1)
      BY <1>5 DEF DeviceFetch
    <2>3. seen' = avail_idx
      <3>1. avail_idx \in Indices /\ seen \in Indices
        BY <1>a DEF QueueTypes
      <3>2. Wrap(seen + 1) \in Indices /\ Wrap(avail_idx - Wrap(seen + 1)) = Wrap(avail_idx - seen) - 1
        BY <3>1, <2>1, WrapBehind, WrapIndex
      <3>3. Wrap(avail_idx - Wrap(seen + 1)) = 0
        BY <3>2, <2>1
      <3> QED BY <3>1, <3>2, <3>3, <2>2, WrapIndex
    <2>4. h = Head(descs[u]) /\ Chain(h) = Request(u)
      <3>1. h = Head(descs[u])
        BY <1>1, <1>5, <1>a DEF Owned
      <3> QED BY <3>1, <1>5, <1>a, <2>a, ChainIsRequest
    <2>5. w.head = h /\ w.addrs = Chain(h)
      OBVIOUS
    <2> HIDE DEF h, w
    <2>6. working'[1] = w
      BY <2>1, <2>2
    <2> QED BY <1>1, <1>2, <2>1, <2>3, <2>4, <2>5, <2>6 DEF Owned, Request
  <1> QED BY <1>3, <1>4, <1>5

(* The device answers it, to the call that waits. *)
LEMMA AnswerStep ==
    ASSUME Inv, SerialInv, ~shared, NEW i \in 1 .. Len(working), NEW s, DeviceAnswer(i, s),
           NEW u \in Threads
    PROVE  Owned(u)' /\ Answered(u)'
  <1>a. /\ Alone /\ Owned(u) /\ Answered(u) /\ QueueTypes /\ RingTypes
        /\ status \in [Threads -> Statuses]
    BY DEF SerialInv, Inv
  <1>1. /\ UNCHANGED <<pc, op, descs, ret, used_idx, avail, avail_idx, seen, device>>
        /\ working' = RemoveAt(working, i) /\ usedNo' = Wrap(usedNo + 1)
        /\ used' = [used EXCEPT ![Slot(usedNo)] = working[i].head]
        /\ status' = [t \in Threads |->
                        IF Last(working[i].addrs) = <<t, "status">> THEN s ELSE status[t]]
    BY DEF DeviceAnswer, queue
  <1>2. working # <<>>
    BY EmptySeq
  <1>3. PICK t \in Threads : pc[t] \in InRing
    BY <1>2, SomebodyWaits
  <1>4. ~Idle(t) /\ Owned(t) /\ (u # t => pc[u] = "idle")
    BY <1>3, <1>a DEF Idle, InRing, Alone, SerialInv
  <1>5. Len(working) = 1 /\ usedNo = used_idx /\ seen = avail_idx
    BY <1>2, <1>4, <1>a, Places
  <1>6. i = 1
    BY <1>5
  <1>7. working[i].head = Head(descs[t]) /\ Last(working[i].addrs) = <<t, "status">>
    BY <1>2, <1>3, <1>4, <1>6, RequestEnds DEF Owned
  <1>8. working' = <<>>
    <2>1. PICK S : working \in Seq(S)
      BY DEF Inv, DeviceTypes
    <2>2. working' \in Seq(S) /\ Len(working') = Len(working) - 1
      BY <2>1, <1>1, Removed
    <2>3. Len(working') = 0
      BY <2>2, <1>5
    <2> QED BY <2>2, <2>3, EmptySeq
  <1>9. usedNo' # used_idx
    <2>1. usedNo \in Indices /\ IDX_MOD \in Nat /\ IDX_MOD > 1
      BY <1>a, QueueAssumption DEF QueueTypes
    <2>2. Wrap(usedNo + 1) = IF usedNo + 1 < IDX_MOD THEN usedNo + 1 ELSE usedNo + 1 - IDX_MOD
      BY <2>1, WrapLap DEF Indices
    <2> QED BY <2>1, <2>2, <1>1, <1>5 DEF Indices
  <1>10. used'[Slot(used_idx)] = Head(descs[t])
    <2>1. Slot(usedNo) \in Descs
      BY <1>a, WrapIndex DEF QueueTypes
    <2> QED BY <2>1, <1>1, <1>5, <1>7, <1>a DEF RingTypes
  <1>11. CASE u = t
    BY <1>1, <1>3, <1>5, <1>8, <1>9, <1>10, <1>11 DEF Owned, Answered, InRing
  <1>12. CASE u # t
    <2>1. pc'[u] = "idle"
      BY <1>1, <1>4, <1>12
    <2>2. status'[u] = status[u]
      BY <1>1, <1>7, <1>12
    <2> QED BY <2>1, <2>2, <1>1, <1>a DEF Owned, Answered, InRing
  <1> QED BY <1>11, <1>12

LEMMA SerialStep == Inv /\ SerialInv /\ [Next]_vars => SerialInv'
  <1> SUFFICES ASSUME Inv, SerialInv, [Next]_vars PROVE SerialInv'
    OBVIOUS
  <1>1. CASE Next
    <2> SUFFICES ASSUME ~shared', NEW u \in Threads PROVE Owned(u)' /\ Answered(u)'
      BY <1>1, SharedStep, AloneStep, FilledStep, ValuesStep DEF SerialInv
    <2>a. ~shared /\ Alone /\ Owned(u) /\ Answered(u)
      BY <1>1, SharedStep DEF SerialInv
    <2>1. CASE /\ UNCHANGED <<pc, status>> /\ \A t \in Threads : Idle(t)
      BY <2>1, <2>a DEF Owned, Answered, Idle, InRing
    <2>2. ASSUME NEW outcome \in {"ok", "late", "refused"}, NEW ro \in {"yes", "no"},
                 init(outcome, ro)
          PROVE  UNCHANGED <<pc, status>> /\ \A t \in Threads : Idle(t)
      BY <2>2 DEF init, calls
    <2>3. CASE uninstall
      <3>1. \A t \in Threads : Idle(t)
        BY <1>1, <2>3, SharedStep
      <3> QED BY <3>1, <2>1, <2>3 DEF uninstall, calls
    <2>4. ASSUME NEW t \in Threads, Call(t) PROVE Owned(u)' /\ Answered(u)'
      <3>1. \A v \in Threads : Idle(v)
        BY <1>1, <2>4, SharedStep
      <3>2. status' = status /\ pc'[u] \in {"idle", "alloc"}
        <4>1. PICK o \in {"rw", "flush"} : Submit(t, o)
          BY <2>4, Calls
        <4> QED BY <4>1, <3>1 DEF Submit, Goto, Idle, Inv, CallTypes
      <3> QED BY <3>1, <3>2, <2>a DEF Owned, Answered, Idle, InRing
    <2>5. ASSUME NEW t \in Threads, Progress(t) PROVE Owned(u)' /\ Answered(u)'
      <3>1. CASE u = t
        BY <3>1, <2>5, <2>a, OwnStep
      <3>2. CASE u # t
        <4>1. pc[u] = "idle" /\ pc'[u] = pc[u]
          BY <3>2, <2>5, <2>a, ProgressBusy, OtherCalls DEF Alone, Idle
        <4>2. status'[u] = status[u]
          BY <3>2, <2>5, OtherValues
        <4> QED BY <4>1, <4>2, <2>a DEF Owned, Answered, InRing
      <3> QED BY <3>1, <3>2
    <2>6. CASE DeviceFetch
      BY <2>6, <2>a, FetchStep
    <2>7. CASE DeviceAnswers
      BY <2>7, <2>a, AnswerStep DEF DeviceAnswers
    <2> QED BY <1>1, <2>1, <2>2, <2>3, <2>4, <2>5, <2>6, <2>7 DEF Next
  <1>2. CASE UNCHANGED vars
    BY <1>2 DEF vars, use, driver, queue, rings, dev, calls, SerialInv, Filled, Idle, Alone,
       Owned, Answered, Request
  <1> QED BY <1>1, <1>2

(* With one call under way, what the device is to fetch or works on is its request. *)
LEMMA SerialSynchrony == Inv /\ SerialInv => SerialSynchronous
  <1> SUFFICES ASSUME Inv, SerialInv, ~shared, device = "live" PROVE
        /\ \A i \in Unseen : \E t \in Threads :
              descs[t] # <<>> /\ avail[Slot(i)] = Head(descs[t])
        /\ \A i \in 1 .. Len(working) : \E t \in Threads :
              /\ Len(descs[t]) = Len(Parts(op[t]))
              /\ working[i].head = Head(descs[t])
              /\ working[i].addrs = [k \in 1 .. Len(descs[t]) |-> <<t, Parts(op[t])[k]>>]
    BY DEF SerialSynchronous, Synchronous
  <1>a. Alone /\ QueueTypes
    BY DEF SerialInv, Inv
  <1>b. ASSUME NEW t \in Threads, pc[t] \in InRing
        PROVE  ~Idle(t) /\ Owned(t) /\ Len(descs[t]) = Len(Parts(op[t])) /\ descs[t] # <<>>
    <2>1. Len(descs[t]) = Len(Parts(op[t]))
      BY <1>b DEF Inv, Phase, InRing
    <2>2. Len(Parts(op[t])) \in {2, 3}
      BY PartsLen
    <2>3. descs[t] # <<>>
      <3>1. \A n \in {2, 3} : n # 0
        OBVIOUS
      <3>2. Len(descs[t]) # 0
        BY <3>1, <2>1, <2>2, Zenon
      <3> QED BY <3>2, EmptySeq
    <2> QED BY <2>1, <2>3, <1>b DEF SerialInv, Idle, InRing
  <1>1. ASSUME NEW i \in Unseen
        PROVE  \E t \in Threads : descs[t] # <<>> /\ avail[Slot(i)] = Head(descs[t])
    <2>1. PICK k \in 0 .. Wrap(avail_idx - seen) - 1 : i = Wrap(seen + k)
      BY <1>1 DEF Unseen
    <2>2. avail_idx \in Indices /\ seen \in Indices
      BY <1>a DEF QueueTypes
    <2>3. seen # avail_idx
      BY <2>1, <2>2, WrapIndex
    <2>4. PICK t \in Threads : pc[t] \in InRing
      BY <2>3, SomebodyWaits
    <2>5. Wrap(avail_idx - seen) = 1
      BY <2>3, <2>4, <1>a, <1>b, Places
    <2>6. k = 0
      BY <2>1, <2>5
    <2>7. i = seen
      <3>1. seen \in Int /\ 0 <= seen /\ seen < IDX_MOD /\ IDX_MOD \in Nat
        BY <2>2, QueueAssumption DEF Indices
      <3>2. Wrap(seen) = seen
        BY <3>1, WrapLap
      <3>3. seen + 0 = seen
        BY <3>1
      <3> QED BY <3>2, <3>3, <2>1, <2>6
    <2> QED BY <2>3, <2>4, <2>7, <1>b DEF Owned
  <1>2. ASSUME NEW i \in 1 .. Len(working)
        PROVE  \E t \in Threads :
                  /\ Len(descs[t]) = Len(Parts(op[t]))
                  /\ working[i].head = Head(descs[t])
                  /\ working[i].addrs = [k \in 1 .. Len(descs[t]) |-> <<t, Parts(op[t])[k]>>]
    <2>1. working # <<>>
      BY EmptySeq
    <2>2. PICK t \in Threads : pc[t] \in InRing
      BY <2>1, SomebodyWaits
    <2>3. Len(working) = 1
      BY <2>1, <2>2, <1>a, <1>b, Places
    <2>4. i = 1
      BY <2>3
    <2> QED BY <2>1, <2>2, <2>4, <1>b DEF Owned, Request
  <1> QED BY <1>1, <1>2

(***************************************************************************)
(* Calls that never overlap, for every queue size and any number of        *)
(* callers: until a call of read_at, write_at or flush returns, the device *)
(* has nothing but that call's own request, part by part in order.         *)
(***************************************************************************)
THEOREM SerialCallsSynchronous == Spec => []SerialSynchronous
  BY InitInv, InvStep, SerialInit, SerialStep, SerialSynchrony, PTL DEF Spec

(***************************************************************************)
(* And such a call reports Ok exactly when the device answered OK: neither *)
(* an error path nor the answer to an earlier request is mistaken for it.  *)
(***************************************************************************)
THEOREM SerialResultsTrue == Spec => []ResultsTrue
  <1>1. SerialInv => ResultsTrue
    BY DEF SerialInv, Answered, ResultsTrue
  <1> QED BY <1>1, InitInv, InvStep, SerialInit, SerialStep, PTL DEF Spec
=============================================================================
