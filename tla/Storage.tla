------------------------------- MODULE Storage -------------------------------
(***************************************************************************)
(* A StorageDevice (file/src/lib.rs) with its PartitionIndex and its FAT32 *)
(* drivers (file/filesystem): opening files by path, reading them through  *)
(* handles that hold only weak references, dropping the device.            *)
(*                                                                         *)
(* The types keep a StorageDevice and its handles on one thread (a         *)
(* FileSystemTrait is neither Send nor Sync), so calls do not overlap.     *)
(* Every read of the device may fail.  A step is one cluster of a chain:   *)
(* the iterator's next and what the loop does with it.                     *)
(*                                                                         *)
(* A byte of the disk is its place, <<sector, byte>>.                      *)
(***************************************************************************)
EXTENDS Fat32

CONSTANTS
    Disks,        \* what may be on the device
    Requests,     \* what is asked of open: partition, path and options
    MaxCalls,     \* bound: calls made in a behaviour
    MaxDevices    \* bound: StorageDevices made in a behaviour

ASSUME BoundsAssumption == MaxCalls \in Nat /\ MaxDevices \in Nat

(* What is on a disk is unsigned, and a FAT of the device's sectors has an *)
(* entry wherever one fits in it.                                          *)
ASSUME DisksAssumption ==
    \A k \in Disks :
        LET b == k.boot
            size == b.fat_sz_32 * b.bytes_per_sec
        IN  /\ {b.bytes_per_sec, b.sec_per_clus, b.rsvd_sec_cnt, b.num_fats, b.root_ent_cnt,
                b.fat_sz_32, b.tot_sec_32, b.hidd_sec} \subseteq Nat
            /\ \A c \in DOMAIN k.fat : k.fat[c] \in Nat
            /\ b.bytes_per_sec = BlockSize =>
                  \A c \in 0 .. size - 1 : c * EntrySize < size => c \in DOMAIN k.fat
            /\ \A lba \in DOMAIN k.slots :
                  LET slots == k.slots[lba]
                  IN  /\ Len(slots) \in Nat /\ DOMAIN slots = 1 .. Len(slots)
                      /\ \A i \in DOMAIN slots : slots[i].kind = "short" => slots[i].fst_clus \in Nat

VARIABLES
    disk,       \* sectors: MBR, boot sectors, FAT and directory slots
    dev,        \* the live StorageDevice, 0 if there is none
    devs,       \* StorageDevices made so far
    partitions, \* PartitionIndex::partitions: the drivers, the only strong references
    drivers,    \* drivers made so far
    handle,     \* the FileHandle the caller keeps
    op,         \* the call under way
    result,     \* ghost: what the last call returned
    calls       \* calls made so far

vars == <<disk, dev, devs, partitions, drivers, handle, op, result, calls>>

Idle == [pc |-> "idle"]
NoHandle == [dev |-> 0]
NoResult == [call |-> "none"]

Init ==
    /\ disk \in Disks
    /\ dev = 0 /\ devs = 0 /\ drivers = 0 /\ calls = 0
    /\ partitions = <<>>
    /\ handle = NoHandle
    /\ op = Idle
    /\ result = NoResult

(* A call starts; a call returns. *)
Call == op.pc = "idle" /\ calls < MaxCalls /\ calls' = calls + 1
Return(r) == op' = Idle /\ result' = r
Panic(why) == op' = [pc |-> "panicked", why |-> why] /\ result' = NoResult
OutsideFat(fs, first) == [on |-> "cluster", fs |-> fs, first |-> first]

(* read_at refuses an empty buffer and what lies outside the device. *)
Readable(lba, n) == n >= 1 /\ lba >= 0 /\ lba + n <= disk.blocks

(* The directory slots in the cluster at a sector; none is a zeroed one. *)
Slots(lba) == IF lba \in DOMAIN disk.slots THEN disk.slots[lba] ELSE <<>>

-------------------------------------------------------------------------------
(* The device and its partitions *)

(* new_virtio: the device is set up and sector 0 read, PartitionIndex::new. *)
new_virtio ==
    /\ Call
    /\ dev = 0 /\ devs < MaxDevices
    /\ \/ /\ Return([call |-> "new_virtio", outcome |-> "IoErr"])
          /\ UNCHANGED <<dev, devs, partitions>>
       \/ /\ disk.sign /\ disk.parts[0].kind = "gpt"
          /\ Panic([on |-> "gpt"])
          /\ UNCHANGED <<dev, devs, partitions>>
       \/ /\ disk.sign => disk.parts[0].kind # "gpt"
          /\ dev' = devs + 1 /\ devs' = devs + 1
          /\ partitions' = <<>>
          /\ Return([call |-> "new_virtio", outcome |-> "ok"])
    /\ UNCHANGED <<disk, drivers, handle>>

(* Drop: the device is uninstalled, the drivers go with the index. *)
drop ==
    /\ Call
    /\ dev # 0
    /\ dev' = 0
    /\ partitions' = <<>>
    /\ Return([call |-> "drop", outcome |-> "ok"])
    /\ UNCHANGED <<disk, devs, drivers, handle>>

get_partition_start_total_sector(idx) ==
    IF ~disk.sign
    THEN IF idx = 0 THEN [outcome |-> "ok", start |-> 0] ELSE [outcome |-> "UnknownPartition"]
    ELSE IF idx >= 4 THEN [outcome |-> "UnknownPartition"]
    ELSE IF disk.parts[idx].kind = "unused" THEN [outcome |-> "UnusedPartition"]
    ELSE [outcome |-> "ok", start |-> disk.parts[idx].first]

Cached(idx) == {i \in DOMAIN partitions : partitions[i].idx = idx}

BootSector(lba) == IF lba = disk.volume THEN disk.boot ELSE [sign |-> FALSE]

(* file_system::new at the sector the partition starts at. *)
NewDriver(idx) ==
    LET at == get_partition_start_total_sector(idx)
        b  == BootSector(at.start)
    IN  IF at.outcome # "ok" THEN [outcome |-> at.outcome]
        ELSE IF ~Readable(at.start, 1) THEN [outcome |-> "IoErr"]
        ELSE IF Mount(b, at.start) # "ok" THEN [outcome |-> Mount(b, at.start)]
        ELSE [outcome |-> "ok",
              driver |-> [idx |-> idx, id |-> drivers + 1, fs |-> FileSystem(b)]]

(* The start of FAT32FileSystem::open: the path and the root directory. *)
StartOpen(d, path, opts) ==
    IF path.lead # "/" THEN
        /\ Return([call |-> "open", outcome |-> IF path.lead = "none" THEN "InvalidInput"
                                                ELSE "NotRootDir"])
    ELSE /\ op' = [pc |-> "walk", driver |-> d, names |-> path.names, opts |-> opts,
                   dir |-> d.fs.root, it |-> Iter(d.fs.root), trail |-> <<>>]
         /\ result' = NoResult

(* Mutant: the new driver is not kept. *)
KeepDriver_Forget(d) == UNCHANGED partitions /\ drivers' = d.id

(* The driver is pushed into the index, which owns it from then on. *)
KeepDriver(d) == partitions' = Append(partitions, d) /\ drivers' = d.id

(* PartitionIndex::open, and the calls behind which there is only todo!(). *)
open(idx, path, opts) ==
    LET new == NewDriver(idx)
        Use(d) == IF opts = "todo" THEN Panic([on |-> "todo"]) ELSE StartOpen(d, path, opts)
    IN  /\ Call
        /\ dev # 0
        /\ \/ /\ Cached(idx) # {}
              /\ Use(partitions[Min(Cached(idx))])
              /\ UNCHANGED <<partitions, drivers>>
           \/ /\ Cached(idx) = {} /\ new.outcome = "ok"
              /\ KeepDriver(new.driver)
              /\ Use(new.driver)
           \/ /\ Cached(idx) = {} /\ new.outcome = "panic"
              /\ Panic([on |-> "boot sector"])
              /\ UNCHANGED <<partitions, drivers>>
           \/ /\ Cached(idx) = {}
              /\ Return([call |-> "open",
                         outcome |-> IF new.outcome \in {"ok", "panic"} THEN "IoErr"
                                     ELSE new.outcome])
              /\ UNCHANGED <<partitions, drivers>>
        /\ UNCHANGED <<disk, dev, devs, handle>>

-------------------------------------------------------------------------------
(* FAT32FATIter::next on the disk *)

(* None, an error, a panic (an index past the FAT that was read), or the   *)
(* cluster's sector and the iterator's new state.                          *)
IterNext(fs, it) ==
    LET w  == Used(fs, it)
        to == Advance(fs, it, disk.fat[it.next])
    IN  IF it.next = NoCluster THEN [item |-> "none"]
        ELSE IF ~Readable(fs.fat_lba + w.start, w.len) THEN [item |-> "IoErr"]
        ELSE IF ~Covers(fs, w, it.next) THEN [item |-> "panic"]
        ELSE IF to.item = "Corrupted" THEN to
        ELSE [item |-> "cluster", lba |-> ClusterLba(fs, it.next), under |-> it.next < 2,
              it |-> to.it]

(* The index is checked in every build, cluster - 2 in some. *)
MayPanic(next) == next.item = "panic" \/ (next.item = "cluster" /\ next.under)

-------------------------------------------------------------------------------
(* FAT32FileSystem::open, one directory cluster at a time *)

Ended(outcome) ==
    Return([call |-> "open", outcome |-> outcome, driver |-> op.driver, trail |-> op.trail,
            dir |-> op.dir, names |-> op.names])

(* The last component is found: a directory or a read-only file is refused. *)
Opened(trail) ==
    LET meta == calculate_next_dir(trail[Len(trail)].slot)
        r(outcome) == [call |-> "open", outcome |-> outcome, driver |-> op.driver,
                       trail |-> trail, dir |-> op.dir, names |-> op.names]
    IN  IF meta.is_dir THEN Return(r("IsDir")) /\ UNCHANGED handle
        ELSE IF op.opts = "Write" /\ (meta.is_readonly \/ disk.read_only)
        THEN Return(r("ReadOnly")) /\ UNCHANGED handle
        ELSE /\ Return(r("ok"))
             /\ handle' = [dev |-> dev, driver |-> op.driver.id, meta |-> meta]

(* What the search of a cluster makes of the walk. *)
Searched(next, s) ==
    LET trail == Append(op.trail, [dir |-> op.dir, slot |-> s.slot])
        first == calculate_next_dir(s.slot).first_cluster
    IN  \/ /\ s.verdict = "next"
           /\ op' = [op EXCEPT !.it = next.it]
           /\ UNCHANGED <<handle, result>>
        \/ /\ s.verdict \notin {"next", "found"}
           /\ Ended(s.verdict)
           /\ UNCHANGED handle
        \/ /\ s.verdict = "found" /\ Len(op.trail) + 1 < Len(op.names)
           /\ op' = [op EXCEPT !.trail = trail, !.dir = first, !.it = Iter(first)]
           /\ UNCHANGED <<handle, result>>
        \/ /\ s.verdict = "found" /\ Len(op.trail) + 1 = Len(op.names)
           /\ Opened(trail)

Name == op.names[Len(op.trail) + 1]
Lawful(name) == name # <<>> /\ is_encode_83(name).kind # "InvalidInput"

(* A component that is empty or has an illegal character. *)
BadName ==
    /\ op.pc = "walk"
    /\ ~Lawful(Name)
    /\ Ended("InvalidInput")
    /\ UNCHANGED <<disk, dev, devs, partitions, drivers, handle, calls>>

(* search_file_name_with_cluster_dir, one cluster. *)
WalkCluster ==
    /\ op.pc = "walk"
    /\ Lawful(Name)
    /\ \E next \in {IterNext(op.driver.fs, op.it)} :
          \/ /\ next.item = "none"
             /\ Ended("NotFound")
             /\ UNCHANGED handle
          \/ /\ next.item \in {"Corrupted", "IoErr"}
             /\ Ended(next.item)
             /\ UNCHANGED handle
          \/ /\ MayPanic(next)
             /\ Panic(OutsideFat(op.driver.fs, op.dir))
             /\ UNCHANGED handle
          \/ /\ next.item = "cluster" /\ ~Readable(next.lba, op.driver.fs.spc)
             /\ Ended("IoErr")
             /\ UNCHANGED handle
          \/ /\ next.item = "cluster" /\ Readable(next.lba, op.driver.fs.spc)
             /\ \E s \in {SearchCluster(Slots(next.lba), Name)} : Searched(next, s)
    /\ UNCHANGED <<disk, dev, devs, partitions, drivers, calls>>

-------------------------------------------------------------------------------
(* FileHandle *)

(* The weak references of a handle, upgraded. *)
Driver(id) == {i \in DOMAIN partitions : partitions[i].id = id}
Upgrades(h) == h.dev = dev /\ Driver(h.driver) # {}

(* read_at up to its loop; read is read_at of the whole file. *)
read_at(offset, len) ==
    LET meta == handle.meta
        fs   == partitions[Min(Driver(handle.driver))].fs
        bpc  == BlockSize * fs.spc
        byte == (offset % bpc) % BlockSize
        r(outcome) == [call |-> "read_at", outcome |-> outcome]
    IN  /\ Call
        /\ handle # NoHandle
        /\ IF ~Upgrades(handle) THEN Return(r("Closed"))
           ELSE IF offset > meta.file_size THEN Return(r("InvalidInput"))
           ELSE IF len > meta.file_size - offset THEN Return(r("TooBigBuffer"))
           ELSE /\ op' = [pc |-> "read", fs |-> fs, offset |-> offset, len |-> len,
                          it |-> Iter(meta.first_cluster), i |-> 0,
                          remaining |-> DivCeil(byte + len, BlockSize), tmp |-> <<>>]
                /\ result' = NoResult
        /\ UNCHANGED <<disk, dev, devs, partitions, drivers, handle>>

flush ==
    /\ Call
    /\ handle # NoHandle
    /\ \E outcome \in (IF handle.dev = dev THEN {"ok", "IoErr"} ELSE {"Closed"}) :
          Return([call |-> "flush", outcome |-> outcome])
    /\ UNCHANGED <<disk, dev, devs, partitions, drivers, handle>>

(* Mutant: the offset into the first sector is dropped. *)
CopyOut_FromSector(tmp, offset, len) ==
    [k \in 1 .. len |-> <<tmp[1 + ((k - 1) \div BlockSize)], (k - 1) % BlockSize>>]

(* The bytes copied to the caller from the sectors that were read. *)
CopyOut(tmp, offset, len) ==
    LET start == offset % BlockSize
    IN  [k \in 1 .. len |-> <<tmp[1 + ((start + k - 1) \div BlockSize)], (start + k - 1) % BlockSize>>]

(* The sectors to read of a cluster. *)
SectorsHere(can_read, remaining) == Min({can_read, remaining})

ReadEnded(outcome, data) ==
    Return([call |-> "read", outcome |-> outcome, fs |-> op.fs, offset |-> op.offset,
            len |-> op.len, data |-> data])

Copied == ReadEnded("ok", CopyOut(op.tmp, op.offset, op.len))

(* The loop of read_at, one cluster of the chain. *)
ReadCluster ==
    LET bpc   == BlockSize * op.fs.spc
        start == op.offset \div bpc
        skip  == IF op.i = start THEN (op.offset % bpc) \div BlockSize ELSE 0
        n     == SectorsHere(op.fs.spc - skip, op.remaining)
    IN  /\ op.pc = "read"
        /\ \E next \in {IterNext(op.fs, op.it)} :
              \/ /\ next.item = "none"
                 /\ IF op.remaining # 0 THEN ReadEnded("IncompleteRead", <<>>) ELSE Copied
              \/ /\ next.item \in {"Corrupted", "IoErr"}
                 /\ ReadEnded(next.item, <<>>)
              \/ /\ MayPanic(next)
                 /\ Panic(OutsideFat(op.fs, handle.meta.first_cluster))
              \/ /\ next.item = "cluster" /\ op.i < start
                 /\ op' = [op EXCEPT !.it = next.it, !.i = @ + 1]
                 /\ UNCHANGED result
              \/ /\ next.item = "cluster" /\ op.i >= start /\ op.remaining = 0
                 /\ Copied
              \/ /\ next.item = "cluster" /\ op.i >= start /\ op.remaining # 0
                 /\ IF Readable(next.lba + skip, n)
                    THEN /\ op' = [op EXCEPT !.it = next.it, !.i = @ + 1, !.remaining = @ - n,
                                             !.tmp = @ \o [k \in 1 .. n |-> next.lba + skip + k - 1]]
                         /\ UNCHANGED result
                    ELSE ReadEnded("IoErr", <<>>)
        /\ UNCHANGED <<disk, dev, devs, partitions, drivers, handle, calls>>

(* The device fails a read of the FAT, if no window is cached, or of data. *)
IoFault ==
    /\ op.pc \in {"walk", "read"}
    /\ LET fs   == IF op.pc = "walk" THEN op.driver.fs ELSE op.fs
           item == IterNext(fs, op.it).item
       IN  \/ item # "none" /\ op.it.cache = NoWindow
           \/ /\ item = "cluster"
              /\ op.pc = "read" =>
                    op.i >= op.offset \div (BlockSize * fs.spc) /\ op.remaining # 0
    /\ IF op.pc = "walk" THEN Ended("IoErr") ELSE ReadEnded("IoErr", <<>>)
    /\ UNCHANGED <<disk, dev, devs, partitions, drivers, handle, calls>>

-------------------------------------------------------------------------------
MaxOffset == IF handle = NoHandle THEN 0 ELSE handle.meta.file_size + 1

Next ==
    \/ new_virtio \/ drop \/ flush
    \/ \E q \in Requests : open(q.idx, q.path, q.opts)
    \/ BadName \/ WalkCluster
    \/ \E offset \in 0 .. MaxOffset : \E len \in 0 .. MaxOffset - offset : read_at(offset, len)
    \/ ReadCluster
    \/ IoFault

Spec == Init /\ [][Next]_vars

(* A call that is under way goes on; the device need not fail. *)
FairSpec == Spec /\ WF_vars(BadName) /\ WF_vars(WalkCluster) /\ WF_vars(ReadCluster)

-------------------------------------------------------------------------------
(* The chain from a cluster, straight from the FAT: 0 after its end. *)
Follow(fat, c) ==
    IF c \notin DOMAIN fat \ {0} THEN 0
    ELSE IF fat[c] % MASK >= EndOfChain THEN 0
    ELSE fat[c] % MASK

Chain(fat, first) ==
    LET c[n \in Nat] == IF n = 0 THEN first ELSE Follow(fat, c[n - 1])
    IN  c

(* As far as a chain that does not come back to itself can go. *)
Links(fs) == 0 .. fs.count + 1

Data(fs) == 2 .. fs.count + 1
Sound(fs, c) ==
    /\ c \in DOMAIN disk.fat
    /\ \/ disk.fat[c] % MASK >= EndOfChain
       \/ disk.fat[c] % MASK \in Data(fs) \ ({Bad} \cup Reserved)

(***************************************************************************)
(* read_at over any chain, window and fault: when it succeeds, every byte  *)
(* is the file's byte at its offset, from inside the data area; when it    *)
(* reports a corrupt or short chain, the chain is corrupt no more than a   *)
(* cluster past the last byte asked for, or ends before it.                *)
(***************************************************************************)
ReadsExact ==
    result.call = "read" =>
        LET fs   == result.fs
            bpc  == BlockSize * fs.spc
            c    == Chain(disk.fat, handle.meta.first_cluster)
            last == (result.offset + result.len) \div bpc
        IN  /\ result.outcome = "ok" =>
                  /\ Len(result.data) = result.len
                  /\ \A k \in 1 .. result.len :
                        LET at == result.offset + k - 1
                            lba == ClusterLba(fs, c[at \div bpc]) + (at % bpc) \div BlockSize
                        IN  /\ result.data[k] = <<lba, at % BlockSize>>
                            /\ c[0] \in Data(fs) =>
                                  lba \in fs.data_lba .. fs.data_lba + fs.count * fs.spc - 1
            /\ result.outcome = "Corrupted" =>
                  \E n \in 0 .. last + 1 : c[n] # 0 /\ ~Sound(fs, c[n])
            /\ result.outcome = "IncompleteRead" => c[(result.offset + result.len - 1) \div bpc] = 0

(* The long name before slot i, put together from its units. *)
LongName(slots, i) ==
    LET units == [m \in 1 .. lde_num(slots, i) * NameUnits |->
                    slots[i - 1 - ((m - 1) \div NameUnits)].units[1 + ((m - 1) % NameUnits)]]
        end == FirstIn(units, {"nul"})
    IN  SelectSeq(SubSeq(units, 1, end - 1), LAMBDA u : u # "pad")

ExactlyNamed(slots, i, name) ==
    LET enc == is_encode_83(name)
    IN  /\ slots[i].kind = "short" /\ ~slots[i].volume_id
        /\ IF enc.kind = "short" THEN slots[i].base = enc.base /\ slots[i].ext = enc.ext
           ELSE LongName(slots, i) = name

(* The name, but for dots and blanks, ends where a part of the last slot   *)
(* does, and the stored name begins with it.                               *)
EndsAtPart(slots, i, name) ==
    LET lde == lde_num(slots, i)
        long == LongName(slots, i)
    IN  \E b \in {NameParts[1], NameParts[1] + NameParts[2], NameUnits} :
            LET n == (lde - 1) * NameUnits + b
            IN  /\ lde # 0 /\ n <= Len(name) /\ n <= Len(long)
                /\ SubSeq(long, 1, n) = SubSeq(name, 1, n)
                /\ Exhausted(SubSeq(name, n + 1, Len(name)))

(***************************************************************************)
(* open goes where the path says: each component is an entry of the        *)
(* directory before it, under that name.  The one exception of the search  *)
(* is kept in sight: a long name the path gives only the start of, up to   *)
(* the end of one of a slot's three parts, is taken for a match.           *)
(***************************************************************************)
FoundIsNamed ==
    result.call = "open" /\ "trail" \in DOMAIN result =>
        LET fs == result.driver.fs
        IN  \A k \in DOMAIN result.trail :
              LET step == result.trail[k]
                  c == Chain(disk.fat, step.dir)
              IN  /\ step.dir = IF k = 1 THEN fs.root ELSE result.trail[k - 1].slot.fst_clus
                  /\ \E n \in Links(fs) : c[n] # 0 /\
                        LET slots == Slots(ClusterLba(fs, c[n]))
                        IN  \E i \in DOMAIN slots :
                              /\ slots[i] = step.slot
                              /\ \/ ExactlyNamed(slots, i, result.names[k])
                                 \/ EndsAtPart(slots, i, result.names[k])

(***************************************************************************)
(* NotFound is only said of a name that no entry of the directory has, the *)
(* entries and their long name slots lying in one cluster each.            *)
(***************************************************************************)
NotFoundIsAbsent ==
    result.call = "open" /\ result.outcome = "NotFound" =>
        LET fs == result.driver.fs
            c  == Chain(disk.fat, result.dir)
            name == result.names[Len(result.trail) + 1]
        IN  \A n \in Links(fs) : c[n] # 0 =>
              LET slots == Slots(ClusterLba(fs, c[n]))
              IN  \A i \in DOMAIN slots :
                    (\A m \in 1 .. i : slots[m].kind # "end") => ~ExactlyNamed(slots, i, name)

(***************************************************************************)
(* A handle works for as long as its StorageDevice lives, though it holds  *)
(* only weak references: whatever was opened since, its driver is still in *)
(* the index (get_partition_driver, FileHandle::read_at).                  *)
(***************************************************************************)
HandlesStayOpen == handle # NoHandle /\ handle.dev = dev => Upgrades(handle)

(***************************************************************************)
(* The iterator indexes the FAT it has cached without a check of its own:  *)
(* it leaves the window only on a first cluster outside the volume (which  *)
(* no check refuses), or on a FAT too short for the volume.                *)
(***************************************************************************)
PanicsOnlyOutside ==
    op.pc = "panicked" /\ op.why.on = "cluster" =>
        \/ op.why.first \notin Data(op.why.fs)
        \/ op.why.fs.spf * op.why.fs.bps < (op.why.fs.count + 2) * EntrySize

Cyclic(fs, first) ==
    LET c == Chain(disk.fat, first) IN \A n \in Links(fs) : c[n] # 0 /\ Sound(fs, c[n])

(***************************************************************************)
(* Every call ends, whatever the FAT says, but the search of a directory   *)
(* whose chain comes back to itself.                                       *)
(***************************************************************************)
CallEnds ==
    op.pc \in {"walk", "read"} ~>
        \/ op.pc \in {"idle", "panicked"}
        \/ op.pc = "walk" /\ Cyclic(op.driver.fs, op.dir)
===============================================================================
