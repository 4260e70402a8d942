---------------------------- MODULE StorageProofs ----------------------------
(***************************************************************************)
(* Proofs about Storage, for every disk, geometry, window size, request    *)
(* and any number of calls: a handle's driver stays in the index while its *)
(* device lives, the FAT iterator leaves its window only on a first        *)
(* cluster outside the volume or a FAT too short for it, and what a read   *)
(* returns is what the chain of the FAT has there.                         *)
(*                                                                         *)
(* The chain is a recursive function: that it exists and unfolds, and that *)
(* an ended chain stays ended, is shown with NaturalRecursion.  The loop   *)
(* of read_at is covered by Progress, which says which blocks of the       *)
(* request have been read when it stands at cluster i.                     *)
(***************************************************************************)
EXTENDS Storage, NaturalRecursion, SequenceTheorems, TLAPS

(* A driver's geometry: the boot sector's, which was checked. *)
Mounted(fs) ==
    /\ fs = FileSystem(disk.boot)
    /\ disk.boot.bytes_per_sec = BlockSize
    /\ disk.boot.sec_per_clus \in ClusterSizes
    /\ ~(DataSectors(disk.boot) < 0)

Index ==
    /\ disk \in Disks
    /\ dev \in Nat /\ devs \in Nat /\ dev <= devs
    /\ drivers \in Nat
    /\ \E S : partitions \in Seq(S)
    /\ \A i \in DOMAIN partitions : Mounted(partitions[i].fs)

(* The driver of a walk is in the index; the geometry of a read was one's. *)
Fields(r, names) == r = [f \in names |-> r[f]]
WalkFields == {"pc", "driver", "names", "opts", "dir", "it", "trail"}
ReadFields == {"pc", "fs", "offset", "len", "it", "i", "remaining", "tmp"}

CallInv ==
    /\ op.pc \in {"idle", "walk", "read", "panicked"}
    /\ op.pc = "walk" =>
          /\ Fields(op, WalkFields)
          /\ dev # 0
          /\ \E i \in DOMAIN partitions : partitions[i] = op.driver
    /\ op.pc = "read" => Fields(op, ReadFields) /\ Mounted(op.fs)

(* A handle is of a device that was made, and of a driver in its index. *)
HandleInv ==
    handle # NoHandle =>
        /\ handle.dev \in 1 .. devs
        /\ handle.dev = dev => Driver(handle.driver) # {}

(* A FAT that has an entry for every cluster of the volume. *)
FatSuffices(fs) == fs.spf * fs.bps >= (fs.count + 2) * EntrySize

(* Where the iterator stands: at the end, or in the volume and, when a     *)
(* window is cached, inside it.                                            *)
InWindow(fs, it) ==
    /\ it.next \in {NoCluster} \cup Data(fs)
    /\ it.cache = NoWindow \/ Covers(fs, it.cache, it.next)

Sane(fs, first, it) == first \in Data(fs) /\ FatSuffices(fs) => InWindow(fs, it)

WindowInv ==
    /\ op.pc = "walk" => Sane(op.driver.fs, op.dir, op.it)
    /\ op.pc = "read" => Sane(op.fs, handle.meta.first_cluster, op.it)

Inv == Index /\ CallInv /\ HandleInv /\ WindowInv /\ PanicsOnlyOutside

-------------------------------------------------------------------------------
(* The arithmetic of the window *)

LEMMA TimesMonotone ==
    ASSUME NEW a \in Int, NEW b \in Int, NEW k \in Nat, a <= b
    PROVE  a * k <= b * k
  OBVIOUS

LEMMA TimesStrict ==
    ASSUME NEW a \in Nat, NEW b \in Nat, NEW k \in Nat, a * k < b * k
    PROVE  a < b
  BY TimesMonotone

LEMMA Division ==
    ASSUME NEW n \in Nat, NEW k \in Nat \ {0}
    PROVE  /\ n \div k \in Nat
           /\ (n \div k) * k <= n
           /\ n < (n \div k + 1) * k
  OBVIOUS

LEMMA MinOfTwo ==
    ASSUME NEW a \in Int, NEW b \in Int
    PROVE  Min({a, b}) = IF a <= b THEN a ELSE b
  BY DEF Min

LEMMA MaxOfTwo ==
    ASSUME NEW a \in Int, NEW b \in Int
    PROVE  Max({a, b}) = IF a >= b THEN a ELSE b
  BY DEF Max

(* The sectors read for an entry of the FAT hold that entry. *)
LEMMA WindowCovers ==
    ASSUME NEW fs, NEW cluster \in Nat,
           fs.bps \in Nat \ {0}, fs.spf \in Nat,
           cluster * EntrySize < fs.spf * fs.bps
    PROVE  Covers(fs, Window(fs, cluster), cluster)
  <1> DEFINE at == cluster * EntrySize
             sector == at \div fs.bps
             half == ALLOCATE_SIZE \div 2
             len == Min({ALLOCATE_SIZE, fs.spf})
             back == Max({0, sector - half})
             start == IF back + len > fs.spf THEN fs.spf - len ELSE back
  <1>1. ALLOCATE_SIZE \in Nat \ {0} /\ EntrySize \in Nat \ {0}
    BY GeometryAssumption
  <1>2. at \in Nat  BY <1>1
  <1>3. sector \in Nat /\ sector * fs.bps <= at /\ at < (sector + 1) * fs.bps
    BY <1>2, Division
  <1>4. half \in Nat /\ half < ALLOCATE_SIZE
    BY <1>1
  <1>5. len = IF ALLOCATE_SIZE <= fs.spf THEN ALLOCATE_SIZE ELSE fs.spf
    BY <1>1, MinOfTwo
  <1>6. back = IF 0 >= sector - half THEN 0 ELSE sector - half
    BY <1>3, <1>4, MaxOfTwo
  <1>7. sector < fs.spf
    <2>1. sector * fs.bps < fs.spf * fs.bps
      <3> HIDE DEF at, sector
      <3> QED  BY <1>2, <1>3 DEF at
    <2> QED  BY <1>3, <2>1, TimesStrict
  <1>8. start \in Nat /\ start <= sector /\ sector + 1 <= start + len /\ len \in Nat
    <2> HIDE DEF sector, half, len, back
    <2> QED  BY <1>1, <1>3, <1>4, <1>5, <1>6, <1>7
  <1>9. start * fs.bps <= at /\ at < (start + len) * fs.bps
    <2> HIDE DEF at, sector, half, len, back, start
    <2>1. start * fs.bps <= sector * fs.bps
      BY <1>3, <1>8, TimesMonotone
    <2>2. (sector + 1) * fs.bps <= (start + len) * fs.bps
      BY <1>3, <1>8, TimesMonotone
    <2> QED  BY <1>2, <1>3, <1>8, <2>1, <2>2
  <1>10. Window(fs, cluster) = [start |-> start, len |-> len]
    BY DEF Window
  <1> QED  BY <1>9, <1>10 DEF Covers

-------------------------------------------------------------------------------
(* The volume and the iterator *)

LEMMA MountedTypes ==
    ASSUME disk \in Disks, NEW fs, Mounted(fs)
    PROVE  /\ fs.bps \in Nat \ {0} /\ fs.spf \in Nat /\ fs.count \in Nat
           /\ disk.boot.bytes_per_sec = fs.bps /\ disk.boot.fat_sz_32 = fs.spf
           /\ fs.bps = BlockSize
  <1> DEFINE b == disk.boot
  <1>1. /\ b.bytes_per_sec \in Nat /\ b.sec_per_clus \in Nat /\ b.rsvd_sec_cnt \in Nat
        /\ b.num_fats \in Nat /\ b.root_ent_cnt \in Nat /\ b.fat_sz_32 \in Nat
        /\ b.tot_sec_32 \in Nat
    BY DisksAssumption
  <1>2. b.bytes_per_sec \in Nat \ {0} /\ b.sec_per_clus \in Nat \ {0}
    BY GeometryAssumption DEF Mounted
  <1>3. DivCeil(b.root_ent_cnt * 32, b.bytes_per_sec) \in Nat
    <2> DEFINE n == b.root_ent_cnt * 32 + b.bytes_per_sec - 1
    <2>1. n \in Nat  BY <1>1, <1>2
    <2> HIDE DEF n
    <2>2. n \div b.bytes_per_sec \in Nat  BY <1>2, <2>1, Division
    <2> QED  BY <2>2 DEF DivCeil, n
  <1>4. b.num_fats * b.fat_sz_32 \in Nat
    BY <1>1
  <1>5. DataSectors(b) \in Nat
    <2>1. DataSectors(b) \in Int
      BY <1>1, <1>3, <1>4 DEF DataSectors
    <2> QED  BY <2>1 DEF Mounted
  <1>6. DataSectors(b) \div b.sec_per_clus \in Nat
    BY <1>2, <1>5, Division
  <1> QED  BY <1>1, <1>2, <1>6 DEF Mounted, FileSystem

LEMMA MaskPositive == MASK \in Nat \ {0}
  BY DEF MASK

(* A cluster of the volume has its entry in the FAT. *)
LEMMA EntryThere ==
    ASSUME disk \in Disks, NEW fs, Mounted(fs), FatSuffices(fs), NEW c \in Data(fs)
    PROVE  /\ c \in Nat
           /\ c * EntrySize < fs.spf * fs.bps
           /\ disk.fat[c] \in Nat
  <1>1. fs.count \in Nat /\ fs.spf \in Nat /\ fs.bps \in Nat \ {0} /\ fs.bps = BlockSize
        /\ disk.boot.bytes_per_sec = fs.bps /\ disk.boot.fat_sz_32 = fs.spf
    BY MountedTypes
  <1>2. c \in Nat /\ c < fs.count + 2  BY <1>1 DEF Data
  <1>3. EntrySize \in Nat \ {0}  BY GeometryAssumption
  <1>4. c * EntrySize < fs.spf * fs.bps
    <2> DEFINE n == fs.count + 2
               size == fs.spf * fs.bps
    <2>1. n \in Nat /\ c + 1 <= n /\ size \in Nat  BY <1>1, <1>2
    <2>2. n * EntrySize <= size  BY <1>1 DEF FatSuffices
    <2> HIDE DEF n, size
    <2>3. (c + 1) * EntrySize <= n * EntrySize
      BY <1>2, <1>3, <2>1, TimesMonotone
    <2>4. c * EntrySize < (c + 1) * EntrySize
      BY <1>2, <1>3
    <2>5. c * EntrySize < size
      BY <1>2, <1>3, <2>1, <2>2, <2>3, <2>4
    <2> QED  BY <2>5 DEF size
  <1>5. c <= c * EntrySize
    <2>1. 1 * c <= EntrySize * c  BY <1>2, <1>3, TimesMonotone
    <2> QED  BY <1>2, <1>3, <2>1
  <1>6. disk.fat[c] \in Nat
    <2> DEFINE size == disk.boot.fat_sz_32 * disk.boot.bytes_per_sec
    <2>1. size = fs.spf * fs.bps /\ size \in Nat  BY <1>1
    <2>2. c * EntrySize < size  BY <1>4, <2>1
    <2>3. \A k \in 0 .. size - 1 : k * EntrySize < size => k \in DOMAIN disk.fat
      BY <1>1, DisksAssumption
    <2> HIDE DEF size
    <2>4. c \in 0 .. size - 1
      BY <1>2, <1>3, <1>5, <2>1, <2>2
    <2>5. c \in DOMAIN disk.fat  BY <2>2, <2>3, <2>4
    <2> QED  BY <2>5, DisksAssumption
  <1> QED  BY <1>2, <1>4, <1>6

(* Wherever an entry leads, the iterator stays in the volume and keeps a   *)
(* window only if it holds the next entry too.                             *)
LEMMA AdvanceStays ==
    ASSUME disk \in Disks, NEW fs, Mounted(fs), NEW it, NEW entry \in Nat,
           Advance(fs, it, entry).item # "Corrupted"
    PROVE  InWindow(fs, Advance(fs, it, entry).it)
  <1> DEFINE x == entry % MASK
             w == Used(fs, it)
  <1>1. fs.count \in Nat  BY MountedTypes
  <1>2. x \in Nat  BY MaskPositive
  <1> HIDE DEF x, w
  <1>3. \/ Advance(fs, it, entry).it = Iter(NoCluster)
        \/ /\ x \notin {0, 1} /\ ~(x > fs.count + 1)
           /\ Advance(fs, it, entry).it =
                 [next |-> x, cache |-> IF Covers(fs, w, x) THEN w ELSE NoWindow]
    BY DEF Advance, x, w
  <1>4. CASE Advance(fs, it, entry).it = Iter(NoCluster)
    BY <1>4 DEF InWindow, Iter
  <1>5. CASE /\ x \notin {0, 1} /\ ~(x > fs.count + 1)
             /\ Advance(fs, it, entry).it =
                   [next |-> x, cache |-> IF Covers(fs, w, x) THEN w ELSE NoWindow]
    <2>1. x \in Data(fs)  BY <1>1, <1>2, <1>5 DEF Data
    <2> QED  BY <1>5, <2>1 DEF InWindow
  <1> QED  BY <1>3, <1>4, <1>5

(* FAT32FATIter::next from a sane place: no panic, and a sane place again. *)
LEMMA IterStays ==
    ASSUME disk \in Disks, NEW fs, Mounted(fs), FatSuffices(fs), NEW it, InWindow(fs, it)
    PROVE  /\ ~MayPanic(IterNext(fs, it))
           /\ IterNext(fs, it).item = "cluster" => InWindow(fs, IterNext(fs, it).it)
  <1>1. CASE it.next = NoCluster
    BY <1>1 DEF IterNext, MayPanic
  <1>2. CASE it.next # NoCluster
    <2> DEFINE w == Used(fs, it)
               to == Advance(fs, it, disk.fat[it.next])
    <2>1. it.next \in Data(fs)  BY <1>2 DEF InWindow
    <2>2. /\ it.next \in Nat /\ disk.fat[it.next] \in Nat
          /\ it.next * EntrySize < fs.spf * fs.bps
      BY <2>1, EntryThere
    <2>3. fs.bps \in Nat \ {0} /\ fs.spf \in Nat /\ fs.count \in Nat  BY MountedTypes
    <2>4. Covers(fs, Window(fs, it.next), it.next)
      BY <2>2, <2>3, WindowCovers
    <2>5. Covers(fs, w, it.next)
      BY <2>4 DEF Used, InWindow
    <2>6. to.item # "Corrupted" => InWindow(fs, to.it)
      BY <2>2, AdvanceStays
    <2>7. ~(it.next < 2)
      BY <2>1, <2>3 DEF Data
    <2>8. to.item \in {"Corrupted", "cluster"}
      BY DEF Advance
    <2> HIDE DEF to, w
    <2>9. \/ IterNext(fs, it) = [item |-> "IoErr"]
          \/ IterNext(fs, it) = to /\ to.item = "Corrupted"
          \/ /\ IterNext(fs, it) = [item |-> "cluster", lba |-> ClusterLba(fs, it.next),
                                    under |-> it.next < 2, it |-> to.it]
             /\ to.item # "Corrupted"
      BY <1>2, <2>5, Zenon DEF IterNext, to, w
    <2>10. CASE IterNext(fs, it) = [item |-> "IoErr"]
      BY <2>10 DEF MayPanic
    <2>11. CASE IterNext(fs, it) = to /\ to.item = "Corrupted"
      BY <2>11 DEF MayPanic
    <2>12. CASE /\ IterNext(fs, it) = [item |-> "cluster", lba |-> ClusterLba(fs, it.next),
                                       under |-> it.next < 2, it |-> to.it]
                /\ to.item # "Corrupted"
      <3> DEFINE u == it.next < 2
                 lba == ClusterLba(fs, it.next)
      <3>1. u = FALSE  BY <2>7
      <3>2. IterNext(fs, it) = [item |-> "cluster", lba |-> lba, under |-> u, it |-> to.it]
        BY <2>12, Zenon
      <3> HIDE DEF u, lba
      <3>3. IterNext(fs, it) = [item |-> "cluster", lba |-> lba, under |-> FALSE, it |-> to.it]
        BY <3>1, <3>2, Zenon
      <3>4. IterNext(fs, it).item = "cluster" /\ IterNext(fs, it).it = to.it
        BY <3>3
      <3>5. ~IterNext(fs, it).under
        BY <3>3
      <3> QED  BY <2>6, <2>12, <3>4, <3>5 DEF MayPanic
    <2> QED  BY <2>9, <2>10, <2>11, <2>12
  <1> QED  BY <1>1, <1>2

-------------------------------------------------------------------------------
(* What a step leaves behind it *)

LEMMA InitHolds == Init => Inv
  <1> SUFFICES ASSUME Init  PROVE Inv
    OBVIOUS
  <1>1. partitions \in Seq({})  BY DEF Init
  <1>2. DOMAIN partitions = {}  BY DEF Init
  <1>3. Index  BY <1>1, <1>2 DEF Init, Index
  <1>4. op.pc = "idle"  BY DEF Init, Idle
  <1> QED
    BY <1>3, <1>4 DEF Init, Inv, CallInv, HandleInv, WindowInv, PanicsOnlyOutside

(* A call that returns, or panics elsewhere than in the FAT. *)
Quiet == op'.pc = "idle" \/ (op'.pc = "panicked" /\ op'.why.on # "cluster")

LEMMA QuietKeeps == Quiet => CallInv' /\ WindowInv' /\ PanicsOnlyOutside'
  BY DEF Quiet, CallInv, WindowInv, PanicsOnlyOutside

LEMMA ReturnQuiet == ASSUME NEW r, Return(r) PROVE Quiet
  BY DEF Return, Quiet, Idle

LEMMA PanicQuiet == ASSUME NEW w, w.on # "cluster", Panic(w) PROVE Quiet
  BY DEF Panic, Quiet

LEMMA MountedStays ==
    ASSUME UNCHANGED disk, NEW fs, Mounted(fs)
    PROVE  Mounted(fs)'
  BY DEF Mounted, DataSectors, FileSystem, DivCeil

LEMMA IndexStays ==
    ASSUME Index, UNCHANGED <<disk, dev, devs, partitions, drivers>>
    PROVE  Index'
  <1>1. \A i \in DOMAIN partitions' : Mounted(partitions[i].fs)'
    BY MountedStays DEF Index
  <1> QED  BY <1>1 DEF Index

LEMMA HandleStays ==
    ASSUME HandleInv, UNCHANGED <<dev, devs, partitions, handle>>
    PROVE  HandleInv'
  BY DEF HandleInv, Driver

(* The driver of a walk is mounted. *)
LEMMA WalkMounted ==
    ASSUME Inv, op.pc = "walk"
    PROVE  Mounted(op.driver.fs)
  BY DEF Inv, CallInv, Index

(* A panic in the FAT that the iterator may have: not from a sane place. *)
LEMMA PanicOutside ==
    ASSUME disk \in Disks, NEW fs, Mounted(fs), NEW first, Panic(OutsideFat(fs, first)),
           ~(first \in Data(fs) /\ FatSuffices(fs))
    PROVE  CallInv' /\ WindowInv' /\ PanicsOnlyOutside'
  <1>1. op' = [pc |-> "panicked", why |-> [on |-> "cluster", fs |-> fs, first |-> first]]
    BY DEF Panic, OutsideFat
  <1>2. op'.pc = "panicked" /\ op'.why.fs = fs /\ op'.why.first = first
    BY <1>1
  <1>3. PanicsOnlyOutside'
    <2>1. fs.spf \in Nat /\ fs.bps \in Nat /\ fs.count \in Nat /\ EntrySize \in Nat
      BY MountedTypes, GeometryAssumption
    <2> DEFINE size == fs.spf * fs.bps
               need == (fs.count + 2) * EntrySize
    <2>2. size \in Int /\ need \in Int  BY <2>1
    <2>3. ~(size >= need) <=> size < need
      <3> HIDE DEF size, need
      <3> QED  BY <2>2
    <2> QED  BY <1>2, <2>3, Zenon DEF PanicsOnlyOutside, FatSuffices, Data
  <1> QED  BY <1>2, <1>3 DEF CallInv, WindowInv

-------------------------------------------------------------------------------
(* The device and its partitions *)

LEMMA new_virtioKeeps == ASSUME Inv, new_virtio PROVE Inv'
  <1> USE DEF Inv
  <1>1. Quiet
    BY ReturnQuiet, PanicQuiet, Zenon DEF new_virtio
  <1>2. Index' /\ HandleInv'
    <2>1. CASE UNCHANGED <<dev, devs, partitions>>
      BY <2>1, IndexStays, HandleStays DEF new_virtio
    <2>2. CASE dev' = devs + 1 /\ devs' = devs + 1 /\ partitions' = <<>>
      <3>1. partitions' \in Seq({}) /\ DOMAIN partitions' = {}  BY <2>2
      <3>2. Index'  BY <2>2, <3>1 DEF Index, new_virtio
      <3>3. HandleInv'
        BY <2>2 DEF HandleInv, Index, new_virtio
      <3> QED  BY <3>2, <3>3
    <2> QED  BY <2>1, <2>2 DEF new_virtio
  <1> QED  BY <1>1, <1>2, QuietKeeps

LEMMA dropKeeps == ASSUME Inv, drop PROVE Inv'
  <1> USE DEF Inv
  <1>1. Quiet
    BY ReturnQuiet, Zenon DEF drop
  <1>2. partitions' \in Seq({}) /\ DOMAIN partitions' = {}
    BY DEF drop
  <1>3. Index'
    BY <1>2 DEF Index, drop
  <1>4. HandleInv'
    BY DEF HandleInv, Index, drop
  <1> QED  BY <1>1, <1>3, <1>4, QuietKeeps

LEMMA flushKeeps == ASSUME Inv, flush PROVE Inv'
  <1> USE DEF Inv
  <1>1. Quiet
    BY ReturnQuiet, Zenon DEF flush
  <1> QED  BY <1>1, QuietKeeps, IndexStays, HandleStays DEF flush

LEMMA StartSane == ASSUME NEW fs, NEW first PROVE Sane(fs, first, Iter(first))
  BY DEF Sane, InWindow, Iter

(* A driver of the index is put to use. *)
LEMMA StartOpenKeeps ==
    ASSUME NEW d, NEW path, NEW opts, StartOpen(d, path, opts), dev' # 0,
           NEW i \in DOMAIN partitions', partitions'[i] = d
    PROVE  CallInv' /\ WindowInv' /\ PanicsOnlyOutside'
  <1>1. CASE path.lead # "/"
    <2>1. Quiet  BY <1>1, ReturnQuiet, Zenon DEF StartOpen
    <2> QED  BY <2>1, QuietKeeps
  <1>2. CASE path.lead = "/"
    <2>1. op' = [pc |-> "walk", driver |-> d, names |-> path.names, opts |-> opts,
                 dir |-> d.fs.root, it |-> Iter(d.fs.root), trail |-> <<>>]
      BY <1>2 DEF StartOpen
    <2>2. op'.pc = "walk" /\ op'.driver = d /\ op'.dir = d.fs.root /\ op'.it = Iter(d.fs.root)
      BY <2>1
    <2>3. Fields(op', WalkFields)
      BY <2>1 DEF Fields, WalkFields
    <2>4. CallInv'
      BY <2>2, <2>3 DEF CallInv
    <2>5. WindowInv'
      BY <2>2, StartSane DEF WindowInv
    <2> QED  BY <2>2, <2>4, <2>5 DEF PanicsOnlyOutside
  <1> QED  BY <1>1, <1>2

LEMMA NewDriverMounted ==
    ASSUME NEW idx, NewDriver(idx).outcome = "ok"
    PROVE  Mounted(NewDriver(idx).driver.fs) /\ NewDriver(idx).driver.id = drivers + 1
  <1> DEFINE at == get_partition_start_total_sector(idx)
             b == BootSector(at.start)
  <1>1. /\ Mount(b, at.start) = "ok"
        /\ NewDriver(idx) = [outcome |-> "ok",
              driver |-> [idx |-> idx, id |-> drivers + 1, fs |-> FileSystem(b)]]
    <2> HIDE DEF at, b
    <2>1. at.outcome = "ok"  BY DEF NewDriver, at
    <2>2. Readable(at.start, 1)  BY <2>1 DEF NewDriver, at
    <2>3. Mount(b, at.start) = "ok"
      BY <2>1, <2>2 DEF NewDriver, at, b
    <2> QED  BY <2>1, <2>2, <2>3 DEF NewDriver, at, b
  <1> HIDE DEF at
  <1>2. b.sign
    BY <1>1 DEF Mount
  <1>3. b = disk.boot
    BY <1>2 DEF BootSector
  <1>4. /\ b.bytes_per_sec = BlockSize
        /\ b.sec_per_clus \in ClusterSizes
        /\ ~(DataSectors(b) < 0)
    <2> HIDE DEF b
    <2> QED  BY <1>1 DEF Mount
  <1> QED  BY <1>1, <1>3, <1>4 DEF Mounted

LEMMA openKeeps ==
    ASSUME Inv, NEW idx, NEW path, NEW opts, open(idx, path, opts)
    PROVE  Inv'
  <1> DEFINE new == NewDriver(idx)
             Use(d) == IF opts = "todo" THEN Panic([on |-> "todo"]) ELSE StartOpen(d, path, opts)
  <1> USE DEF Inv
  <1>1. UNCHANGED <<disk, dev, devs, handle>> /\ dev' # 0
    BY DEF open
  <1>2. ASSUME NEW d, Use(d), NEW i \in DOMAIN partitions', partitions'[i] = d
        PROVE  CallInv' /\ WindowInv' /\ PanicsOnlyOutside'
    <2>1. CASE opts = "todo"
      <3>1. Quiet  BY <1>2, <2>1, PanicQuiet
      <3> QED  BY <3>1, QuietKeeps
    <2>2. CASE opts # "todo"
      BY <1>1, <1>2, <2>2, StartOpenKeeps
    <2> QED  BY <2>1, <2>2
  <1>3. CASE /\ Cached(idx) # {}
             /\ Use(partitions[Min(Cached(idx))])
             /\ UNCHANGED <<partitions, drivers>>
    <2>1. Cached(idx) \in SUBSET Nat
      BY DEF Cached, Index
    <2>2. Min(Cached(idx)) \in DOMAIN partitions'
      BY <1>3, <2>1, LeastOf DEF Cached
    <2>3. CallInv' /\ WindowInv' /\ PanicsOnlyOutside'
      <3> HIDE DEF Use
      <3> QED  BY <1>2, <1>3, <2>2
    <2> QED  BY <1>1, <1>3, <2>3, IndexStays, HandleStays
  <1>4. CASE /\ Cached(idx) = {} /\ new.outcome = "ok"
             /\ KeepDriver(new.driver)
             /\ Use(new.driver)
    <2> DEFINE d == new.driver
    <2>1. Mounted(d.fs) /\ d.id = drivers + 1
      BY <1>4, NewDriverMounted
    <2> HIDE DEF new
    <2>2. PICK S : partitions \in Seq(S)
      BY DEF Index
    <2>3. partitions \in Seq(S \cup {d})
      BY <2>2, SeqMonotonic
    <2>4. partitions' = Append(partitions, d) /\ drivers' = d.id
      BY <1>4 DEF KeepDriver
    <2> HIDE DEF d
    <2>5. /\ partitions' \in Seq(S \cup {d})
          /\ Len(partitions') = Len(partitions) + 1
          /\ DOMAIN partitions' = 1 .. Len(partitions) + 1
          /\ DOMAIN partitions = 1 .. Len(partitions)
          /\ Len(partitions) \in Nat
          /\ partitions'[Len(partitions) + 1] = d
          /\ \A i \in 1 .. Len(partitions) : partitions'[i] = partitions[i]
      BY <2>3, <2>4, AppendProperties
    <2>6. Index'
      <3>1. \A i \in DOMAIN partitions' : Mounted(partitions'[i].fs)
        BY <2>1, <2>5 DEF Index
      <3>2. \A i \in DOMAIN partitions' : Mounted(partitions[i].fs)'
        BY <1>1, <3>1, MountedStays
      <3>3. drivers' \in Nat  BY <2>1, <2>4 DEF Index
      <3> QED  BY <1>1, <2>5, <3>2, <3>3 DEF Index
    <2>7. HandleInv'
      BY <1>1, <2>5 DEF HandleInv, Driver
    <2>8. CallInv' /\ WindowInv' /\ PanicsOnlyOutside'
      <3>1. Len(partitions) + 1 \in DOMAIN partitions'  BY <2>5
      <3> HIDE DEF Use
      <3>2. Use(d)  BY <1>4 DEF d
      <3> QED  BY <1>2, <2>5, <3>1, <3>2
    <2> QED  BY <2>6, <2>7, <2>8
  <1>5. CASE /\ Panic([on |-> "boot sector"])
             /\ UNCHANGED <<partitions, drivers>>
    <2>1. Quiet  BY <1>5, PanicQuiet
    <2> QED  BY <1>1, <1>5, <2>1, QuietKeeps, IndexStays, HandleStays
  <1>6. CASE /\ Return([call |-> "open",
                        outcome |-> IF new.outcome \in {"ok", "panic"} THEN "IoErr"
                                    ELSE new.outcome])
             /\ UNCHANGED <<partitions, drivers>>
    <2>1. Quiet  BY <1>6, ReturnQuiet
    <2> QED  BY <1>1, <1>6, <2>1, QuietKeeps, IndexStays, HandleStays
  <1> QED
    BY <1>3, <1>4, <1>5, <1>6, Zenon DEF open

-------------------------------------------------------------------------------
(* open, one cluster at a time *)

LEMMA EndedQuiet == ASSUME NEW outcome, Ended(outcome) PROVE Quiet
  BY ReturnQuiet, Zenon DEF Ended

(* A walk that goes on with the same driver. *)
LEMMA WalkOn ==
    ASSUME Inv, op.pc = "walk", UNCHANGED <<dev, partitions>>, Fields(op', WalkFields),
           op'.pc = "walk", op'.driver = op.driver, Sane(op'.driver.fs, op'.dir, op'.it)
    PROVE  CallInv' /\ WindowInv' /\ PanicsOnlyOutside'
  BY DEF Inv, CallInv, WindowInv, PanicsOnlyOutside

LEMMA BadNameKeeps == ASSUME Inv, BadName PROVE Inv'
  <1> USE DEF Inv
  <1>1. Quiet
    BY EndedQuiet DEF BadName
  <1> QED  BY <1>1, QuietKeeps, IndexStays, HandleStays DEF BadName

(* The file is opened: its handle is of this device and of op's driver. *)
LEMMA OpenedKeeps ==
    ASSUME Inv, op.pc = "walk", UNCHANGED <<disk, dev, devs, partitions, drivers>>,
           NEW trail, Opened(trail)
    PROVE  Quiet /\ HandleInv'
  <1> USE DEF Inv
  <1>1. Quiet
    BY ReturnQuiet, Zenon DEF Opened
  <1>2. CASE UNCHANGED handle
    BY <1>1, <1>2, HandleStays
  <1>3. CASE handle' = [dev |-> dev, driver |-> op.driver.id,
                        meta |-> calculate_next_dir(trail[Len(trail)].slot)]
    <2>1. handle'.dev = dev /\ handle'.driver = op.driver.id  BY <1>3
    <2>2. dev \in 1 .. devs  BY DEF CallInv, Index
    <2>3. PICK i \in DOMAIN partitions : partitions[i] = op.driver  BY DEF CallInv
    <2>4. i \in Driver(handle.driver)'
      BY <2>1, <2>3 DEF Driver
    <2> QED  BY <1>1, <2>1, <2>2, <2>4 DEF HandleInv
  <1> QED  BY <1>2, <1>3 DEF Opened

LEMMA WalkClusterKeeps == ASSUME Inv, WalkCluster PROVE Inv'
  <1> USE DEF Inv
  <1> DEFINE fs == op.driver.fs
             next == IterNext(fs, op.it)
  <1>1. op.pc = "walk" /\ UNCHANGED <<disk, dev, devs, partitions, drivers>>
    BY DEF WalkCluster
  <1>2. Index'  BY <1>1, IndexStays
  <1>3. Fields(op, WalkFields)  BY <1>1 DEF CallInv
  <1>4. disk \in Disks /\ Mounted(fs)  BY <1>1, WalkMounted DEF Index
  <1>5. Sane(fs, op.dir, op.it)  BY <1>1 DEF WindowInv
  <1>6. CASE Quiet /\ UNCHANGED handle
    BY <1>1, <1>2, <1>6, QuietKeeps, HandleStays
  <1>7. CASE MayPanic(next) /\ Panic(OutsideFat(fs, op.dir)) /\ UNCHANGED handle
    <2>1. ~(op.dir \in Data(fs) /\ FatSuffices(fs))
      BY <1>4, <1>5, <1>7, IterStays DEF Sane
    <2>2. CallInv' /\ WindowInv' /\ PanicsOnlyOutside'
      <3> HIDE DEF fs
      <3> QED  BY <1>4, <1>7, <2>1, PanicOutside
    <2> QED  BY <1>1, <1>2, <1>7, <2>2, HandleStays
  <1>8. ASSUME next.item = "cluster", NEW s, Searched(next, s)
        PROVE  Inv'
    <2> DEFINE trail == Append(op.trail, [dir |-> op.dir, slot |-> s.slot])
               first == calculate_next_dir(s.slot).first_cluster
    <2>1. CASE op' = [op EXCEPT !.it = next.it] /\ UNCHANGED <<handle, result>>
      <3>1. Sane(fs, op.dir, next.it)
        BY <1>4, <1>5, <1>8, IterStays DEF Sane
      <3> HIDE DEF next
      <3>2. /\ Fields(op', WalkFields) /\ op'.pc = "walk" /\ op'.driver = op.driver
            /\ op'.dir = op.dir /\ op'.it = next.it
        BY <1>1, <1>3, <2>1 DEF Fields, WalkFields
      <3>3. CallInv' /\ WindowInv' /\ PanicsOnlyOutside'
        BY <1>1, <3>1, <3>2, WalkOn
      <3> QED  BY <1>1, <1>2, <2>1, <3>3, HandleStays
    <2>2. CASE Ended(s.verdict) /\ UNCHANGED handle
      BY <1>6, <2>2, EndedQuiet
    <2>3. CASE /\ op' = [op EXCEPT !.trail = trail, !.dir = first, !.it = Iter(first)]
               /\ UNCHANGED <<handle, result>>
      <3> HIDE DEF trail, first
      <3>1. /\ Fields(op', WalkFields) /\ op'.pc = "walk" /\ op'.driver = op.driver
            /\ op'.dir = first /\ op'.it = Iter(first)
        BY <1>1, <1>3, <2>3 DEF Fields, WalkFields
      <3>2. CallInv' /\ WindowInv' /\ PanicsOnlyOutside'
        BY <1>1, <3>1, StartSane, WalkOn
      <3> QED  BY <1>1, <1>2, <2>3, <3>2, HandleStays
    <2>4. CASE Opened(trail)
      <3>1. Quiet /\ HandleInv'
        <4> HIDE DEF trail
        <4> QED  BY <1>1, <2>4, OpenedKeeps
      <3> QED  BY <1>2, <3>1, QuietKeeps
    <2> QED  BY <1>8, <2>1, <2>2, <2>3, <2>4, Zenon DEF Searched
  <1> QED
    BY <1>6, <1>7, <1>8, EndedQuiet, Zenon DEF WalkCluster

-------------------------------------------------------------------------------
(* FileHandle *)

LEMMA ReadEndedQuiet == ASSUME NEW outcome, NEW data, ReadEnded(outcome, data) PROVE Quiet
  BY ReturnQuiet, Zenon DEF ReadEnded

LEMMA CopiedQuiet == Copied => Quiet
  BY ReadEndedQuiet, Zenon DEF Copied

(* A read that goes on with the same geometry. *)
LEMMA ReadOn ==
    ASSUME Fields(op', ReadFields), op'.pc = "read", Mounted(op'.fs), UNCHANGED disk,
           Sane(op'.fs, handle'.meta.first_cluster, op'.it)
    PROVE  CallInv' /\ WindowInv' /\ PanicsOnlyOutside'
  <1>1. Mounted(op.fs)'  BY DEF Mounted, FileSystem, DataSectors, DivCeil
  <1> QED  BY <1>1 DEF CallInv, WindowInv, PanicsOnlyOutside

LEMMA read_atKeeps ==
    ASSUME Inv, NEW offset, NEW len, read_at(offset, len)
    PROVE  Inv'
  <1> USE DEF Inv
  <1> DEFINE at == Min(Driver(handle.driver))
             fs == partitions[at].fs
             bpc == BlockSize * fs.spc
             byte == (offset % bpc) % BlockSize
             blocks == DivCeil(byte + len, BlockSize)
             meta == handle.meta
  <1>1. UNCHANGED <<disk, dev, devs, partitions, drivers, handle>>
    BY DEF read_at
  <1>2. Index' /\ HandleInv'  BY <1>1, IndexStays, HandleStays
  <1>3. CASE Quiet
    BY <1>2, <1>3, QuietKeeps
  <1>4. CASE /\ Upgrades(handle)
             /\ op' = [pc |-> "read", fs |-> fs, offset |-> offset, len |-> len,
                       it |-> Iter(meta.first_cluster), i |-> 0,
                       remaining |-> blocks, tmp |-> <<>>]
    <2>1. Driver(handle.driver) \in SUBSET Nat /\ Driver(handle.driver) # {}
      BY <1>4 DEF Driver, Index, Upgrades
    <2>2. Mounted(fs)
      <3>1. at \in DOMAIN partitions  BY <2>1, LeastOf DEF Driver
      <3> QED  BY <3>1 DEF Index
    <2> HIDE DEF fs, blocks, at
    <2>3. /\ op'.pc = "read" /\ op'.fs = fs /\ op'.it = Iter(handle'.meta.first_cluster)
          /\ Fields(op', ReadFields)
      BY <1>1, <1>4 DEF Fields, ReadFields
    <2> QED  BY <1>1, <1>2, <2>2, <2>3, ReadOn, StartSane
  <1> QED  BY <1>3, <1>4, ReturnQuiet, Zenon DEF read_at

LEMMA ReadClusterKeeps == ASSUME Inv, ReadCluster PROVE Inv'
  <1> USE DEF Inv
  <1> DEFINE bpc == BlockSize * op.fs.spc
             start == op.offset \div bpc
             skip == IF op.i = start THEN (op.offset % bpc) \div BlockSize ELSE 0
             n == SectorsHere(op.fs.spc - skip, op.remaining)
             next == IterNext(op.fs, op.it)
             first == handle.meta.first_cluster
  <1>1. op.pc = "read" /\ UNCHANGED <<disk, dev, devs, partitions, drivers, handle>>
    BY DEF ReadCluster
  <1>2. Index' /\ HandleInv'  BY <1>1, IndexStays, HandleStays
  <1>3. Fields(op, ReadFields) /\ Mounted(op.fs)  BY <1>1 DEF CallInv
  <1>4. disk \in Disks  BY DEF Index
  <1>5. Sane(op.fs, first, op.it)  BY <1>1 DEF WindowInv
  <1>6. CASE Quiet
    BY <1>2, <1>6, QuietKeeps
  <1>7. CASE MayPanic(next) /\ Panic(OutsideFat(op.fs, first))
    <2>1. ~(first \in Data(op.fs) /\ FatSuffices(op.fs))
      BY <1>3, <1>4, <1>5, <1>7, IterStays DEF Sane
    <2> QED  BY <1>1, <1>2, <1>3, <1>4, <1>7, <2>1, PanicOutside
  <1>8. ASSUME next.item = "cluster", Fields(op', ReadFields), op'.pc = "read",
               op'.fs = op.fs, op'.it = next.it
        PROVE  Inv'
    <2>1. Sane(op.fs, first, next.it)
      BY <1>3, <1>4, <1>5, <1>8, IterStays DEF Sane
    <2> HIDE DEF next
    <2> QED  BY <1>1, <1>2, <1>3, <1>8, <2>1, ReadOn
  <1>9. CASE next.item = "cluster" /\ op' = [op EXCEPT !.it = next.it, !.i = @ + 1]
    <2>1. /\ Fields(op', ReadFields) /\ op'.pc = "read" /\ op'.fs = op.fs /\ op'.it = next.it
      <3> HIDE DEF next
      <3> QED  BY <1>1, <1>3, <1>9 DEF Fields, ReadFields
    <2> QED  BY <1>8, <1>9, <2>1
  <1>10. CASE /\ next.item = "cluster"
              /\ op' = [op EXCEPT !.it = next.it, !.i = @ + 1, !.remaining = @ - n,
                                  !.tmp = @ \o [k \in 1 .. n |-> next.lba + skip + k - 1]]
    <2> DEFINE sectors == [k \in 1 .. n |-> next.lba + skip + k - 1]
    <2>1. op' = [op EXCEPT !.it = next.it, !.i = @ + 1, !.remaining = @ - n,
                           !.tmp = @ \o sectors]
      BY <1>10, Zenon
    <2>2. /\ Fields(op', ReadFields) /\ op'.pc = "read" /\ op'.fs = op.fs /\ op'.it = next.it
      <3> HIDE DEF next, n, sectors
      <3> QED  BY <1>1, <1>3, <2>1 DEF Fields, ReadFields
    <2> QED  BY <1>8, <1>10, <2>2
  <1> QED
    BY <1>6, <1>7, <1>9, <1>10, ReadEndedQuiet, CopiedQuiet, Zenon DEF ReadCluster

LEMMA IoFaultKeeps == ASSUME Inv, IoFault PROVE Inv'
  <1> USE DEF Inv
  <1>1. Quiet
    BY EndedQuiet, ReadEndedQuiet, Zenon DEF IoFault
  <1> QED  BY <1>1, QuietKeeps, IndexStays, HandleStays DEF IoFault

-------------------------------------------------------------------------------
LEMMA NextKeeps == Inv /\ [Next]_vars => Inv'
  <1> SUFFICES ASSUME Inv, [Next]_vars  PROVE Inv'
    OBVIOUS
  <1>1. CASE UNCHANGED vars
    <2>1. UNCHANGED <<disk, dev, devs, partitions, drivers, handle, op>>
      BY <1>1 DEF vars
    <2>2. Index' /\ HandleInv'
      BY <2>1, IndexStays, HandleStays DEF Inv
    <2>3. op.pc = "read" => Mounted(op.fs)'
      BY <2>1, MountedStays DEF Inv, CallInv
    <2>4. CallInv'
      BY <2>1, <2>3 DEF Inv, CallInv
    <2>5. WindowInv' /\ PanicsOnlyOutside'
      BY <2>1 DEF Inv, WindowInv, PanicsOnlyOutside
    <2> QED  BY <2>2, <2>4, <2>5 DEF Inv
  <1>2. CASE Next
    BY <1>2, new_virtioKeeps, dropKeeps, flushKeeps, openKeeps, BadNameKeeps,
       WalkClusterKeeps, read_atKeeps, ReadClusterKeeps, IoFaultKeeps, Zenon DEF Next
  <1> QED  BY <1>1, <1>2

LEMMA InvHolds == Spec => []Inv
  BY InitHolds, NextKeeps, PTL DEF Spec

(***************************************************************************)
(* PartitionIndex keeps every driver it made until the device is dropped,  *)
(* so the weak references of a handle upgrade for as long as the handle's  *)
(* own device is the live one: whatever is on the disk, however many opens *)
(* and devices came in between.                                            *)
(***************************************************************************)
THEOREM HandlesKept == Spec => []HandlesStayOpen
  <1>1. Inv => HandlesStayOpen
    BY DEF Inv, HandleInv, HandlesStayOpen, Upgrades
  <1> QED  BY <1>1, InvHolds, PTL

(***************************************************************************)
(* FAT32FATIter::next, with any number of sectors cached and any FAT on    *)
(* the disk: the unchecked index into the cached window, and cluster - 2,  *)
(* go wrong only if the first cluster was outside the volume or the FAT is *)
(* shorter than the volume it describes.                                   *)
(***************************************************************************)
THEOREM WindowSafe == Spec => []PanicsOnlyOutside
  <1>1. Inv => PanicsOnlyOutside
    BY DEF Inv
  <1> QED  BY <1>1, InvHolds, PTL


-------------------------------------------------------------------------------
(* The chain *)

LEMMA FollowType ==
    ASSUME NEW fat, \A x \in DOMAIN fat : fat[x] \in Nat, NEW n
    PROVE  Follow(fat, n) \in Nat
  <1>1. CASE n \in DOMAIN fat
    <2>1. fat[n] \in Nat  BY <1>1
    <2>2. fat[n] % MASK \in Nat  BY <2>1, MaskPositive
    <2> QED  BY <2>2 DEF Follow
  <1> QED  BY <1>1 DEF Follow

LEMMA ChainUnfolds ==
    ASSUME NEW fat, \A x \in DOMAIN fat : fat[x] \in Nat, NEW first \in Nat
    PROVE  /\ Chain(fat, first) \in [Nat -> Nat]
           /\ Chain(fat, first)[0] = first
           /\ \A n \in Nat : Chain(fat, first)[n + 1] = Follow(fat, Chain(fat, first)[n])
  <1> DEFINE step == [n \in Nat |-> Follow(fat, n)]
             Rec(f) == f = [n \in Nat |-> IF n = 0 THEN first ELSE Follow(fat, f[n - 1])]
  <1>1. step \in [Nat -> Nat]  BY FollowType
  <1>2. PICK F \in [Nat -> Nat] : F[0] = first /\ \A n \in Nat : F[n + 1] = step[F[n]]
    <2> HIDE DEF step
    <2>1. Iterates(Nat)  BY IterateExists
    <2>2. \A a \in Nat : \A g \in [Nat -> Nat] :
            \E f \in [Nat -> Nat] : f[0] = a /\ \A n \in Nat : f[n + 1] = g[f[n]]
      BY <2>1, Zenon DEF Iterates
    <2> QED  BY <1>1, <2>2, Zenon
  <1>3. \A n \in Nat : F[n + 1] = Follow(fat, F[n])  BY <1>2
  <1>4. Rec(F)
    <2>1. ASSUME NEW n \in Nat, n # 0  PROVE F[n] = Follow(fat, F[n - 1])
      <3>1. n - 1 \in Nat /\ (n - 1) + 1 = n  BY <2>1
      <3> QED  BY <1>3, <3>1
    <2> QED  BY <1>2, <2>1
  <1>5. Rec(Chain(fat, first))
    <2> HIDE DEF Rec
    <2>1. Chain(fat, first) = CHOOSE f : Rec(f)  BY DEF Chain, Rec
    <2> QED  BY <1>4, <2>1
  <1> DEFINE C == Chain(fat, first)
  <1>6. /\ C = [n \in Nat |-> C[n]]
        /\ \A n \in Nat : C[n] = IF n = 0 THEN first ELSE Follow(fat, C[n - 1])
    <2> HIDE DEF C
    <2>1. Rec(C)  BY <1>5 DEF C
    <2> QED  BY <2>1
  <1> HIDE DEF C
  <1>7. \A n \in Nat : C[n] \in Nat  BY <1>6, FollowType
  <1>8. ASSUME NEW n \in Nat  PROVE C[n + 1] = Follow(fat, C[n])
    <2>1. n + 1 \in Nat /\ n + 1 # 0 /\ (n + 1) - 1 = n  OBVIOUS
    <2> QED  BY <1>6, <2>1
  <1> QED  BY <1>6, <1>7, <1>8 DEF C

(* Once a chain has ended it stays ended. *)
LEMMA EndedStays ==
    ASSUME NEW fat, \A x \in DOMAIN fat : fat[x] \in Nat, NEW first \in Nat,
           NEW n \in Nat, Chain(fat, first)[n] = 0
    PROVE  \A m \in Nat : m >= n => Chain(fat, first)[m] = 0
  <1> DEFINE C == Chain(fat, first)
             G == {m \in Nat : C[n + m] = 0}
  <1>1. \A m \in Nat : C[m + 1] = Follow(fat, C[m])  BY ChainUnfolds
  <1> HIDE DEF C
  <1>2. 0 \in G  BY DEF C
  <1>3. ASSUME NEW m \in G  PROVE m + 1 \in G
    <2>1. n + m \in Nat /\ n + (m + 1) = (n + m) + 1 /\ m + 1 \in Nat /\ C[n + m] = 0  OBVIOUS
    <2>2. C[(n + m) + 1] = Follow(fat, 0)  BY <1>1, <2>1
    <2>3. Follow(fat, 0) = 0  BY DEF Follow
    <2> QED  BY <2>1, <2>2, <2>3
  <1>4. G = Nat
    <2> HIDE DEF G
    <2>1. G \in SUBSET Nat  BY DEF G
    <2> QED  BY <1>2, <1>3, <2>1, Induction
  <1>5. ASSUME NEW m \in Nat, m >= n  PROVE C[m] = 0
    <2>1. m - n \in Nat /\ n + (m - n) = m  BY <1>5
    <2>2. C[n + (m - n)] = 0  BY <1>4, <2>1
    <2> QED  BY <2>1, <2>2
  <1> QED  BY <1>5 DEF C

-------------------------------------------------------------------------------
(* Arithmetic *)

LEMMA DivMod ==
    ASSUME NEW n \in Nat, NEW k \in Nat \ {0}
    PROVE  n \div k \in Nat /\ n % k \in 0 .. k - 1 /\ n = (n \div k) * k + (n % k)
  OBVIOUS

LEMMA DivUnique ==
    ASSUME NEW k \in Nat \ {0}, NEW q \in Nat, NEW r \in 0 .. k - 1, NEW n, n = q * k + r
    PROVE  n \in Nat /\ n \div k = q /\ n % k = r
  <1>1. q * k \in Nat  OBVIOUS
  <1>2. n \in Nat  BY <1>1
  <1>3. n \div k \in Nat /\ n % k \in 0 .. k - 1 /\ n = (n \div k) * k + (n % k)
    BY <1>2, DivMod
  <1> DEFINE d == n \div k
             e == n % k
  <1>4. d \in Nat /\ e \in 0 .. k - 1 /\ n = d * k + e  BY <1>3
  <1> HIDE DEF d, e
  <1>5. ASSUME NEW a \in Nat, NEW b \in Nat, NEW x \in 0 .. k - 1, NEW y \in 0 .. k - 1,
               a * k + x = b * k + y, a < b
        PROVE  FALSE
    <2>1. (a + 1) * k <= b * k  BY <1>5, TimesMonotone
    <2>2. (a + 1) * k = a * k + k  OBVIOUS
    <2> DEFINE ak == a * k
               bk == b * k
    <2>3. ak \in Nat /\ bk \in Nat /\ ak + k <= bk /\ ak + x = bk + y
      BY <1>5, <2>1, <2>2
    <2> HIDE DEF ak, bk
    <2> QED  BY <2>3
  <1>6. d = q
    <2>1. ~(d < q)  BY <1>4, <1>5
    <2>2. ~(q < d)  BY <1>4, <1>5
    <2> QED  BY <1>4, <2>1, <2>2
  <1>7. e = r  BY <1>1, <1>4, <1>6
  <1> QED  BY <1>2, <1>6, <1>7 DEF d, e

(* Clusters of s sectors of b bytes. *)
LEMMA DivNested ==
    ASSUME NEW n \in Nat, NEW b \in Nat \ {0}, NEW s \in Nat \ {0}
    PROVE  /\ b * s \in Nat \ {0}
           /\ n \div (b * s) = (n \div b) \div s
           /\ (n % (b * s)) \div b = (n \div b) % s
           /\ (n % (b * s)) % b = n % b
  <1> DEFINE q == n \div b
             r == n % b
             Q == q \div s
             R == q % s
             x == R * b + r
  <1>1. q \in Nat /\ r \in 0 .. b - 1 /\ n = q * b + r  BY DivMod
  <1>2. Q \in Nat /\ R \in 0 .. s - 1 /\ q = Q * s + R
    <2> HIDE DEF q
    <2> QED  BY <1>1, DivMod
  <1>3. b * s \in Nat \ {0}
    <2>1. 1 * s <= b * s  BY TimesMonotone
    <2>2. 1 * s = s /\ b * s \in Int  OBVIOUS
    <2> DEFINE z == b * s
    <2>3. z \in Int /\ s <= z  BY <2>1, <2>2
    <2> HIDE DEF z
    <2>4. z \in Nat \ {0}  BY <2>3
    <2> QED  BY <2>4 DEF z
  <1> HIDE DEF q, r, Q, R
  <1>4. n = Q * (b * s) + x
    <2>1. q * b = Q * (b * s) + R * b  BY <1>2
    <2> QED  BY <1>1, <1>2, <2>1
  <1>5. x \in 0 .. (b * s) - 1
    <2>1. (R + 1) * b <= s * b  BY <1>2, TimesMonotone
    <2>2. (R + 1) * b = R * b + b /\ s * b = b * s /\ R * b \in Nat  BY <1>2
    <2> DEFINE Rb == R * b
               bs == b * s
    <2>3. Rb \in Nat /\ bs \in Nat /\ Rb + b <= bs /\ x = Rb + r  BY <1>3, <2>1, <2>2
    <2> HIDE DEF Rb, x, bs
    <2>4. x \in 0 .. bs - 1  BY <1>1, <2>3
    <2> QED  BY <2>4 DEF bs
  <1> HIDE DEF x
  <1>6. n \div (b * s) = Q /\ n % (b * s) = x
    <2> DEFINE bs == b * s
    <2>1. bs \in Nat \ {0} /\ x \in 0 .. bs - 1 /\ n = Q * bs + x  BY <1>3, <1>4, <1>5
    <2> HIDE DEF bs
    <2>2. n \div bs = Q /\ n % bs = x  BY <1>2, <2>1, DivUnique
    <2> QED  BY <2>2 DEF bs
  <1>7. x \div b = R /\ x % b = r
    BY <1>1, <1>2, DivUnique DEF x
  <1> QED  BY <1>3, <1>6, <1>7 DEF Q, R, q, r

(* A number lies below the rounded up quotient when its multiple lies below. *)
LEMMA BelowCeil ==
    ASSUME NEW n \in Nat, NEW b \in Nat \ {0}, NEW m \in Nat
    PROVE  DivCeil(n, b) \in Nat /\ (m < DivCeil(n, b) <=> m * b < n)
  <1> DEFINE x == n + b - 1
             d == x \div b
  <1>1. x \in Nat  OBVIOUS
  <1>2. d \in Nat /\ x % b \in 0 .. b - 1 /\ x = d * b + (x % b)
    <2> HIDE DEF x
    <2> QED  BY <1>1, DivMod
  <1>3. DivCeil(n, b) = d  BY DEF DivCeil
  <1> DEFINE e == x % b
             db == d * b
             mb == m * b
  <1>4. e \in 0 .. b - 1 /\ n + b - 1 = db + e /\ db \in Nat /\ mb \in Nat
    BY <1>2
  <1>5. ASSUME m < d  PROVE mb + b <= db
    <2>1. (m + 1) * b <= d * b
      <3> HIDE DEF d
      <3> QED  BY <1>2, <1>5, TimesMonotone
    <2>2. (m + 1) * b = m * b + b  OBVIOUS
    <2> QED  BY <2>1, <2>2
  <1>6. ASSUME ~(m < d)  PROVE db <= mb
    <2> HIDE DEF d
    <2> QED  BY <1>2, <1>6, TimesMonotone
  <1> HIDE DEF d, e, db, mb, x
  <1>7. m < d <=> mb < n
    BY <1>2, <1>4, <1>5, <1>6
  <1> QED  BY <1>2, <1>3, <1>7 DEF mb

-------------------------------------------------------------------------------
(* The iterator follows the chain *)

(* A window that lies in the FAT; so does the empty one. *)
InFat(fs, w) == w.start \in Nat /\ w.len \in Nat /\ w.start + w.len <= fs.spf

LEMMA WindowInFat ==
    ASSUME NEW fs, NEW cluster \in Nat, fs.bps \in Nat \ {0}, fs.spf \in Nat
    PROVE  InFat(fs, Window(fs, cluster))
  <1> DEFINE at == cluster * EntrySize
             sector == at \div fs.bps
             half == ALLOCATE_SIZE \div 2
             len == Min({ALLOCATE_SIZE, fs.spf})
             back == Max({0, sector - half})
             start == IF back + len > fs.spf THEN fs.spf - len ELSE back
  <1>1. ALLOCATE_SIZE \in Nat \ {0} /\ EntrySize \in Nat \ {0}
    BY GeometryAssumption
  <1>2. at \in Nat  BY <1>1
  <1>3. sector \in Nat
    <2> HIDE DEF at
    <2> QED  BY <1>2, Division
  <1>4. half \in Nat  BY <1>1
  <1>5. len \in Nat /\ len <= fs.spf
    BY <1>1, MinOfTwo
  <1>6. back \in Nat
    <2> HIDE DEF sector, half
    <2> QED  BY <1>3, <1>4, MaxOfTwo
  <1>7. start \in Nat /\ start + len <= fs.spf
    <2> HIDE DEF len, back
    <2> QED  BY <1>5, <1>6
  <1>8. Window(fs, cluster) = [start |-> start, len |-> len]
    BY DEF Window
  <1> QED  BY <1>5, <1>7, <1>8 DEF InFat

LEMMA CoveredEntry ==
    ASSUME disk \in Disks, NEW fs, Mounted(fs), NEW w, InFat(fs, w), NEW n \in Nat,
           Covers(fs, w, n)
    PROVE  n \in DOMAIN disk.fat
  <1>1. fs.spf \in Nat /\ fs.bps \in Nat \ {0} /\ fs.bps = BlockSize
        /\ disk.boot.bytes_per_sec = fs.bps /\ disk.boot.fat_sz_32 = fs.spf
    BY MountedTypes
  <1>2. EntrySize \in Nat \ {0}  BY GeometryAssumption
  <1> DEFINE size == disk.boot.fat_sz_32 * disk.boot.bytes_per_sec
             at == n * EntrySize
             end == (w.start + w.len) * fs.bps
  <1>3. size = fs.spf * fs.bps /\ size \in Nat  BY <1>1
  <1>4. end <= size
    <2>1. w.start + w.len \in Int /\ w.start + w.len <= fs.spf  BY DEF InFat
    <2>2. end <= fs.spf * fs.bps  BY <1>1, <2>1, TimesMonotone
    <2> QED  BY <1>3, <2>2
  <1>5. at < end  BY DEF Covers
  <1>6. n <= at /\ at \in Nat
    <2>1. 1 * n <= EntrySize * n  BY <1>2, TimesMonotone
    <2> QED  BY <1>2, <2>1
  <1>7. end \in Int  BY <1>1 DEF InFat
  <1>8. \A k \in 0 .. size - 1 : k * EntrySize < size => k \in DOMAIN disk.fat
    BY <1>1, DisksAssumption
  <1>9. n \in 0 .. size - 1 /\ at < size
    <2> HIDE DEF size, at, end
    <2> QED  BY <1>3, <1>4, <1>5, <1>6, <1>7
  <1> QED  BY <1>8, <1>9

LEMMA MarksBelowEnd == Bad < EndOfChain /\ \A x \in Reserved : x < EndOfChain
  <1>1. MASK \in Nat  BY MaskPositive
  <1> QED  BY <1>1 DEF Bad, Reserved, EndOfChain

(* What the iterator yields is what the FAT says, or the FAT says nothing  *)
(* sound.                                                                  *)
LEMMA IterFollows ==
    ASSUME disk \in Disks, NEW fs, Mounted(fs), NEW it, it.next \in Nat, InFat(fs, it.cache)
    PROVE  LET next == IterNext(fs, it)
               to   == Follow(disk.fat, it.next)
           IN  /\ next.item = "none" => it.next = 0
               /\ next.item = "Corrupted" => it.next # 0 /\ ~Sound(fs, it.next)
               /\ next.item = "cluster" =>
                     /\ it.next # 0
                     /\ next.lba = ClusterLba(fs, it.next)
                     /\ next.it.next = to
                     /\ to \in {0} \cup Data(fs)
                     /\ InFat(fs, next.it.cache)
  <1> DEFINE next == IterNext(fs, it)
             to == Follow(disk.fat, it.next)
             w == Used(fs, it)
             adv == Advance(fs, it, disk.fat[it.next])
             x == disk.fat[it.next] % MASK
  <1> SUFFICES ASSUME it.next # 0, next.item \in {"Corrupted", "cluster"}
      PROVE  /\ next.item = "Corrupted" => ~Sound(fs, it.next)
             /\ next.item = "cluster" =>
                   /\ next.lba = ClusterLba(fs, it.next)
                   /\ next.it.next = to
                   /\ to \in {0} \cup Data(fs)
                   /\ InFat(fs, next.it.cache)
    <2>1. next.item = "none" => it.next = 0
      <3>1. adv.item \in {"Corrupted", "cluster"}  BY DEF Advance
      <3> HIDE DEF adv
      <3> QED  BY <3>1, Zenon DEF IterNext, NoCluster, adv
    <2>2. it.next = 0 => next.item = "none"
      BY DEF IterNext, NoCluster
    <2> HIDE DEF next, to
    <2> QED  BY <2>1, <2>2 DEF next, to
  <1>1. fs.bps \in Nat \ {0} /\ fs.spf \in Nat /\ fs.count \in Nat  BY MountedTypes
  <1>2. InFat(fs, w)
    BY <1>1, WindowInFat DEF Used
  <1>3. adv.item \in {"Corrupted", "cluster"}  BY DEF Advance
  <1>4. /\ Covers(fs, w, it.next)
        /\ \/ next = adv /\ adv.item = "Corrupted"
           \/ /\ adv.item # "Corrupted"
              /\ next = [item |-> "cluster", lba |-> ClusterLba(fs, it.next),
                         under |-> it.next < 2, it |-> adv.it]
    <2> HIDE DEF w, adv
    <2> QED  BY Zenon DEF IterNext, NoCluster, w, adv
  <1>5. it.next \in DOMAIN disk.fat
    <2> HIDE DEF w
    <2> QED  BY <1>2, <1>4, CoveredEntry
  <1>6. disk.fat[it.next] \in Nat  BY <1>5, DisksAssumption
  <1>7. x \in Nat  BY <1>6, MaskPositive
  <1>8. to = IF x >= EndOfChain THEN 0 ELSE x
    BY <1>5 DEF Follow
  <1>9. EndOfChain \in Nat \ {0, 1}  BY DEF EndOfChain, MASK
  <1>10. CASE next = adv /\ adv.item = "Corrupted"
    <2>1. ~(x >= EndOfChain) /\ x \notin Data(fs) \ ({Bad} \cup Reserved)
      <3>1. x \in {0, 1, Bad} \cup Reserved \/ (~(x >= EndOfChain) /\ x > fs.count + 1)
        <4> HIDE DEF x
        <4> QED  BY <1>10 DEF Advance, adv, x
      <3> HIDE DEF x
      <3>2. CASE x \in {0, 1}
        BY <1>1, <1>9, <3>2 DEF Data
      <3>3. CASE x \in {Bad} \cup Reserved
        <4>1. x < EndOfChain  BY <3>3, MarksBelowEnd
        <4> QED  BY <1>7, <1>9, <3>3, <4>1
      <3>4. CASE ~(x >= EndOfChain) /\ x > fs.count + 1
        BY <1>1, <1>7, <1>9, <3>4 DEF Data
      <3> QED  BY <3>1, <3>2, <3>3, <3>4
    <2> QED  BY <1>7, <1>9, <1>10, <2>1 DEF Sound
  <1>11. CASE /\ adv.item # "Corrupted"
              /\ next = [item |-> "cluster", lba |-> ClusterLba(fs, it.next),
                         under |-> it.next < 2, it |-> adv.it]
    <2>1. \/ x >= EndOfChain /\ adv.it = Iter(NoCluster)
          \/ /\ ~(x >= EndOfChain) /\ x \notin {0, 1} /\ ~(x > fs.count + 1)
             /\ adv.it = [next |-> x, cache |-> IF Covers(fs, w, x) THEN w ELSE NoWindow]
      <3> HIDE DEF x, w
      <3> QED  BY <1>11 DEF Advance, adv, x, w
    <2> DEFINE u == it.next < 2
               lba == ClusterLba(fs, it.next)
               ahead == adv.it
    <2>2. next = [item |-> "cluster", lba |-> lba, under |-> u, it |-> ahead]
      BY <1>11, Zenon
    <2>3. next.item = "cluster" /\ next.lba = lba /\ next.it = ahead
      <3> HIDE DEF u, lba, ahead, next
      <3> QED  BY <2>2
    <2>4. ahead.next = to /\ to \in {0} \cup Data(fs) /\ InFat(fs, ahead.cache)
      <3> HIDE DEF x, w, to, adv
      <3>1. CASE x >= EndOfChain /\ ahead = Iter(NoCluster)
        BY <1>1, <1>8, <3>1 DEF Iter, NoCluster, NoWindow, InFat
      <3>2. CASE /\ ~(x >= EndOfChain) /\ x \notin {0, 1} /\ ~(x > fs.count + 1)
                 /\ ahead = [next |-> x, cache |-> IF Covers(fs, w, x) THEN w ELSE NoWindow]
        <4>1. x \in Data(fs)  BY <1>1, <1>7, <3>2 DEF Data
        <4>2. InFat(fs, NoWindow)  BY <1>1 DEF NoWindow, InFat
        <4>3. InFat(fs, ahead.cache)  BY <1>2, <3>2, <4>2
        <4> QED  BY <1>8, <3>2, <4>1, <4>3
      <3> QED  BY <2>1, <3>1, <3>2
    <2> HIDE DEF next, ahead, to
    <2> QED  BY <2>3, <2>4
  <1> QED  BY <1>4, <1>10, <1>11

-------------------------------------------------------------------------------
(* The entry that was found has a cluster number *)

LEMMA FoundIsShort ==
    ASSUME disk \in Disks, NEW lba, NEW name,
           SearchCluster(Slots(lba), name).verdict = "found"
    PROVE  SearchCluster(Slots(lba), name).slot.fst_clus \in Nat
  <1> DEFINE slots == Slots(lba)
             ends == {i \in DOMAIN slots : slots[i].kind = "end"} \cup {Len(slots) + 1}
             end == Min(ends)
             hits == Hits(slots, end, name)
             s == SearchCluster(slots, name)
  <1>1. /\ Len(slots) \in Nat /\ DOMAIN slots = 1 .. Len(slots)
        /\ \A i \in DOMAIN slots : slots[i].kind = "short" => slots[i].fst_clus \in Nat
    <2>1. CASE lba \in DOMAIN disk.slots
      BY <2>1, DisksAssumption DEF Slots
    <2>2. CASE lba \notin DOMAIN disk.slots
      <3>1. slots = <<>>  BY <2>2 DEF Slots
      <3> HIDE DEF slots
      <3> QED  BY <3>1
    <2> QED  BY <2>1, <2>2
  <1> HIDE DEF slots
  <1>2. end \in Nat /\ end <= Len(slots) + 1
    <2>1. ends \in SUBSET Nat /\ Len(slots) + 1 \in ends  BY <1>1
    <2> HIDE DEF ends
    <2>2. ends # {}  BY <2>1
    <2> QED  BY <2>1, <2>2, LeastOf
  <1>3. s = FirstHit(hits)
    BY DEF SearchCluster
  <1> HIDE DEF end, s
  <1>4. s.verdict = "found"  BY DEF s, slots
  <1>5. hits # {}
    <2> HIDE DEF hits
    <2> QED  BY <1>3, <1>4 DEF FirstHit
  <1>6. \A h \in hits : \E i \in 1 .. end - 1 :
          h = [at |-> i, verdict |-> Verdict(slots, i, name), slot |-> slots[i]]
    BY Zenon DEF Hits
  <1> HIDE DEF hits
  <1>7. s \in hits
    <2> DEFINE places == {h.at : h \in hits}
    <2>1. \A h \in hits : h.at \in Nat
      BY <1>2, <1>6
    <2>2. places \in SUBSET Nat /\ places # {}  BY <1>5, <2>1
    <2>3. PICK p \in places : \A y \in places : p <= y
      <3> HIDE DEF places
      <3> QED  BY <2>2, LeastOf
    <2>4. PICK h \in hits : h.at = p  OBVIOUS
    <2>5. \A g \in hits : h.at <= g.at  BY <2>3, <2>4
    <2>6. s = CHOOSE k \in hits : \A g \in hits : k.at <= g.at
      BY <1>3, <1>5 DEF FirstHit
    <2> HIDE DEF places
    <2> QED  BY <2>4, <2>5, <2>6, Zenon
  <1>8. PICK i \in 1 .. end - 1 :
          s = [at |-> i, verdict |-> Verdict(slots, i, name), slot |-> slots[i]]
    BY <1>6, <1>7, Zenon
  <1>9. Verdict(slots, i, name) = "found" /\ s.slot = slots[i]
    <2> DEFINE v == Verdict(slots, i, name)
    <2> HIDE DEF v
    <2>1. s = [at |-> i, verdict |-> v, slot |-> slots[i]]  BY <1>8 DEF v
    <2> QED  BY <1>4, <2>1 DEF v
  <1>10. slots[i].kind = "short"
    BY <1>9, Zenon DEF Verdict
  <1>11. i \in DOMAIN slots  BY <1>1, <1>2
  <1> QED  BY <1>1, <1>9, <1>10, <1>11 DEF s, slots

-------------------------------------------------------------------------------
(* A request and its sectors *)

Bpc(fs) == BlockSize * fs.spc
FirstLink(fs, offset) == offset \div Bpc(fs)
Skipped(fs, offset) == (offset % Bpc(fs)) \div BlockSize
SectorCount(fs, offset, len) == DivCeil(((offset % Bpc(fs)) % BlockSize) + len, BlockSize)

(* The sector that holds the file's n-th block. *)
BlockLba(fs, chain, n) == ClusterLba(fs, chain[n \div fs.spc]) + (n % fs.spc)

LEMMA RequestLayout ==
    ASSUME NEW fs, fs.spc \in Nat \ {0}, NEW offset \in Nat, NEW len \in Nat
    PROVE  /\ Bpc(fs) \in Nat \ {0}
           /\ FirstLink(fs, offset) \in Nat
           /\ Skipped(fs, offset) \in 0 .. fs.spc - 1
           /\ FirstLink(fs, offset) * fs.spc + Skipped(fs, offset) = offset \div BlockSize
           /\ (offset % Bpc(fs)) % BlockSize = offset % BlockSize
           /\ SectorCount(fs, offset, len) \in Nat
  <1> DEFINE b == BlockSize
             s == fs.spc
             q == offset \div b
  <1>1. b \in Nat \ {0}  BY GeometryAssumption
  <1>2. q \in Nat /\ offset % b \in 0 .. b - 1  BY <1>1, DivMod
  <1>3. /\ b * s \in Nat \ {0}
        /\ offset \div (b * s) = q \div s
        /\ (offset % (b * s)) \div b = q % s
        /\ (offset % (b * s)) % b = offset % b
    <2> HIDE DEF b, s
    <2>1. s \in Nat \ {0}  BY DEF s
    <2>2. \A y, z \in Nat \ {0} :
            /\ y * z \in Nat \ {0}
            /\ offset \div (y * z) = (offset \div y) \div z
            /\ (offset % (y * z)) \div y = (offset \div y) % z
            /\ (offset % (y * z)) % y = offset % y
      BY DivNested
    <2> QED  BY <1>1, <2>1, <2>2, Zenon
  <1> HIDE DEF q
  <1>4. q \div s \in Nat /\ q % s \in 0 .. s - 1 /\ q = (q \div s) * s + (q % s)
    BY <1>2, DivMod
  <1>5. SectorCount(fs, offset, len) \in Nat
    <2>1. (offset % b) + len \in Nat  BY <1>2
    <2>2. SectorCount(fs, offset, len) = DivCeil((offset % b) + len, b)
      BY <1>3, Zenon DEF SectorCount, Bpc
    <2> DEFINE t == (offset % b) + len
    <2> HIDE DEF t
    <2>3. t \in Nat  BY <2>1 DEF t
    <2>4. DivCeil(t, b) \in Nat  BY <1>1, <2>3, BelowCeil
    <2> QED  BY <2>2, <2>4 DEF t
  <1>6. FirstLink(fs, offset) = q \div s /\ Skipped(fs, offset) = q % s
    BY <1>3, Zenon DEF FirstLink, Skipped, Bpc
  <1> QED  BY <1>3, <1>4, <1>5, <1>6 DEF q, Bpc

LEMMA DivNestedAll ==
    \A n \in Nat : \A b, s \in Nat \ {0} :
        /\ n \div (b * s) = (n \div b) \div s
        /\ (n % (b * s)) \div b = (n \div b) % s
  <1> TAKE n \in Nat
  <1>1. \A y, z \in Nat \ {0} :
            /\ y * z \in Nat \ {0}
            /\ n \div (y * z) = (n \div y) \div z
            /\ (n % (y * z)) \div y = (n \div y) % z
            /\ (n % (y * z)) % y = n % y
      BY DivNested
  <1> QED  BY <1>1, Zenon

-------------------------------------------------------------------------------
(* The loop of read_at *)

(* What is read before cluster i of the chain: every block of the request  *)
(* that lies there, in order.                                              *)
Whole(fs, offset, i) == (i - FirstLink(fs, offset)) * fs.spc - Skipped(fs, offset)

Progress(fs, chain, offset, len, i, remaining, tmp) ==
    /\ i \in Nat /\ remaining \in Nat /\ tmp \in Seq(Int)
    /\ Len(tmp) + remaining = SectorCount(fs, offset, len)
    /\ i <= FirstLink(fs, offset) => Len(tmp) = 0
    /\ i > FirstLink(fs, offset) => /\ Len(tmp) <= Whole(fs, offset, i)
                                    /\ remaining # 0 => Len(tmp) = Whole(fs, offset, i)
    /\ \A j \in 1 .. Len(tmp) :
          tmp[j] = BlockLba(fs, chain, (offset \div BlockSize) + j - 1)
    /\ i <= ((offset + len) \div Bpc(fs)) + 1

(* The block that comes next lies in cluster i, or further on. *)
LEMMA BlocksBefore ==
    ASSUME NEW fs, fs.spc \in Nat \ {0}, NEW chain, NEW offset \in Nat, NEW len \in Nat,
           NEW i, NEW remaining, NEW tmp,
           Progress(fs, chain, offset, len, i, remaining, tmp), remaining # 0
    PROVE  /\ i * fs.spc <= (offset \div BlockSize) + Len(tmp)
           /\ i >= FirstLink(fs, offset) =>
                 (offset \div BlockSize) + Len(tmp) =
                 i * fs.spc + (IF i = FirstLink(fs, offset) THEN Skipped(fs, offset) ELSE 0)
  <1> DEFINE first == FirstLink(fs, offset)
             skip == Skipped(fs, offset)
             s == fs.spc
             n == Len(tmp)
             block == offset \div BlockSize
             fs1 == first * s
             is1 == i * s
  <1>1. /\ first \in Nat /\ skip \in 0 .. s - 1 /\ first * s + skip = block
    BY RequestLayout
  <1>2. /\ i \in Nat /\ n \in Nat
        /\ i <= first => n = 0
        /\ i > first => n = (i - first) * s - skip
    BY DEF Progress, Whole
  <1>3. s \in Nat \ {0}  OBVIOUS
  <1>4. i > first => n = is1 - fs1 - skip
    <2> HIDE DEF first, skip, s, n
    <2>1. (i - first) * s = i * s - first * s  BY <1>1, <1>2, <1>3
    <2> QED  BY <1>2, <2>1
  <1>5. i <= first => is1 <= fs1
    <2> HIDE DEF first, s
    <2> QED  BY <1>1, <1>2, <1>3, TimesMonotone
  <1>6. i = first => is1 = fs1  OBVIOUS
  <1>7. is1 \in Nat /\ fs1 \in Nat /\ fs1 + skip = block
    <2> HIDE DEF first, s, block
    <2> QED  BY <1>1, <1>2, <1>3
  <1>8. /\ is1 <= block + n
        /\ i >= first => block + n = is1 + (IF i = first THEN skip ELSE 0)
    <2> HIDE DEF first, skip, s, n, block, fs1, is1
    <2> QED  BY <1>1, <1>2, <1>3, <1>4, <1>5, <1>6, <1>7
  <1> QED  BY <1>8

(* While something remains, the next cluster holds a byte asked for. *)
LEMMA Reach ==
    ASSUME NEW fs, fs.spc \in Nat \ {0}, NEW chain, NEW offset \in Nat, NEW len \in Nat,
           NEW i, NEW remaining, NEW tmp,
           Progress(fs, chain, offset, len, i, remaining, tmp), remaining # 0
    PROVE  i * Bpc(fs) < offset + len
  <1> DEFINE b == BlockSize
             s == fs.spc
             n == Len(tmp)
             block == offset \div b
             byte == offset % b
             t == byte + len
  <1>1. b \in Nat \ {0} /\ s \in Nat \ {0}  BY GeometryAssumption
  <1>2. block \in Nat /\ byte \in 0 .. b - 1 /\ offset = block * b + byte
    BY <1>1, DivMod
  <1>3. i \in Nat /\ n \in Nat /\ n < SectorCount(fs, offset, len)
    <2>1. SectorCount(fs, offset, len) \in Nat  BY RequestLayout
    <2> QED  BY <2>1 DEF Progress
  <1>4. i * s <= block + n  BY BlocksBefore
  <1>5. n * b < t
    <2>1. SectorCount(fs, offset, len) = DivCeil(t, b)
      BY RequestLayout, Zenon DEF SectorCount
    <2>2. t \in Nat  BY <1>2
    <2> HIDE DEF t, n, b
    <2> QED  BY <1>1, <1>3, <2>1, <2>2, BelowCeil
  <1> HIDE DEF block, byte, n, s
  <1>6. (i * s) * b <= (block + n) * b
    BY <1>1, <1>2, <1>3, <1>4, TimesMonotone
  <1>7. (block + n) * b = block * b + n * b /\ (i * s) * b = i * (b * s)
    BY <1>1, <1>2, <1>3
  <1> DEFINE x == i * (b * s)
             y == block * b
             z == n * b
  <1>8. x \in Int /\ y \in Int /\ z \in Int /\ x <= y + z /\ z < byte + len /\ offset = y + byte
    BY <1>1, <1>2, <1>3, <1>5, <1>6, <1>7
  <1> HIDE DEF x, y, z
  <1>9. x < offset + len  BY <1>2, <1>8
  <1> QED  BY <1>9 DEF x, Bpc, s

(* What the request reaches: the last cluster it can ask for. *)
LEMMA ReachLast ==
    ASSUME NEW fs, fs.spc \in Nat \ {0}, NEW offset \in Nat, NEW len \in Nat, NEW i \in Nat,
           i * Bpc(fs) < offset + len
    PROVE  /\ i <= (offset + len - 1) \div Bpc(fs)
           /\ i <= (offset + len) \div Bpc(fs)
  <1> DEFINE k == Bpc(fs)
             n == offset + len
  <1>1. k \in Nat \ {0}  BY RequestLayout
  <1>2. ASSUME NEW m \in Nat, i * k <= m  PROVE i <= m \div k
    <2>1. m \div k \in Nat /\ m < (m \div k + 1) * k
      <3> HIDE DEF k
      <3> QED  BY <1>1, Division
    <2> DEFINE d == m \div k
               e == d + 1
    <2>2. e \in Nat /\ m < e * k /\ d \in Nat  BY <2>1
    <2> HIDE DEF k, d
    <2>3. i * k < e * k
      <3> HIDE DEF e
      <3> DEFINE x == i * k
                 y == e * k
      <3>1. x \in Int /\ y \in Int /\ x <= m /\ m < y  BY <1>1, <1>2, <2>2
      <3> HIDE DEF x, y
      <3>2. x < y  BY <3>1
      <3> QED  BY <3>2 DEF x, y
    <2>4. i < e
      <3> HIDE DEF e
      <3> QED  BY <1>1, <2>2, <2>3, TimesStrict
    <2>5. i <= d  BY <2>2, <2>4
    <2> QED  BY <2>5 DEF d
  <1> DEFINE ik == i * k
  <1>3. ik \in Nat
    <2> HIDE DEF k
    <2> QED  BY <1>1
  <1>4. ik < n  OBVIOUS
  <1>5. n - 1 \in Nat /\ n \in Nat /\ ik <= n - 1 /\ ik <= n
    <2> HIDE DEF ik
    <2> QED  BY <1>3, <1>4
  <1> QED  BY <1>2, <1>5

(* The loop starts with nothing read. *)
LEMMA ProgressStarts ==
    ASSUME NEW fs, fs.spc \in Nat \ {0}, NEW chain, NEW offset \in Nat, NEW len \in Nat
    PROVE  Progress(fs, chain, offset, len, 0, SectorCount(fs, offset, len), <<>>)
  <1>1. Len(<<>>) = 0 /\ <<>> \in Seq(Int)  OBVIOUS
  <1>2. SectorCount(fs, offset, len) \in Nat /\ FirstLink(fs, offset) \in Nat
        /\ Bpc(fs) \in Nat \ {0}
    BY RequestLayout
  <1>3. (offset + len) \div Bpc(fs) \in Nat
    <2>1. offset + len \in Nat  OBVIOUS
    <2> QED  BY <1>2, <2>1, Division
  <1> QED  BY <1>1, <1>2, <1>3 DEF Progress

(* A cluster before the first one asked for is passed over. *)
LEMMA ProgressSkip ==
    ASSUME NEW fs, fs.spc \in Nat \ {0}, NEW chain, NEW offset \in Nat, NEW len \in Nat,
           NEW i, NEW remaining, NEW tmp,
           Progress(fs, chain, offset, len, i, remaining, tmp), i < FirstLink(fs, offset)
    PROVE  Progress(fs, chain, offset, len, i + 1, remaining, tmp)
  <1>1. FirstLink(fs, offset) \in Nat /\ Bpc(fs) \in Nat \ {0}
    BY RequestLayout
  <1>2. i \in Nat  BY DEF Progress
  <1>3. i + 1 \in Nat /\ i + 1 <= FirstLink(fs, offset)  BY <1>1, <1>2
  <1>4. i + 1 <= ((offset + len) \div Bpc(fs)) + 1
    <2> DEFINE k == Bpc(fs)
               d == offset \div k
               e == (offset + len) \div k
    <2>1. d = FirstLink(fs, offset)  BY DEF FirstLink
    <2>2. d \in Nat /\ d * k <= offset  BY <1>1, Division
    <2>3. offset + len \in Nat  OBVIOUS
    <2>4. e \in Nat /\ offset + len < (e + 1) * k  BY <1>1, <2>3, Division
    <2> HIDE DEF k, d, e
    <2>5. d * k < (e + 1) * k
      <3> DEFINE x == d * k
                 y == (e + 1) * k
      <3>1. x \in Int /\ y \in Int /\ x <= offset /\ offset + len < y
        BY <1>1, <2>2, <2>4 DEF k
      <3> HIDE DEF x, y
      <3>2. x < y  BY <3>1
      <3> QED  BY <3>2 DEF x, y
    <2>6. d < e + 1
      <3>1. k \in Nat /\ d \in Nat /\ e + 1 \in Nat  BY <1>1, <2>2, <2>4 DEF k
      <3> QED  BY <2>5, <3>1, TimesStrict
    <2>7. i + 1 <= e + 1  BY <1>2, <1>3, <2>1, <2>2, <2>4, <2>6
    <2> QED  BY <2>7 DEF e, k
  <1> QED  BY <1>1, <1>2, <1>3, <1>4 DEF Progress

(* The n blocks from skip on are what cluster i has of the request. *)
Share(fs, offset, i, remaining, tmp, skip, n) ==
    /\ i >= FirstLink(fs, offset)
    /\ skip \in 0 .. fs.spc - 1 /\ n \in Nat \ {0}
    /\ (offset \div BlockSize) + Len(tmp) = i * fs.spc + skip
    /\ n <= fs.spc - skip /\ n <= remaining
    /\ n = fs.spc - skip \/ n = remaining

(* A cluster's share of the request is read, in order. *)
LEMMA ProgressRead ==
    ASSUME NEW fs, fs.spc \in Nat \ {0}, NEW chain, NEW offset \in Nat, NEW len \in Nat,
           NEW i, NEW remaining, NEW tmp, NEW skip, NEW n, ClusterLba(fs, chain[i]) \in Int,
           Progress(fs, chain, offset, len, i, remaining, tmp),
           Share(fs, offset, i, remaining, tmp, skip, n)
    PROVE  Progress(fs, chain, offset, len, i + 1, remaining - n,
                    tmp \o [k \in 1 .. n |-> ClusterLba(fs, chain[i]) + skip + k - 1])
  <1> DEFINE s == fs.spc
             first == FirstLink(fs, offset)
             block == offset \div BlockSize
             old == Len(tmp)
             lba == ClusterLba(fs, chain[i])
             more == [k \in 1 .. n |-> lba + skip + k - 1]
             new == tmp \o more
             total == SectorCount(fs, offset, len)
  <1>1. /\ s \in Nat \ {0} /\ first \in Nat /\ Skipped(fs, offset) \in 0 .. s - 1
        /\ total \in Nat
    BY RequestLayout
  <1>2. first * s + Skipped(fs, offset) = block
    BY RequestLayout
  <1>3. /\ i \in Nat /\ remaining \in Nat /\ tmp \in Seq(Int) /\ old \in Nat
        /\ old + remaining = total
        /\ \A j \in 1 .. old : tmp[j] = BlockLba(fs, chain, block + j - 1)
    BY DEF Progress
  <1>4. skip \in 0 .. s - 1  BY DEF Share
  <1>5. n \in Nat \ {0} /\ n <= s - skip /\ n <= remaining /\ (n = s - skip \/ n = remaining)
    BY DEF Share
  <1>6. block + old = i * s + skip
    BY DEF Share
  <1>7. block \in Nat
    <2>1. first * s \in Nat  BY <1>1
    <2> HIDE DEF block, first, s
    <2> QED  BY <1>1, <1>2, <2>1
  <1>8. lba \in Int  OBVIOUS
  <1> HIDE DEF block, first, lba, total, s, old
  <1>9. more \in Seq(Int) /\ Len(more) = n
    BY <1>4, <1>5, <1>8
  <1>10. /\ new \in Seq(Int) /\ Len(new) = old + n
        /\ \A j \in 1 .. old + n : new[j] = IF j <= old THEN tmp[j] ELSE more[j - old]
    <2> HIDE DEF more
    <2> QED  BY <1>3, <1>9, ConcatProperties DEF old
  <1>11. ASSUME NEW j \in 1 .. old + n
         PROVE  new[j] = BlockLba(fs, chain, block + j - 1)
    <2>1. CASE j <= old
      <3>1. j \in 1 .. old  BY <1>3, <1>5, <2>1
      <3> HIDE DEF new, old
      <3> QED  BY <1>3, <1>10, <1>11, <2>1, <3>1
    <2>2. CASE j > old
      <3> DEFINE k == j - old
                 r == skip + k - 1
                 m == block + j - 1
      <3>1. k \in 1 .. n /\ j = old + k  BY <1>3, <1>5, <2>2
      <3>2. r \in 0 .. s - 1  BY <1>1, <1>4, <1>5, <3>1
      <3>3. m = i * s + r
        <4> DEFINE p == i * s
        <4>1. p \in Int /\ block + old = p + skip  BY <1>1, <1>3, <1>6
        <4> HIDE DEF p, old, k
        <4>2. m = p + r  BY <1>3, <1>4, <1>5, <1>7, <3>1, <4>1
        <4> QED  BY <4>2 DEF p
      <3>4. m \div s = i /\ m % s = r
        <4> HIDE DEF m, r, s
        <4> QED  BY <1>1, <1>3, <3>2, <3>3, DivUnique
      <3>5. new[j] = lba + skip + k - 1
        <4>1. ~(j <= old)  BY <1>3, <1>5, <2>2
        <4>2. new[j] = more[k]
          <5> HIDE DEF more, new
          <5> QED  BY <1>10, <1>11, <4>1
        <4> HIDE DEF new, k
        <4> QED  BY <3>1, <4>2
      <3>6. lba + skip + k - 1 = lba + r
        <4> HIDE DEF k
        <4> QED  BY <1>4, <1>8, <3>1
      <3>7. BlockLba(fs, chain, m) = lba + r
        <4> HIDE DEF m, r
        <4> QED  BY <3>4 DEF BlockLba, lba, s
      <3> HIDE DEF new, k, r
      <3> QED  BY <3>5, <3>6, <3>7
    <2>3. j <= old \/ j > old  BY <1>3, <1>5
    <2> QED  BY <2>1, <2>2, <2>3, Zenon
  <1>12. i + 1 > first /\ ~(i + 1 <= first)
    BY <1>1, <1>3 DEF first, Share
  <1>13. old + n <= ((i + 1) - first) * s - Skipped(fs, offset)
         /\ (remaining - n # 0 => old + n = ((i + 1) - first) * s - Skipped(fs, offset))
    <2> DEFINE sk == Skipped(fs, offset)
               p == i * s
               f == first * s
               whole == ((i + 1) - first) * s
    <2>1. whole = p + s - f  BY <1>1, <1>3
    <2>2. p \in Int /\ f \in Int /\ f + sk = block /\ block + old = p + skip
      BY <1>1, <1>3, <1>6, <1>2
    <2>3. sk \in Int /\ s \in Nat  BY <1>1
    <2> HIDE DEF sk, p, f, whole, old, s
    <2>4. old + n <= whole - sk /\ (remaining - n # 0 => old + n = whole - sk)
      BY <1>3, <1>4, <1>5, <1>7, <2>1, <2>2, <2>3
    <2> QED  BY <2>4 DEF sk, whole
  <1>14. (old + n) + (remaining - n) = total /\ remaining - n \in Nat
    <2> HIDE DEF old
    <2> QED  BY <1>3, <1>5
  <1>15. i + 1 <= ((offset + len) \div Bpc(fs)) + 1
    <2>1. i * Bpc(fs) < offset + len
      <3>1. remaining # 0  BY <1>3, <1>5
      <3> QED  BY <3>1, Reach
    <2>2. i <= (offset + len) \div Bpc(fs)  BY <1>3, <2>1, ReachLast
    <2>3. (offset + len) \div Bpc(fs) \in Nat
      <3>1. offset + len \in Nat /\ Bpc(fs) \in Nat \ {0}  BY RequestLayout
      <3> QED  BY <3>1, Division
    <2> DEFINE e == (offset + len) \div Bpc(fs)
    <2> HIDE DEF e
    <2>4. i + 1 <= e + 1  BY <1>3, <2>2, <2>3 DEF e
    <2> QED  BY <2>4 DEF e
  <1>16. i + 1 \in Nat  BY <1>3
  <1>17. \A j \in 1 .. Len(new) : new[j] = BlockLba(fs, chain, block + j - 1)
    <2> HIDE DEF new
    <2> QED  BY <1>10, <1>11
  <1>18. Progress(fs, chain, offset, len, i + 1, remaining - n, new)
    <2> HIDE DEF new, old
    <2>1. Len(new) = old + n  BY <1>10
    <2> DEFINE l == Len(new)
    <2> HIDE DEF l
    <2>2. /\ l + (remaining - n) = SectorCount(fs, offset, len)
          /\ l <= Whole(fs, offset, i + 1)
          /\ (remaining - n # 0 => l = Whole(fs, offset, i + 1))
      <3> DEFINE W == ((i + 1) - first) * s - Skipped(fs, offset)
      <3>1. Whole(fs, offset, i + 1) = W  BY Zenon DEF Whole, first, s
      <3>2. total = SectorCount(fs, offset, len)  BY DEF total
      <3>3. l = old + n  BY <2>1 DEF l
      <3>4. old + n <= W /\ (remaining - n # 0 => old + n = W)  BY <1>13, Zenon
      <3> HIDE DEF W
      <3> QED  BY <1>14, <3>1, <3>2, <3>3, <3>4
    <2>3. i + 1 > FirstLink(fs, offset) /\ ~(i + 1 <= FirstLink(fs, offset))
      BY <1>12 DEF first
    <2>4. \A j \in 1 .. Len(new) :
            new[j] = BlockLba(fs, chain, (offset \div BlockSize) + j - 1)
      BY <1>17 DEF block
    <2> QED
      BY <1>10, <1>14, <1>15, <1>16, <2>2, <2>3, <2>4 DEF Progress, l
  <1> QED  BY <1>18 DEF lba

(* A byte is the file's byte at a place before cluster i of the chain. *)
ByteRight(fs, chain, i, byte, at) ==
    /\ at \div Bpc(fs) \in Nat /\ at \div Bpc(fs) < i
    /\ (at % Bpc(fs)) \div BlockSize \in 0 .. fs.spc - 1
    /\ byte = <<ClusterLba(fs, chain[at \div Bpc(fs)]) + ((at % Bpc(fs)) \div BlockSize),
                at % BlockSize>>

(* All blocks read: the bytes copied out are the file's. *)
LEMMA BytesRight ==
    ASSUME NEW fs, fs.spc \in Nat \ {0}, NEW chain, NEW offset \in Nat, NEW len \in Nat,
           NEW i, NEW tmp, Progress(fs, chain, offset, len, i, 0, tmp), NEW k \in 1 .. len,
           NEW at \in Nat, at = offset + (k - 1)
    PROVE  ByteRight(fs, chain, i, CopyOut(tmp, offset, len)[k], at)
  <1> DEFINE b == BlockSize
             s == fs.spc
             block == offset \div b
             byte == offset % b
             x == byte + (k - 1)
             e == x \div b
             n == block + e
             size == Len(tmp)
             first == FirstLink(fs, offset)
             skip == Skipped(fs, offset)
  <1>1. b \in Nat \ {0} /\ s \in Nat \ {0}  BY GeometryAssumption
  <1>2. block \in Nat /\ byte \in 0 .. b - 1 /\ offset = block * b + byte
    BY <1>1, DivMod
  <1>3. x \in Nat /\ x < byte + len  BY <1>1, <1>2
  <1>4. e \in Nat /\ x % b \in 0 .. b - 1 /\ x = e * b + (x % b) /\ e * b <= x
    <2> HIDE DEF x
    <2> QED  BY <1>1, <1>3, DivMod, Division
  <1>5. /\ i \in Nat /\ size \in Nat /\ tmp \in Seq(Int)
        /\ size = SectorCount(fs, offset, len)
        /\ i <= first => size = 0
        /\ i > first => size <= Whole(fs, offset, i)
        /\ \A j \in 1 .. size : tmp[j] = BlockLba(fs, chain, block + j - 1)
    <2>1. SectorCount(fs, offset, len) \in Nat  BY RequestLayout
    <2> QED  BY <2>1 DEF Progress
  <1>6. /\ first \in Nat /\ skip \in 0 .. s - 1 /\ first * s + skip = block
        /\ SectorCount(fs, offset, len) = DivCeil(byte + len, b)
    BY RequestLayout, Zenon DEF SectorCount
  <1>7. e < size
    <2> DEFINE t == byte + len
    <2>1. t \in Nat  BY <1>2
    <2>2. e * b < t
      <3> DEFINE y == e * b
      <3>1. y \in Int /\ y <= x  BY <1>1, <1>4
      <3> HIDE DEF y, x, byte
      <3>2. y < byte + len  BY <1>2, <1>3, <3>1
      <3> QED  BY <3>2 DEF y
    <2>3. size = DivCeil(t, b)  BY <1>5, <1>6
    <2> HIDE DEF t, e, b, size
    <2> QED  BY <1>1, <1>4, <2>1, <2>2, <2>3, BelowCeil
  <1>8. at \div b = n /\ at % b = x % b
    <2> DEFINE f == x % b
    <2>1. at = n * b + f
      <3>1. at = block * b + x
        <4> DEFINE y == block * b
        <4>1. y \in Int /\ offset = y + byte  BY <1>1, <1>2
        <4> HIDE DEF y, byte
        <4>2. at = y + x  BY <1>2, <4>1
        <4> QED  BY <4>2 DEF y
      <3>2. n * b = block * b + e * b
        <4> HIDE DEF block, e, b
        <4> QED  BY <1>1, <1>2, <1>4
      <3> DEFINE y == block * b
                 z == e * b
                 w == n * b
      <3>3. y \in Int /\ z \in Int /\ at = y + x /\ x = z + f /\ w = y + z
        BY <1>1, <1>2, <1>4, <3>1, <3>2
      <3>4. f \in Int  BY <1>4
      <3> HIDE DEF y, z, w, x, f
      <3>5. at = w + f  BY <3>3, <3>4
      <3> QED  BY <3>5 DEF w
    <2>2. n \in Nat /\ f \in 0 .. b - 1  BY <1>2, <1>4
    <2> HIDE DEF n, f, b
    <2>3. at \div b = n /\ at % b = f  BY <1>1, <2>1, <2>2, DivUnique
    <2> QED  BY <2>3, Zenon DEF f
  <1>9. /\ at \div (b * s) = n \div s
        /\ (at % (b * s)) \div b = n % s
    <2> HIDE DEF b, s, n
    <2> QED  BY <1>1, <1>8, DivNestedAll, Zenon
  <1>10. n \in Nat /\ n \div s \in Nat /\ n % s \in 0 .. s - 1 /\ (n \div s) * s <= n
    <2>1. n \in Nat  BY <1>2, <1>4
    <2> HIDE DEF n
    <2> QED  BY <1>1, <2>1, DivMod, Division
  <1>11. n < i * s
    <2> DEFINE u == first * s
               v == i * s
    <2>1. i > first
      <3> HIDE DEF e, size, first
      <3> QED  BY <1>4, <1>5, <1>6, <1>7
    <2>2. size <= (i - first) * s - skip  BY <1>5, <2>1 DEF Whole
    <2>3. (i - first) * s = v - u
      <3> HIDE DEF first, s
      <3> QED  BY <1>1, <1>5, <1>6
    <2>4. u \in Int /\ v \in Int /\ u + skip = block /\ size <= (v - u) - skip
      <3>1. u \in Int /\ v \in Int
        <4> HIDE DEF first, s
        <4> QED  BY <1>1, <1>5, <1>6
      <3> HIDE DEF first, size, skip, s
      <3> QED  BY <1>6, <2>2, <2>3, <3>1
    <2> HIDE DEF u, v, e, block, size, skip
    <2>5. n < v  BY <1>1, <1>2, <1>4, <1>5, <1>6, <1>7, <2>4
    <2> QED  BY <2>5 DEF v
  <1>12. n \div s < i
    <2> DEFINE d == n \div s
    <2>1. d * s < i * s
      <3> DEFINE y == d * s
                 v == i * s
      <3>1. y \in Int /\ v \in Int /\ y <= n /\ n < v  BY <1>1, <1>5, <1>10, <1>11
      <3> HIDE DEF y, v, n
      <3>2. y < v  BY <1>10, <3>1
      <3> QED  BY <3>2 DEF y, v
    <2>2. d \in Nat  BY <1>10
    <2> HIDE DEF d, s
    <2>3. d < i  BY <1>1, <1>5, <2>1, <2>2, TimesStrict
    <2> QED  BY <2>3 DEF d
  <1>13. CopyOut(tmp, offset, len)[k] = <<tmp[1 + e], x % b>>
    <2>1. /\ ((offset % BlockSize) + k - 1) \div BlockSize = e
          /\ ((offset % BlockSize) + k - 1) % BlockSize = x % b
      BY <1>2
    <2> HIDE DEF e, x, b, byte
    <2> QED  BY <2>1 DEF CopyOut
  <1>14. tmp[1 + e] = BlockLba(fs, chain, n)
    <2>1. 1 + e \in 1 .. size /\ block + (1 + e) - 1 = n
      <3> HIDE DEF e, size, block
      <3> QED  BY <1>2, <1>4, <1>5, <1>7
    <2> HIDE DEF size, n, e, block
    <2> QED  BY <1>5, <2>1
  <1>15. BlockLba(fs, chain, n) =
           ClusterLba(fs, chain[at \div Bpc(fs)]) + ((at % Bpc(fs)) \div BlockSize)
    <2> HIDE DEF n
    <2> QED  BY <1>9 DEF BlockLba, Bpc
  <1> HIDE DEF n, e, x
  <1>16. at \div Bpc(fs) = n \div s /\ (at % Bpc(fs)) \div BlockSize = n % s
    BY <1>9, Zenon DEF Bpc
  <1> QED
    BY <1>8, <1>10, <1>12, <1>13, <1>14, <1>15, <1>16, Zenon DEF ByteRight

(* A driver's geometry, as the loop of read_at uses it. *)
LEMMA GeometryTypes ==
    ASSUME disk \in Disks, NEW fs, Mounted(fs)
    PROVE  fs.spc \in Nat \ {0} /\ fs.data_lba \in Nat /\ fs.count \in Nat /\ fs.spf \in Nat
  <1> DEFINE b == disk.boot
  <1>1. /\ b.rsvd_sec_cnt \in Nat /\ b.num_fats \in Nat /\ b.fat_sz_32 \in Nat
        /\ b.hidd_sec \in Nat
    BY DisksAssumption
  <1>2. b.num_fats * b.fat_sz_32 \in Nat  BY <1>1
  <1>3. b.hidd_sec + b.rsvd_sec_cnt + b.num_fats * b.fat_sz_32 \in Nat
    BY <1>1, <1>2
  <1>4. b.sec_per_clus \in Nat \ {0}  BY GeometryAssumption DEF Mounted
  <1>5. fs.count \in Nat /\ fs.spf \in Nat  BY MountedTypes
  <1> QED  BY <1>3, <1>4, <1>5 DEF Mounted, FileSystem

(* What ReadsExact says of a read that succeeds. *)
Exact(fs, chain, offset, len, data) ==
    /\ Len(data) = len
    /\ \A k \in 1 .. len :
          LET at == offset + k - 1
              lba == ClusterLba(fs, chain[at \div Bpc(fs)]) + (at % Bpc(fs)) \div BlockSize
          IN  /\ data[k] = <<lba, at % BlockSize>>
              /\ chain[0] \in Data(fs) =>
                    lba \in fs.data_lba .. fs.data_lba + fs.count * fs.spc - 1

(* The clusters before cluster i are of the volume if the first one is. *)
InVolume(fs, chain, i) ==
    chain[0] \in Data(fs) => /\ \A m \in 0 .. i - 1 : chain[m] \in Data(fs)
                             /\ chain[i] \in {0} \cup Data(fs)

LEMMA CopiedExact ==
    ASSUME NEW fs, fs.spc \in Nat \ {0}, fs.data_lba \in Nat, fs.count \in Nat,
           NEW chain, NEW offset \in Nat, NEW len \in Nat, NEW i, NEW tmp,
           Progress(fs, chain, offset, len, i, 0, tmp), InVolume(fs, chain, i)
    PROVE  Exact(fs, chain, offset, len, CopyOut(tmp, offset, len))
  <1> DEFINE data == CopyOut(tmp, offset, len)
  <1>1. Len(data) = len  BY DEF CopyOut
  <1>2. ASSUME NEW k \in 1 .. len
        PROVE  LET at == offset + k - 1
                   lba == ClusterLba(fs, chain[at \div Bpc(fs)]) + (at % Bpc(fs)) \div BlockSize
               IN  /\ data[k] = <<lba, at % BlockSize>>
                   /\ chain[0] \in Data(fs) =>
                         lba \in fs.data_lba .. fs.data_lba + fs.count * fs.spc - 1
    <2> DEFINE at == offset + k - 1
               link == at \div Bpc(fs)
               rest == (at % Bpc(fs)) \div BlockSize
               lba == ClusterLba(fs, chain[link]) + rest
    <2>1. at \in Nat /\ at = offset + (k - 1)  OBVIOUS
    <2>2. /\ link \in Nat /\ link < i /\ rest \in 0 .. fs.spc - 1
          /\ data[k] = <<lba, at % BlockSize>>
      <3> HIDE DEF at
      <3>1. ByteRight(fs, chain, i, CopyOut(tmp, offset, len)[k], at)
        BY <2>1, BytesRight
      <3> QED  BY <3>1, Zenon DEF ByteRight
    <2>3. ASSUME chain[0] \in Data(fs)
          PROVE  lba \in fs.data_lba .. fs.data_lba + fs.count * fs.spc - 1
      <3> DEFINE c == chain[link] - 2
                 s == fs.spc
                 x == c * s
                 y == fs.count * s
      <3>1. i \in Nat  BY DEF Progress
      <3>2. chain[link] \in Data(fs)
        <4> HIDE DEF link
        <4> QED  BY <2>2, <2>3, <3>1 DEF InVolume
      <3>3. c \in 0 .. fs.count - 1
        <4> HIDE DEF link
        <4> QED  BY <3>2 DEF Data
      <3> HIDE DEF c
      <3>4. (c + 1) * s <= fs.count * s /\ 0 <= x /\ x \in Int /\ y \in Int
        <4> HIDE DEF s
        <4>1. s \in Nat /\ c \in Nat /\ c + 1 <= fs.count  BY <3>3 DEF s
        <4> QED  BY <4>1, TimesMonotone
      <3>5. (c + 1) * s = x + s
        <4> HIDE DEF s
        <4>1. s \in Nat  BY DEF s
        <4> QED  BY <3>3, <4>1
      <3>6. lba = fs.data_lba + x + rest  BY DEF ClusterLba, c
      <3> HIDE DEF x, y, lba, rest
      <3>7. x + s <= y /\ s \in Nat  BY <3>4, <3>5 DEF y
      <3>8. lba \in fs.data_lba .. fs.data_lba + y - 1
        BY <2>2, <3>4, <3>6, <3>7
      <3> QED  BY <3>8 DEF y
    <2> HIDE DEF at
    <2> QED  BY <2>2, <2>3, Zenon DEF at
  <1> QED  BY <1>1, <1>2, Zenon DEF Exact

(* Nothing more to follow and something left to read: the chain ends       *)
(* before the last byte asked for.                                         *)
LEMMA ShortChain ==
    ASSUME NEW fat, \A x \in DOMAIN fat : fat[x] \in Nat, NEW start \in Nat,
           NEW fs, fs.spc \in Nat \ {0}, NEW offset \in Nat, NEW len \in Nat,
           NEW i, NEW remaining, NEW tmp,
           Progress(fs, Chain(fat, start), offset, len, i, remaining, tmp), remaining # 0,
           Chain(fat, start)[i] = 0
    PROVE  Chain(fat, start)[(offset + len - 1) \div Bpc(fs)] = 0
  <1> DEFINE e == offset + len - 1
             d == e \div Bpc(fs)
  <1>1. i \in Nat  BY DEF Progress
  <1>2. i * Bpc(fs) < offset + len  BY Reach
  <1>3. i <= d  BY <1>1, <1>2, ReachLast
  <1>4. d \in Nat
    <2>1. Bpc(fs) \in Nat \ {0}  BY RequestLayout
    <2>2. e \in Nat
      <3> DEFINE x == i * Bpc(fs)
      <3>1. x \in Nat  BY <1>1, <2>1
      <3>2. x < offset + len  BY <1>2
      <3> HIDE DEF x
      <3> QED  BY <3>1, <3>2
    <2> HIDE DEF e
    <2> QED  BY <2>1, <2>2, Division
  <1> HIDE DEF d
  <1>5. d >= i  BY <1>1, <1>3, <1>4
  <1>6. Chain(fat, start)[d] = 0  BY <1>1, <1>4, <1>5, EndedStays
  <1> QED  BY <1>6 DEF d

-------------------------------------------------------------------------------
(* The invariant of a read *)

FileChain == Chain(disk.fat, handle.meta.first_cluster)

(* The iterator stands at cluster i of the file's chain, and what the      *)
(* request has in the clusters before it was read.                         *)
Reading ==
    /\ handle.meta.first_cluster \in Nat
    /\ op.offset \in Nat /\ op.len \in Nat
    /\ op.it.next = FileChain[op.i]
    /\ InFat(op.fs, op.it.cache)
    /\ Progress(op.fs, FileChain, op.offset, op.len, op.i, op.remaining, op.tmp)
    /\ InVolume(op.fs, FileChain, op.i)

ReadInv ==
    /\ handle # NoHandle => handle.meta.first_cluster \in Nat
    /\ op.pc = "walk" => \E S : op.trail \in Seq(S)
    /\ op.pc = "read" => Reading
    /\ ReadsExact

LEMMA ReadInvInit == Init => ReadInv
  BY DEF Init, ReadInv, ReadsExact, NoResult, Idle, NoHandle

(* A call that is no read returns, or panics. *)
Aside == op'.pc \notin {"walk", "read"} /\ result'.call # "read"

LEMMA AsideKeeps == ASSUME ReadInv, UNCHANGED handle, Aside PROVE ReadInv'
  BY DEF ReadInv, ReadsExact, Aside

LEMMA ReturnAside == ASSUME NEW r, r.call # "read", Return(r) PROVE Aside
  BY DEF Return, Aside, Idle

LEMMA PanicAside == ASSUME NEW w, Panic(w) PROVE Aside
  BY DEF Panic, Aside, NoResult

LEMMA EndedAside == ASSUME NEW outcome, Ended(outcome) PROVE Aside
  <1>1. PICK r : r.call = "open" /\ Return(r)
    BY DEF Ended
  <1> QED  BY <1>1, ReturnAside

LEMMA ExactStays == ASSUME ReadsExact, UNCHANGED <<disk, handle, result>> PROVE ReadsExact'
  BY DEF ReadsExact, Sound, Data, ClusterLba


(* The answers of a read. *)
LEMMA ExactAnswers ==
    ASSUME op.pc = "read", disk \in Disks, Mounted(op.fs), Reading,
           UNCHANGED <<disk, handle>>, NEW outcome, NEW data, ReadEnded(outcome, data),
           outcome = "ok" => Exact(op.fs, FileChain, op.offset, op.len, data),
           outcome = "Corrupted" => FileChain[op.i] # 0 /\ ~Sound(op.fs, FileChain[op.i]),
           outcome = "IncompleteRead" => FileChain[op.i] = 0 /\ op.remaining # 0
    PROVE  ReadsExact'
  <1> DEFINE fs == op.fs
             chain == FileChain
             offset == op.offset
             len == op.len
  <1>1. /\ result'.outcome = outcome /\ result'.fs = fs /\ result'.offset = offset
        /\ result'.len = len /\ result'.data = data
    BY DEF ReadEnded, Return
  <1>2. fs.spc \in Nat \ {0} /\ offset \in Nat /\ len \in Nat
    BY GeometryTypes DEF Reading
  <1>3. handle'.meta.first_cluster = handle.meta.first_cluster /\ disk' = disk  OBVIOUS
  <1>4. Chain(disk'.fat, handle'.meta.first_cluster) = chain
    BY <1>3, Zenon DEF FileChain
  <1>5. \A x \in DOMAIN disk.fat : disk.fat[x] \in Nat  BY DisksAssumption
  <1>6. CASE outcome = "ok"
    <2>1. Exact(fs, chain, offset, len, data)  BY <1>6
    <2> HIDE DEF fs, chain, offset, len
    <2> QED  BY <1>1, <1>4, <1>6, <2>1, Zenon DEF ReadsExact, Exact, Bpc, ClusterLba, Data
  <1>7. CASE outcome = "Corrupted"
    <2>1. op.i \in 0 .. ((offset + len) \div Bpc(fs)) + 1
      <3>1. op.i \in Nat /\ op.i <= ((offset + len) \div Bpc(fs)) + 1  BY DEF Reading, Progress
      <3>2. (offset + len) \div Bpc(fs) \in Nat
        <4> HIDE DEF fs, offset, len
        <4>1. offset + len \in Nat /\ Bpc(fs) \in Nat \ {0}  BY <1>2, RequestLayout
        <4> QED  BY <4>1, Division
      <3> DEFINE d == (offset + len) \div Bpc(fs)
      <3> HIDE DEF d
      <3>3. op.i \in 0 .. d + 1  BY <3>1, <3>2 DEF d
      <3> QED  BY <3>3 DEF d
    <2> DEFINE Unsound(c, f) ==
                 ~(/\ c \in DOMAIN disk'.fat
                   /\ \/ disk'.fat[c] % MASK >= EndOfChain
                      \/ disk'.fat[c] % MASK \in (2 .. f.count + 1) \ ({Bad} \cup Reserved))
    <2>2. chain[op.i] # 0 /\ Unsound(chain[op.i], fs)
      BY <1>3, <1>7, Zenon DEF Sound, Data
    <2>3. \E n \in 0 .. ((offset + len) \div Bpc(fs)) + 1 : chain[n] # 0 /\ Unsound(chain[n], fs)
      <3> HIDE DEF fs, chain, offset, len, Unsound
      <3> QED  BY <2>1, <2>2, Zenon
    <2> HIDE DEF fs, chain, offset, len
    <2> QED  BY <1>1, <1>4, <1>7, <2>3, Zenon DEF ReadsExact, Bpc, Sound, Data
  <1>8. CASE outcome = "IncompleteRead"
    <2>1. chain[(offset + len - 1) \div Bpc(fs)] = 0
      <3>1. Progress(fs, chain, offset, len, op.i, op.remaining, op.tmp)  BY DEF Reading
      <3>2. handle.meta.first_cluster \in Nat  BY DEF Reading
      <3>3. chain[op.i] = 0 /\ op.remaining # 0  BY <1>8
      <3> HIDE DEF fs, offset, len
      <3> DEFINE fat == disk.fat
                 first == handle.meta.first_cluster
      <3>4. chain = Chain(fat, first)  BY DEF FileChain
      <3> HIDE DEF fat, first, chain
      <3>5. /\ \A x \in DOMAIN fat : fat[x] \in Nat
            /\ first \in Nat
        BY <1>5, <3>2 DEF fat, first
      <3> QED  BY <1>2, <3>1, <3>3, <3>4, <3>5, ShortChain
    <2> HIDE DEF fs, chain, offset, len
    <2> QED  BY <1>1, <1>4, <1>8, <2>1, Zenon DEF ReadsExact, Bpc
  <1>9. CASE outcome \notin {"ok", "Corrupted", "IncompleteRead"}
    BY <1>1, <1>9, Zenon DEF ReadsExact
  <1> QED  BY <1>6, <1>7, <1>8, <1>9, Zenon

-------------------------------------------------------------------------------
(* The calls that do not read a file *)

LEMMA DeviceCallsAside ==
    ASSUME ReadInv, new_virtio \/ drop \/ flush \/ BadName
    PROVE  ReadInv'
  <1>1. UNCHANGED handle  BY DEF new_virtio, drop, flush, BadName
  <1>2. CASE new_virtio
    <2>1. ASSUME NEW o, Return([call |-> "new_virtio", outcome |-> o])  PROVE Aside
      <3> DEFINE r == [call |-> "new_virtio", outcome |-> o]
      <3>1. r.call # "read" /\ Return(r)  BY <2>1
      <3> HIDE DEF r
      <3> QED  BY <3>1, ReturnAside
    <2>2. Aside  BY <1>2, <2>1, PanicAside, Zenon DEF new_virtio
    <2> QED  BY <1>1, <2>2, AsideKeeps
  <1>3. CASE drop
    <2> DEFINE r == [call |-> "drop", outcome |-> "ok"]
    <2>1. r.call # "read" /\ Return(r)  BY <1>3 DEF drop
    <2> HIDE DEF r
    <2> QED  BY <1>1, <2>1, ReturnAside, AsideKeeps
  <1>4. CASE flush
    <2>1. PICK o : Return([call |-> "flush", outcome |-> o])  BY <1>4, Zenon DEF flush
    <2> DEFINE r == [call |-> "flush", outcome |-> o]
    <2>2. r.call # "read" /\ Return(r)  BY <2>1
    <2> HIDE DEF r
    <2> QED  BY <1>1, <2>2, ReturnAside, AsideKeeps
  <1>5. CASE BadName
    <2>1. Aside  BY <1>5, EndedAside, Zenon DEF BadName
    <2> QED  BY <1>1, <2>1, AsideKeeps
  <1> QED  BY <1>2, <1>3, <1>4, <1>5

LEMMA openAside ==
    ASSUME ReadInv, NEW idx, NEW path, NEW opts, open(idx, path, opts)
    PROVE  ReadInv'
  <1>1. UNCHANGED handle  BY DEF open
  <1>2. ASSUME NEW r, r.call = "open", Return(r)  PROVE ReadInv'
    BY <1>1, <1>2, ReturnAside, AsideKeeps
  <1>3. ASSUME NEW w, Panic(w)  PROVE ReadInv'
    BY <1>1, <1>3, PanicAside, AsideKeeps
  <1>4. ASSUME NEW d, StartOpen(d, path, opts)  PROVE ReadInv'
    <2>1. CASE path.lead # "/"
      <3>1. PICK o : Return([call |-> "open", outcome |-> o])  BY <1>4, <2>1, Zenon DEF StartOpen
      <3> DEFINE r == [call |-> "open", outcome |-> o]
      <3>2. r.call = "open" /\ Return(r)  BY <3>1
      <3> HIDE DEF r
      <3> QED  BY <1>2, <3>2
    <2>2. CASE path.lead = "/"
      <3>1. op'.pc = "walk" /\ op'.trail = <<>> /\ result'.call = "none"
        BY <1>4, <2>2 DEF StartOpen, NoResult
      <3>2. op'.trail \in Seq({})  BY <3>1
      <3> QED  BY <1>1, <3>1, <3>2 DEF ReadInv, ReadsExact
    <2> QED  BY <2>1, <2>2
  <1>5. CASE \E d : IF opts = "todo" THEN Panic([on |-> "todo"]) ELSE StartOpen(d, path, opts)
    BY <1>3, <1>4, <1>5, Zenon
  <1>6. CASE Panic([on |-> "boot sector"])
    BY <1>3, <1>6, Zenon
  <1>7. CASE \E o : Return([call |-> "open", outcome |-> o])
    <2>1. PICK o : Return([call |-> "open", outcome |-> o])  BY <1>7
    <2> DEFINE r == [call |-> "open", outcome |-> o]
    <2>2. r.call = "open" /\ Return(r)  BY <2>1
    <2> HIDE DEF r
    <2> QED  BY <1>2, <2>2
  <1> QED  BY <1>5, <1>6, <1>7, Zenon DEF open

LEMMA WalkAside == ASSUME Inv, ReadInv, WalkCluster PROVE ReadInv'
  <1> DEFINE next == IterNext(op.driver.fs, op.it)
             s == SearchCluster(Slots(next.lba), Name)
             step == [dir |-> op.dir, slot |-> s.slot]
             trail == Append(op.trail, step)
             first == calculate_next_dir(s.slot).first_cluster
  <1>1. op.pc = "walk" /\ UNCHANGED disk /\ disk \in Disks /\ Fields(op, WalkFields)
    BY DEF WalkCluster, Inv, Index, CallInv
  <1>2. CASE Aside /\ UNCHANGED handle
    BY <1>2, AsideKeeps
  <1>3. PICK S : op.trail \in Seq(S)  BY <1>1 DEF ReadInv
  <1>4. /\ trail \in Seq(S \cup {step}) /\ trail[Len(trail)] = step
    <2> HIDE DEF step
    <2>1. op.trail \in Seq(S \cup {step})  BY <1>3, SeqMonotonic
    <2> QED  BY <2>1, AppendProperties
  <1>5. CASE Searched(next, s)
    <2>1. CASE op' = [op EXCEPT !.it = next.it] /\ UNCHANGED <<handle, result>>
      <3>1. op'.pc = "walk" /\ op'.trail = op.trail
        <4> HIDE DEF next
        <4> QED  BY <1>1, <2>1 DEF Fields, WalkFields
      <3> QED  BY <1>1, <1>3, <2>1, <3>1, ExactStays DEF ReadInv
    <2>2. CASE Ended(s.verdict) /\ UNCHANGED handle
      BY <1>2, <2>2, EndedAside
    <2>3. CASE /\ op' = [op EXCEPT !.trail = trail, !.dir = first, !.it = Iter(first)]
               /\ UNCHANGED <<handle, result>>
      <3>1. op'.pc = "walk" /\ op'.trail = trail
        <4> HIDE DEF trail, first
        <4> QED  BY <1>1, <2>3 DEF Fields, WalkFields
      <3> HIDE DEF trail
      <3> QED  BY <1>1, <1>4, <2>3, <3>1, ExactStays DEF ReadInv
    <2>4. CASE s.verdict = "found" /\ Opened(trail)
      <3>1. s.slot.fst_clus \in Nat  BY <1>1, <2>4, FoundIsShort
      <3>2. trail[Len(trail)].slot = s.slot
        <4> HIDE DEF trail, s
        <4> QED  BY <1>4
      <3> HIDE DEF trail, s
      <3>3. Aside
        <4>1. PICK r : r.call = "open" /\ Return(r)  BY <2>4 DEF Opened
        <4> QED  BY <4>1, ReturnAside
      <3>4. CASE UNCHANGED handle
        BY <3>3, <3>4, AsideKeeps
      <3>5. CASE handle' = [dev |-> dev, driver |-> op.driver.id,
                            meta |-> calculate_next_dir(trail[Len(trail)].slot)]
        <4>1. handle'.meta = calculate_next_dir(s.slot)  BY <3>2, <3>5
        <4>2. handle'.meta.first_cluster \in Nat  BY <3>1, <4>1 DEF calculate_next_dir
        <4> QED  BY <3>3, <4>2 DEF ReadInv, ReadsExact, Aside
      <3> QED  BY <2>4, <3>4, <3>5, Zenon DEF Opened
    <2> QED  BY <1>5, <2>1, <2>2, <2>3, <2>4, Zenon DEF Searched
  <1> QED
    BY <1>2, <1>5, EndedAside, PanicAside, Zenon DEF WalkCluster

-------------------------------------------------------------------------------
(* The read itself *)

LEMMA read_atExact ==
    ASSUME Inv, ReadInv, NEW offset \in Nat, NEW len \in Nat, read_at(offset, len)
    PROVE  ReadInv'
  <1> DEFINE at == Min(Driver(handle.driver))
             fs == partitions[at].fs
             bpc == BlockSize * fs.spc
             byte == (offset % bpc) % BlockSize
             blocks == DivCeil(byte + len, BlockSize)
             first == handle.meta.first_cluster
  <1>1. UNCHANGED <<disk, handle>> /\ handle # NoHandle /\ disk \in Disks
    BY DEF read_at, Inv, Index
  <1>2. CASE \E o : Return([call |-> "read_at", outcome |-> o])
    <2>1. PICK o : Return([call |-> "read_at", outcome |-> o])  BY <1>2
    <2> DEFINE r == [call |-> "read_at", outcome |-> o]
    <2>2. r.call # "read" /\ Return(r)  BY <2>1
    <2> HIDE DEF r
    <2> QED  BY <1>1, <2>2, ReturnAside, AsideKeeps
  <1>3. CASE /\ Upgrades(handle)
             /\ op' = [pc |-> "read", fs |-> fs, offset |-> offset, len |-> len,
                       it |-> Iter(first), i |-> 0, remaining |-> blocks, tmp |-> <<>>]
             /\ result' = NoResult
    <2>1. Mounted(fs)
      <3>1. Driver(handle.driver) \in SUBSET Nat /\ Driver(handle.driver) # {}
        BY <1>3 DEF Driver, Inv, Index, Upgrades
      <3>2. at \in DOMAIN partitions  BY <3>1, LeastOf DEF Driver
      <3> QED  BY <3>2 DEF Inv, Index
    <2>2. blocks = SectorCount(fs, offset, len)
      BY Zenon DEF SectorCount, Bpc
    <2> HIDE DEF fs, blocks, at
    <2>3. fs.spc \in Nat \ {0} /\ fs.spf \in Nat  BY <1>1, <2>1, GeometryTypes
    <2>4. first \in Nat  BY <1>1 DEF ReadInv
    <2>5. \A x \in DOMAIN disk.fat : disk.fat[x] \in Nat  BY <1>1, DisksAssumption
    <2> DEFINE chain == Chain(disk.fat, first)
    <2>6. chain[0] = first  BY <2>4, <2>5, ChainUnfolds
    <2>7. /\ op'.pc = "read" /\ op'.fs = fs /\ op'.offset = offset /\ op'.len = len
          /\ op'.it = Iter(first) /\ op'.i = 0 /\ op'.remaining = blocks /\ op'.tmp = <<>>
      BY <1>3
    <2>8. FileChain' = chain /\ handle'.meta.first_cluster = first
      BY <1>1, Zenon DEF FileChain
    <2> HIDE DEF chain, first
    <2>9. Progress(fs, chain, offset, len, 0, blocks, <<>>)
      BY <2>2, <2>3, ProgressStarts
    <2>10. InVolume(fs, chain, 0)  BY DEF InVolume
    <2>11. op'.it.next = first /\ InFat(fs, op'.it.cache)
      BY <2>3, <2>7 DEF Iter, NoWindow, InFat
    <2>12. Reading'
      BY <2>4, <2>6, <2>7, <2>8, <2>9, <2>10, <2>11, Zenon
         DEF Reading, Progress, InVolume, InFat, BlockLba, SectorCount, FirstLink, Whole,
             Skipped, Bpc, ClusterLba, DivCeil, Data
    <2>13. result'.call # "read"  BY <1>3 DEF NoResult
    <2> QED  BY <2>4, <2>7, <2>8, <2>12, <2>13 DEF ReadInv, ReadsExact
  <1> QED  BY <1>2, <1>3, Zenon DEF read_at

(* What the iterator yields in a read. *)
LEMMA ReadNext ==
    ASSUME Inv, ReadInv, op.pc = "read"
    PROVE  LET next == IterNext(op.fs, op.it)
           IN  /\ disk \in Disks /\ Mounted(op.fs) /\ Reading
               /\ \A x \in DOMAIN disk.fat : disk.fat[x] \in Nat
               /\ FileChain[op.i] \in Nat
               /\ next.item = "none" => FileChain[op.i] = 0
               /\ next.item = "Corrupted" => FileChain[op.i] # 0 /\ ~Sound(op.fs, FileChain[op.i])
               /\ next.item = "cluster" =>
                     /\ next.lba = ClusterLba(op.fs, FileChain[op.i])
                     /\ next.it.next = FileChain[op.i + 1]
                     /\ InFat(op.fs, next.it.cache)
                     /\ InVolume(op.fs, FileChain, op.i + 1)
  <1> DEFINE next == IterNext(op.fs, op.it)
             c == FileChain[op.i]
  <1>1. disk \in Disks /\ Mounted(op.fs) /\ Reading  BY DEF Inv, Index, CallInv, ReadInv
  <1>2. \A x \in DOMAIN disk.fat : disk.fat[x] \in Nat  BY <1>1, DisksAssumption
  <1>3. handle.meta.first_cluster \in Nat /\ op.i \in Nat /\ op.it.next = c
        /\ InFat(op.fs, op.it.cache) /\ InVolume(op.fs, FileChain, op.i)
    BY <1>1 DEF Reading, Progress
  <1>4. c \in Nat /\ FileChain[op.i + 1] = Follow(disk.fat, c)
    <2> DEFINE fat == disk.fat
               first == handle.meta.first_cluster
    <2>1. (\A x \in DOMAIN fat : fat[x] \in Nat) /\ first \in Nat  BY <1>2, <1>3
    <2>2. FileChain = Chain(fat, first)  BY Zenon DEF FileChain
    <2> HIDE DEF fat, first
    <2>3. /\ FileChain \in [Nat -> Nat]
          /\ \A n \in Nat : FileChain[n + 1] = Follow(fat, FileChain[n])
      <3>1. /\ Chain(fat, first) \in [Nat -> Nat]
            /\ Chain(fat, first)[0] = first
            /\ \A n \in Nat : Chain(fat, first)[n + 1] = Follow(fat, Chain(fat, first)[n])
        BY ONLY <2>1, ChainUnfolds
      <3> QED  BY <3>1, <2>2, Zenon
    <2> QED  BY <1>3, <2>3 DEF fat
  <1> HIDE DEF c
  <1>5. /\ next.item = "none" => c = 0
        /\ next.item = "Corrupted" => c # 0 /\ ~Sound(op.fs, c)
        /\ next.item = "cluster" =>
              /\ c # 0
              /\ next.lba = ClusterLba(op.fs, c)
              /\ next.it.next = Follow(disk.fat, c)
              /\ Follow(disk.fat, c) \in {0} \cup Data(op.fs)
              /\ InFat(op.fs, next.it.cache)
    BY <1>1, <1>3, <1>4, IterFollows
  <1> HIDE DEF next
  <1>6. ASSUME next.item = "cluster"  PROVE InVolume(op.fs, FileChain, op.i + 1)
    <2> SUFFICES ASSUME FileChain[0] \in Data(op.fs)
        PROVE  /\ \A m \in 0 .. (op.i + 1) - 1 : FileChain[m] \in Data(op.fs)
               /\ FileChain[op.i + 1] \in {0} \cup Data(op.fs)
      BY DEF InVolume
    <2>1. c \in Data(op.fs)  BY <1>3, <1>5, <1>6 DEF InVolume, c
    <2>2. ASSUME NEW m \in 0 .. (op.i + 1) - 1  PROVE FileChain[m] \in Data(op.fs)
      <3>1. m = op.i \/ m \in 0 .. op.i - 1  BY <1>3
      <3> QED  BY <1>3, <2>1, <3>1 DEF InVolume, c
    <2> QED  BY <1>4, <1>5, <1>6, <2>2
  <1> QED  BY <1>1, <1>2, <1>4, <1>5, <1>6, Zenon DEF c, next

(* The loop goes round. *)
LEMMA ReadGoesOn ==
    ASSUME Inv, ReadInv, op.pc = "read", UNCHANGED <<disk, handle, result>>,
           IterNext(op.fs, op.it).item = "cluster",
           op'.pc = "read", op'.fs = op.fs, op'.offset = op.offset, op'.len = op.len,
           op'.it = IterNext(op.fs, op.it).it, op'.i = op.i + 1,
           Progress(op.fs, FileChain, op.offset, op.len, op.i + 1, op'.remaining, op'.tmp)
    PROVE  ReadInv'
  <1> DEFINE next == IterNext(op.fs, op.it)
  <1>1. /\ Reading /\ next.it.next = FileChain[op.i + 1]
        /\ InFat(op.fs, next.it.cache) /\ InVolume(op.fs, FileChain, op.i + 1)
    BY ReadNext
  <1>2. op'.it = next.it  OBVIOUS
  <1> HIDE DEF next
  <1>3. FileChain' = FileChain /\ handle'.meta.first_cluster = handle.meta.first_cluster
    BY Zenon DEF FileChain
  <1>4. Reading'
    BY <1>1, <1>2, <1>3, Zenon
       DEF Reading, Progress, InVolume, InFat, BlockLba, SectorCount, FirstLink, Whole,
           Skipped, Bpc, ClusterLba, DivCeil, Data
  <1>5. ReadsExact'  BY ExactStays DEF ReadInv
  <1> QED  BY <1>4, <1>5 DEF ReadInv

(* What is read of cluster i is its share of the request. *)
LEMMA ShareOf ==
    ASSUME NEW fs, fs.spc \in Nat \ {0}, NEW chain, NEW offset \in Nat, NEW len \in Nat,
           NEW i, NEW remaining, NEW tmp,
           Progress(fs, chain, offset, len, i, remaining, tmp), remaining # 0,
           i >= FirstLink(fs, offset)
    PROVE  LET skip == IF i = FirstLink(fs, offset) THEN Skipped(fs, offset) ELSE 0
           IN  Share(fs, offset, i, remaining, tmp, skip, SectorsHere(fs.spc - skip, remaining))
  <1> DEFINE skip == IF i = FirstLink(fs, offset) THEN Skipped(fs, offset) ELSE 0
             here == fs.spc - skip
             n == SectorsHere(here, remaining)
  <1>1. skip \in 0 .. fs.spc - 1
    <2>1. Skipped(fs, offset) \in 0 .. fs.spc - 1  BY RequestLayout
    <2> QED  BY <2>1
  <1>2. (offset \div BlockSize) + Len(tmp) = i * fs.spc + skip
    BY BlocksBefore
  <1> HIDE DEF skip
  <1>3. remaining \in Nat \ {0} /\ here \in Nat \ {0}  BY <1>1 DEF Progress
  <1>4. n = IF here <= remaining THEN here ELSE remaining
    <2> HIDE DEF here
    <2> QED  BY <1>3, MinOfTwo DEF SectorsHere
  <1>5. n \in Nat \ {0} /\ n <= here /\ n <= remaining /\ (n = here \/ n = remaining)
    <2> HIDE DEF here, n
    <2> QED  BY <1>3, <1>4
  <1>6. Share(fs, offset, i, remaining, tmp, skip, n)
    <2> HIDE DEF n
    <2> QED  BY <1>1, <1>2, <1>5 DEF Share
  <1> QED  BY <1>6 DEF skip

LEMMA ReadClusterExact == ASSUME Inv, ReadInv, ReadCluster PROVE ReadInv'
  <1> DEFINE fs == op.fs
             bpc == BlockSize * op.fs.spc
             start == op.offset \div bpc
             skip == IF op.i = start THEN (op.offset % bpc) \div BlockSize ELSE 0
             n == SectorsHere(op.fs.spc - skip, op.remaining)
             next == IterNext(op.fs, op.it)
  <1>1. op.pc = "read" /\ UNCHANGED <<disk, handle>> /\ Fields(op, ReadFields)
    BY DEF ReadCluster, Inv, CallInv
  <1>2. /\ disk \in Disks /\ Mounted(fs) /\ Reading
        /\ FileChain[op.i] \in Nat
        /\ next.item = "none" => FileChain[op.i] = 0
        /\ next.item = "Corrupted" => FileChain[op.i] # 0 /\ ~Sound(fs, FileChain[op.i])
        /\ next.item = "cluster" => next.lba = ClusterLba(fs, FileChain[op.i])
    BY <1>1, ReadNext
  <1>3. fs.spc \in Nat \ {0} /\ fs.data_lba \in Nat /\ fs.count \in Nat
    BY <1>2, GeometryTypes
  <1>4. /\ op.offset \in Nat /\ op.len \in Nat /\ InVolume(fs, FileChain, op.i)
        /\ Progress(fs, FileChain, op.offset, op.len, op.i, op.remaining, op.tmp)
    BY <1>2 DEF Reading
  <1>5. start = FirstLink(fs, op.offset)
        /\ skip = IF op.i = FirstLink(fs, op.offset) THEN Skipped(fs, op.offset) ELSE 0
    BY Zenon DEF FirstLink, Skipped, Bpc
  <1>6. ASSUME NEW outcome, NEW data, ReadEnded(outcome, data), ReadsExact'
        PROVE  ReadInv'
    <2>1. op'.pc = "idle"  BY <1>6 DEF ReadEnded, Return, Idle
    <2> QED  BY <1>1, <1>6, <2>1 DEF ReadInv
  <1>7. CASE next.item = "none" /\ op.remaining # 0 /\ ReadEnded("IncompleteRead", <<>>)
    <2>1. ReadsExact'  BY <1>1, <1>2, <1>7, ExactAnswers
    <2> QED  BY <1>6, <1>7, <2>1
  <1>8. CASE op.remaining = 0 /\ Copied
    <2> DEFINE data == CopyOut(op.tmp, op.offset, op.len)
    <2>1. ReadEnded("ok", data)  BY <1>8 DEF Copied
    <2>2. Exact(fs, FileChain, op.offset, op.len, data)
      BY <1>3, <1>4, <1>8, CopiedExact
    <2> HIDE DEF data
    <2>3. ReadsExact'  BY <1>1, <1>2, <2>1, <2>2, ExactAnswers
    <2> QED  BY <1>6, <2>1, <2>3
  <1>9. CASE next.item = "Corrupted" /\ ReadEnded("Corrupted", <<>>)
    <2>1. ReadsExact'  BY <1>1, <1>2, <1>9, ExactAnswers
    <2> QED  BY <1>6, <1>9, <2>1
  <1>10. CASE ReadEnded("IoErr", <<>>)
    <2>1. ReadsExact'  BY <1>1, <1>2, <1>10, ExactAnswers
    <2> QED  BY <1>6, <1>10, <2>1
  <1>11. CASE Panic(OutsideFat(op.fs, handle.meta.first_cluster))
    BY <1>1, <1>11, PanicAside, AsideKeeps
  <1>12. CASE /\ next.item = "cluster" /\ op.i < start /\ UNCHANGED result
              /\ op' = [op EXCEPT !.it = next.it, !.i = @ + 1]
    <2>1. /\ op'.pc = "read" /\ op'.fs = op.fs /\ op'.offset = op.offset /\ op'.len = op.len
          /\ op'.it = next.it /\ op'.i = op.i + 1 /\ op'.remaining = op.remaining
          /\ op'.tmp = op.tmp
      <3> HIDE DEF next
      <3> QED  BY <1>1, <1>12 DEF Fields, ReadFields
    <2>2. Progress(fs, FileChain, op.offset, op.len, op.i + 1, op.remaining, op.tmp)
      <3>1. op.i < FirstLink(fs, op.offset)  BY <1>5, <1>12, Zenon
      <3> QED  BY <1>3, <1>4, <3>1, ProgressSkip
    <2> QED  BY <1>1, <1>12, <2>1, <2>2, ReadGoesOn
  <1>13. CASE /\ next.item = "cluster" /\ op.i >= start /\ op.remaining # 0 /\ UNCHANGED result
              /\ op' = [op EXCEPT !.it = next.it, !.i = @ + 1, !.remaining = @ - n,
                                  !.tmp = @ \o [k \in 1 .. n |-> next.lba + skip + k - 1]]
    <2> DEFINE lba == ClusterLba(fs, FileChain[op.i])
               sectors == [k \in 1 .. n |-> next.lba + skip + k - 1]
    <2>1. op' = [op EXCEPT !.it = next.it, !.i = @ + 1, !.remaining = @ - n,
                           !.tmp = @ \o sectors]
      BY <1>13, Zenon
    <2>2. /\ op'.pc = "read" /\ op'.fs = op.fs /\ op'.offset = op.offset /\ op'.len = op.len
          /\ op'.it = next.it /\ op'.i = op.i + 1 /\ op'.remaining = op.remaining - n
          /\ op'.tmp = op.tmp \o sectors
      <3> HIDE DEF next, n, sectors
      <3> QED  BY <1>1, <2>1 DEF Fields, ReadFields
    <2>3. Share(fs, op.offset, op.i, op.remaining, op.tmp, skip, n)
      <3>1. op.i >= FirstLink(fs, op.offset)  BY <1>5, <1>13, Zenon
      <3> DEFINE sk == IF op.i = FirstLink(fs, op.offset) THEN Skipped(fs, op.offset) ELSE 0
      <3>2. Share(fs, op.offset, op.i, op.remaining, op.tmp, sk,
                  SectorsHere(fs.spc - sk, op.remaining))
        BY <1>3, <1>4, <1>13, <3>1, ShareOf
      <3>3. skip = sk  BY <1>5, Zenon
      <3> HIDE DEF skip, sk
      <3> QED  BY <3>2, <3>3, Zenon
    <2>4. lba \in Int
      <3> DEFINE c == FileChain[op.i]
      <3> HIDE DEF c
      <3>1. c \in Nat  BY <1>2 DEF c
      <3>2. (c - 2) * fs.spc \in Int  BY <1>3, <3>1
      <3>3. ClusterLba(fs, c) \in Int  BY <1>3, <3>2 DEF ClusterLba
      <3> QED  BY <3>3 DEF c
    <2>5. sectors = [k \in 1 .. n |-> lba + skip + k - 1]
      BY <1>2, <1>13, Zenon
    <2>6. Progress(fs, FileChain, op.offset, op.len, op.i + 1, op.remaining - n,
                   op.tmp \o [k \in 1 .. n |-> lba + skip + k - 1])
      <3> HIDE DEF skip, n
      <3> QED  BY <1>3, <1>4, <2>3, <2>4, ProgressRead
    <2>7. Progress(op.fs, FileChain, op.offset, op.len, op.i + 1, op'.remaining, op'.tmp)
      BY <2>2, <2>5, <2>6, Zenon
    <2> HIDE DEF sectors, n, skip
    <2> QED  BY <1>1, <1>13, <2>2, <2>7, ReadGoesOn
  <1> QED
    BY <1>7, <1>8, <1>9, <1>10, <1>11, <1>12, <1>13, Zenon DEF ReadCluster

LEMMA IoFaultExact == ASSUME Inv, ReadInv, IoFault PROVE ReadInv'
  <1>1. UNCHANGED <<disk, handle>> /\ op.pc \in {"walk", "read"}  BY DEF IoFault
  <1>2. CASE op.pc = "walk"
    <2>1. Aside  BY <1>2, EndedAside DEF IoFault
    <2> QED  BY <1>1, <2>1, AsideKeeps
  <1>3. CASE op.pc = "read"
    <2>1. disk \in Disks /\ Mounted(op.fs) /\ Reading  BY <1>3, ReadNext
    <2>2. ReadEnded("IoErr", <<>>)  BY <1>3 DEF IoFault
    <2>3. ReadsExact'  BY <1>1, <1>3, <2>1, <2>2, ExactAnswers
    <2>4. op'.pc = "idle"  BY <2>2 DEF ReadEnded, Return, Idle
    <2> QED  BY <1>1, <2>3, <2>4 DEF ReadInv
  <1> QED  BY <1>1, <1>2, <1>3

-------------------------------------------------------------------------------
LEMMA ReadInvKept == Inv /\ ReadInv /\ [Next]_vars => ReadInv'
  <1> SUFFICES ASSUME Inv, ReadInv, [Next]_vars  PROVE ReadInv'
    OBVIOUS
  <1>1. CASE UNCHANGED vars
    <2>1. UNCHANGED <<disk, handle, op, result>>  BY <1>1 DEF vars
    <2>2. ReadsExact'  BY <2>1, ExactStays DEF ReadInv
    <2>3. op.pc = "read" => Reading'
      <3> SUFFICES ASSUME op.pc = "read"  PROVE Reading'
        OBVIOUS
      <3>1. Reading  BY DEF ReadInv
      <3>2. FileChain' = FileChain  BY <2>1, Zenon DEF FileChain
      <3> QED
        BY <2>1, <3>1, <3>2, Zenon
           DEF Reading, Progress, InVolume, InFat, BlockLba, SectorCount, FirstLink, Whole,
               Skipped, Bpc, ClusterLba, DivCeil, Data
    <2> QED  BY <2>1, <2>2, <2>3 DEF ReadInv
  <1>2. ASSUME NEW offset \in 0 .. MaxOffset, NEW len \in 0 .. MaxOffset - offset,
               read_at(offset, len)
        PROVE  ReadInv'
    <2>1. offset \in Nat /\ len \in Nat
      <3> HIDE DEF MaxOffset
      <3> QED  OBVIOUS
    <2> QED  BY <1>2, <2>1, read_atExact
  <1>3. CASE Next
    BY <1>2, <1>3, DeviceCallsAside, openAside, WalkAside, ReadClusterExact, IoFaultExact, Zenon
       DEF Next
  <1> QED  BY <1>1, <1>3

(***************************************************************************)
(* FileHandle::read_at over the chain iterator, for every disk, geometry,  *)
(* window size and request: a read that succeeds returns, at every place,  *)
(* the byte the chain of the FAT has at that offset of the file, and it    *)
(* lies in the data area if the first cluster does; Corrupted is said only *)
(* of a chain that is corrupt no more than a cluster past the request, and *)
(* IncompleteRead only of one that ends before its last byte.              *)
(***************************************************************************)
THEOREM ReadsTrue == Spec => []ReadsExact
  <1>1. ReadInv => ReadsExact
    BY DEF ReadInv
  <1> QED  BY <1>1, InvHolds, ReadInvInit, ReadInvKept, PTL DEF Spec
=============================================================================
