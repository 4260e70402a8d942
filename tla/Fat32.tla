-------------------------------- MODULE Fat32 --------------------------------
(***************************************************************************)
(* The pure parts of the FAT32 driver (filesystem/fat32.rs, fat32/fat.rs): *)
(* what a boot sector must say, the window of the FAT the chain iterator   *)
(* keeps, names and their comparison, and the search of one directory      *)
(* cluster.                                                                *)
(*                                                                         *)
(* A name is a sequence of characters, the same for upper and lower case.  *)
(* A directory cluster is a sequence of slots.  A long name slot holds its *)
(* units in three parts, and its checksum is the short name it was         *)
(* computed from.                                                          *)
(***************************************************************************)
EXTENDS Integers, Sequences, FiniteSets, FiniteSetsExt

CONSTANTS
    SectorSizes, ClusterSizes, \* what the BPB may say (512 ..., 1 ...)
    MinClusters,    \* fewer clusters are FAT12 or FAT16 (65525)
    BlockSize,      \* the device's
    EntrySize,      \* size_of::<FAT32FAT>() (4)
    ALLOCATE_SIZE,  \* FAT sectors the iterator reads at once (16)
    BaseLen, ExtLen,\* of a short name (8, 3)
    NameParts       \* units in ldir_name1, 2 and 3 (5, 6, 2)

ASSUME GeometryAssumption ==
    /\ {BlockSize, EntrySize, ALLOCATE_SIZE, MinClusters, BaseLen, ExtLen} \subseteq Nat \ {0}
    /\ SectorSizes \subseteq Nat \ {0} /\ ClusterSizes \subseteq Nat \ {0}
    /\ NameParts \in [1 .. 3 -> Nat \ {0}]

-------------------------------------------------------------------------------
(* The boot sector *)

DivCeil(a, b) == (a + b - 1) \div b

(* file_system::new and FAT32FileSystem::new.  Dividing by a zero field    *)
(* and subtracting below zero panic, before the fields are checked.        *)
DataSectors(b) ==
    b.tot_sec_32 - (b.rsvd_sec_cnt + b.num_fats * b.fat_sz_32
                    + DivCeil(b.root_ent_cnt * 32, b.bytes_per_sec))

Mount(b, start) ==
    IF ~b.sign \/ b.fat16 THEN "UnsupportedFileSystem"
    ELSE IF b.bytes_per_sec = 0 THEN "panic"
    ELSE IF DataSectors(b) < 0 \/ b.sec_per_clus = 0 THEN "panic"
    ELSE IF DataSectors(b) \div b.sec_per_clus < MinClusters THEN "UnsupportedFileSystem"
    ELSE IF \/ b.bytes_per_sec \notin SectorSizes
            \/ b.sec_per_clus \notin ClusterSizes
            \/ b.bytes_per_sec # BlockSize
            \/ b.hidd_sec # start \/ b.num_fats = 0 \/ b.rsvd_sec_cnt = 0
    THEN "Corrupted"
    ELSE "ok"

FileSystem(b) ==
    [bps |-> b.bytes_per_sec, spc |-> b.sec_per_clus, spf |-> b.fat_sz_32,
     hidden |-> b.hidd_sec, fat_lba |-> b.hidd_sec + b.rsvd_sec_cnt,
     data_lba |-> b.hidd_sec + b.rsvd_sec_cnt + b.num_fats * b.fat_sz_32,
     root |-> b.root_clus, count |-> DataSectors(b) \div b.sec_per_clus]

-------------------------------------------------------------------------------
(* FAT32FATIter *)

NoCluster == 0
NoWindow == [start |-> 0, len |-> 0]
Iter(first_cluster) == [next |-> first_cluster, cache |-> NoWindow]

(* The sectors of the FAT read for a cluster's entry. *)
Window(fs, cluster) ==
    LET entry_sector == (cluster * EntrySize) \div fs.bps
        half == ALLOCATE_SIZE \div 2
        len  == Min({ALLOCATE_SIZE, fs.spf})
        back == Max({0, entry_sector - half})
    IN  [start |-> IF back + len > fs.spf THEN fs.spf - len ELSE back, len |-> len]

Covers(fs, w, cluster) ==
    /\ w.start * fs.bps <= cluster * EntrySize
    /\ cluster * EntrySize < (w.start + w.len) * fs.bps

Used(fs, it) == IF it.cache = NoWindow THEN Window(fs, it.next) ELSE it.cache

MASK == 2^28
Bad == MASK - 9           \* 0x0FFFFFF7
Reserved == (MASK - 16) .. (MASK - 10)
EndOfChain == MASK - 8    \* and above

(* Mutant: the cached window is kept wherever the chain goes. *)
Advance_KeepCache(fs, it, entry) ==
    LET x == entry % MASK
    IN  IF x \in {0, 1, Bad} \cup Reserved THEN [item |-> "Corrupted"]
        ELSE IF x >= EndOfChain THEN [item |-> "cluster", it |-> Iter(NoCluster)]
        ELSE IF x > fs.count + 1 THEN [item |-> "Corrupted"]
        ELSE [item |-> "cluster", it |-> [next |-> x, cache |-> Used(fs, it)]]

(* Mutant: a bad cluster is passed over, and not left. *)
Advance_SkipBad(fs, it, entry) ==
    LET x == entry % MASK
        w == Used(fs, it)
    IN  IF x \in {0, 1, Bad} \cup Reserved THEN [item |-> "cluster", it |-> it]
        ELSE IF x >= EndOfChain THEN [item |-> "cluster", it |-> Iter(NoCluster)]
        ELSE IF x > fs.count + 1 THEN [item |-> "Corrupted"]
        ELSE [item |-> "cluster",
              it |-> [next |-> x, cache |-> IF Covers(fs, w, x) THEN w ELSE NoWindow]]

(* What an entry of the FAT makes of the iterator: the next cluster, and   *)
(* the window if it covers that one too.                                   *)
Advance(fs, it, entry) ==
    LET x == entry % MASK
        w == Used(fs, it)
    IN  IF x \in {0, 1, Bad} \cup Reserved THEN [item |-> "Corrupted"]
        ELSE IF x >= EndOfChain THEN [item |-> "cluster", it |-> Iter(NoCluster)]
        ELSE IF x > fs.count + 1 THEN [item |-> "Corrupted"]
        ELSE [item |-> "cluster",
              it |-> [next |-> x, cache |-> IF Covers(fs, w, x) THEN w ELSE NoWindow]]

(* The first sector of a cluster. *)
ClusterLba(fs, cluster) == fs.data_lba + (cluster - 2) * fs.spc

-------------------------------------------------------------------------------
(* Names *)

LongOnly == {"+", " "}   \* legal, not in a short name
Illegal == {"*"}

FirstIn(name, S) == Min({i \in DOMAIN name : name[i] \in S} \cup {Len(name) + 1})

(* is_encode_83: base and extension, or that the name needs a long entry. *)
is_encode_83(name) ==
    LET dots == {i \in DOMAIN name : name[i] = "."}
        dot  == FirstIn(name, {"."})
        base == SubSeq(name, 1, dot - 1)
        ext  == SubSeq(name, dot + 1, Len(name))
    IN  IF FirstIn(name, Illegal) < FirstIn(name, LongOnly) THEN [kind |-> "InvalidInput"]
        ELSE IF \/ FirstIn(name, LongOnly) <= Len(name)
                \/ Cardinality(dots) > 1
                \/ Len(base) \notin 1 .. BaseLen
                \/ dots # {} /\ Len(ext) \notin 1 .. ExtLen
        THEN [kind |-> "long"]
        ELSE [kind |-> "short", base |-> base, ext |-> ext]

NameUnits == NameParts[1] + NameParts[2] + NameParts[3]

(* Where a part of a slot ends. *)
PartEnds == {NameParts[1], NameParts[1] + NameParts[2], 0}

Exhausted(name) == \A i \in DOMAIN name : name[i] \in {" ", "."}

(* The order, last mark, checksum and cluster a long slot must carry. *)
SlotSound(slot, j, lde, sde) ==
    /\ slot.seq = j + 1
    /\ slot.last = (j = lde - 1)
    /\ slot.chksum = <<sde.base, sde.ext>> /\ slot.fst_clus_lo = 0

(* Mutant: the short entry after a long name is compared by its length only. *)
LongMatch_LengthOnly(slots, i, lde, name) == "found"

(* compare_utf16_and_ascii at one unit, idx characters of the name behind. *)
compare_utf16_and_ascii(unit, idx, name) ==
    CASE unit = "pad" -> "goes on"
      [] unit = "wide" -> "UnsupportedFileName"
      [] unit = "nul" -> IF idx = Len(name) THEN "ends" ELSE "differs"
      [] OTHER -> IF idx < Len(name) /\ name[idx + 1] = unit THEN "goes on" ELSE "differs"

(* The loop over the lde long slots before slot i and, in each, over its   *)
(* three parts.  Unit k of the name is in slot (k - 1) \div NameUnits.  The *)
(* loop stops at the first of: the start of an unsound slot; a unit that   *)
(* ends, refuses or contradicts the name; the end of a part by which the   *)
(* name is used up.                                                        *)
LongMatch(slots, i, lde, name) ==
    LET all      == 1 .. lde * NameUnits
        in(k)    == (k - 1) \div NameUnits
        unit(k)  == slots[i - 1 - in(k)].units[1 + ((k - 1) % NameUnits)]
        idx(k)   == Cardinality({m \in 1 .. k - 1 : unit(m) # "pad"})
        says(k)  == compare_utf16_and_ascii(unit(k), idx(k), name)
        unsound  == {k \in all : k % NameUnits = 1 % NameUnits
                                 /\ ~SlotSound(slots[i - 1 - in(k)], in(k), lde, slots[i])}
        decides  == {k \in all : says(k) # "goes on"}
        used_up  == {k \in all : k % NameUnits \in PartEnds
                                 /\ Exhausted(SubSeq(name, idx(k + 1) + 1, Len(name)))}
        first    == Min(unsound \cup decides \cup used_up \cup {lde * NameUnits + 1})
    IN  IF first > lde * NameUnits THEN "differs"
        ELSE IF first \in unsound THEN "Corrupted"
        ELSE IF first \in decides /\ says(first) # "ends" THEN says(first)
        ELSE IF in(first) = lde - 1 THEN "found" ELSE "differs"

(* Long slots directly before slot i, in this cluster. *)
lde_num(slots, i) ==
    Cardinality({k \in 1 .. i - 1 : \A m \in k .. i - 1 : slots[m].kind = "long"})

(* What the loop does with slot i: go on, or return. *)
Verdict(slots, i, name) ==
    LET enc == is_encode_83(name)
        slot == slots[i]
        lde == lde_num(slots, i)
        long == LongMatch(slots, i, lde, name)
    IN  IF slot.kind # "short" \/ slot.volume_id THEN "next"
        ELSE IF enc.kind = "short"
        THEN IF slot.base = enc.base /\ slot.ext = enc.ext THEN "found" ELSE "next"
        ELSE IF lde = 0 \/ lde # DivCeil(Len(name), NameUnits) THEN "next"
        ELSE IF long = "differs" THEN "next"
        ELSE long

(* The slots before the end at which the loop returns, with what. *)
Hits(slots, end, name) ==
    {h \in {[at |-> i, verdict |-> Verdict(slots, i, name), slot |-> slots[i]] : i \in 1 .. end - 1} :
        h.verdict # "next"}

FirstHit(hits) ==
    IF hits = {} THEN [verdict |-> "next"]
    ELSE CHOOSE h \in hits : \A g \in hits : h.at <= g.at

(* Mutant: a directory ends with its first deleted entry. *)
SearchCluster_StopAtDeleted(slots, name) ==
    FirstHit(Hits(slots, Min({i \in DOMAIN slots : slots[i].kind \in {"end", "deleted"}}
                             \cup {Len(slots) + 1}), name))

(* The body of search_file_name_with_cluster_dir for one cluster. *)
SearchCluster(slots, name) ==
    FirstHit(Hits(slots, Min({i \in DOMAIN slots : slots[i].kind = "end"}
                             \cup {Len(slots) + 1}), name))

(* calculate_next_dir *)
calculate_next_dir(sde) ==
    [is_dir |-> sde.directory, is_readonly |-> sde.read_only,
     first_cluster |-> sde.fst_clus, file_size |-> sde.file_size]
===============================================================================
