------------------------------ MODULE MCStorage ------------------------------
(* Instances of Storage for TLC: a partition at sector 1 with five clusters *)
(* of two sectors of two bytes, at sectors 10 to 19, and an eight-entry FAT. *)
EXTENDS Storage

Parts == <<2, 2, 1>>
Blocks == 24
EOC == EndOfChain + 7
FirstSector == 1

GoodBpb ==
    [sign |-> TRUE, fat16 |-> FALSE, root_ent_cnt |-> 0, bytes_per_sec |-> 2, sec_per_clus |-> 2,
     rsvd_sec_cnt |-> 1, num_fats |-> 2, fat_sz_32 |-> 4, hidd_sec |-> FirstSector,
     tot_sec_32 |-> 19, root_clus |-> 2]

Bpbs ==
    {[GoodBpb EXCEPT !.sign = FALSE], [GoodBpb EXCEPT !.fat16 = TRUE],
     [GoodBpb EXCEPT !.bytes_per_sec = 0], [GoodBpb EXCEPT !.bytes_per_sec = 4],
     [GoodBpb EXCEPT !.sec_per_clus = 0], [GoodBpb EXCEPT !.sec_per_clus = 3, !.tot_sec_32 = 30],
     [GoodBpb EXCEPT !.tot_sec_32 = 8], [GoodBpb EXCEPT !.tot_sec_32 = 18],
     [GoodBpb EXCEPT !.hidd_sec = 0], [GoodBpb EXCEPT !.num_fats = 0],
     [GoodBpb EXCEPT !.rsvd_sec_cnt = 0], [GoodBpb EXCEPT !.fat_sz_32 = 2],
     [GoodBpb EXCEPT !.root_clus = 9]}

-------------------------------------------------------------------------------
(* Directory slots *)

End == [kind |-> "end"]
Deleted == [kind |-> "deleted"]

Short(base, ext, first, size) ==
    [kind |-> "short", base |-> base, ext |-> ext, volume_id |-> FALSE, directory |-> FALSE,
     read_only |-> FALSE, fst_clus |-> first, file_size |-> size]
Dir(base, first) == [Short(base, <<>>, first, 0) EXCEPT !.directory = TRUE]
Label(base) == [Short(base, <<>>, 0, 0) EXCEPT !.volume_id = TRUE]
Long(seq, last, of, units) ==
    [kind |-> "long", seq |-> seq, last |-> last, chksum |-> <<of.base, of.ext>>,
     fst_clus_lo |-> 0, units |-> units]

a == <<"a">>
ab == <<"a", ".", "b">>
d == <<"d">>
plus == <<"a", "+", "b">>
start == <<"a", "+">>
six == <<"a", "b", "a", "b", "a", "b">>
seven == <<"a", "b", "a", "b", "a", "b", "b">>
Plus == Short(<<"x">>, <<>>, 4, 3)
Six == Short(<<"y">>, <<>>, 4, 5)

PlusSlots == <<Long(1, TRUE, Plus, <<"a", "+", "b", "nul", "pad">>), Plus>>
SixSlots == <<Long(2, TRUE, Six, <<"b", "nul", "pad", "pad", "pad">>),
              Long(1, FALSE, Six, <<"a", "b", "a", "b", "a">>), Six>>

Path(names) == [lead |-> "/", names |-> names]
AllPaths ==
    {Path(<<n>>) : n \in {a, ab, d, plus, start, six, seven, <<>>, <<"b", "*">>}}
    \cup {Path(<<d, a>>), Path(<<a, a>>), Path(<<d, d>>), Path(<<d, <<>>>>)}
    \cup {[lead |-> "none", names |-> <<>>], [lead |-> "other", names |-> <<a>>]}

AllRequests ==
    {[idx |-> 0, path |-> p, opts |-> "Read"] : p \in AllPaths}
    \cup {[idx |-> 0, path |-> Path(<<n>>), opts |-> "Write"] : n \in {a, d}}
    \cup {[idx |-> i, path |-> Path(<<a>>), opts |-> o] : i \in {1, 4}, o \in {"Read", "todo"}}
    \cup {[idx |-> 0, path |-> Path(<<a>>), opts |-> "todo"]}

-------------------------------------------------------------------------------
(* Disks *)

Disk(bpb, fat, root, more) ==
    [sign |-> TRUE, read_only |-> FALSE, blocks |-> Blocks,
     parts |-> [p \in 0 .. 3 |-> IF p = 0 THEN [kind |-> "fat", first |-> FirstSector]
                                 ELSE [kind |-> "unused", first |-> 0]],
     volume |-> FirstSector, boot |-> bpb,
     fat |-> fat,
     slots |-> [lba \in {10, 12} |-> IF lba = 10 THEN root ELSE more]]

Fat(f2, f3, f4, f5, f6) ==
    [c \in 0 .. 7 |-> CASE c = 2 -> f2 [] c = 3 -> f3 [] c = 4 -> f4 [] c = 5 -> f5 [] c = 6 -> f6
                        [] OTHER -> EOC]
PlainFat == Fat(3, EOC, 5, EOC, EOC)

(* Chains of every shape under one file. *)
ChainDisks ==
    {Disk(GoodBpb, Fat(EOC, EOC, f4, f5, f6), <<Short(a, <<>>, 4, 9)>>, <<End>>) :
        f4 \in {EOC, 5, 6, 4, 7, Bad}, f5 \in {EOC, 6, 4}, f6 \in {EOC, 5, 0, MASK + 3}}

(* First clusters and sizes of every kind. *)
FileDisks ==
    {Disk(GoodBpb, PlainFat, <<Label(a), Short(a, <<>>, first, size)>>, <<End>>) :
        first \in {0, 1, 4, 6, 7, 9}, size \in {0, 1, 4, 7}}

(* Directories: entries in several clusters, long names, damage, cycles. *)
DirDisks ==
    {Disk(GoodBpb, Fat(f[1], f[2], EOC, EOC, EOC), root, more) :
        f \in {<<EOC, EOC>>, <<3, EOC>>, <<3, 2>>, <<2, EOC>>, <<Bad, EOC>>},
        root \in {<<Dir(d, 3), Deleted, Short(a, <<"b">>, 4, 2), Label(a)>>,
                  PlusSlots \o <<Deleted, End>>,
                  <<Deleted>> \o SixSlots,
                  <<Short(<<"z">>, <<>>, 0, 0), Deleted, Dir(<<"b">>, 0), SixSlots[1]>>,
                  <<[PlusSlots[1] EXCEPT !.chksum = a], Plus, End>>,
                  <<[SixSlots[1] EXCEPT !.last = FALSE], SixSlots[2], Six>>,
                  <<[PlusSlots[1] EXCEPT !.units[2] = "wide"], Plus>>,
                  <<Long(1, TRUE, Plus, <<"a", "+", "b", "a", "b">>), Plus>>},
        more \in {<<Short(a, <<>>, 4, 4)>>, SixSlots, SubSeq(SixSlots, 2, 3), PlusSlots}}

ReadOnlyDisk == [Disk(GoodBpb, PlainFat, <<Short(a, <<>>, 4, 4)>>, <<End>>) EXCEPT !.read_only = TRUE]
BootDisks ==
    {Disk(b, PlainFat, <<Short(a, <<>>, 4, 4)>>, <<End>>) : b \in Bpbs}
    \cup {ReadOnlyDisk, [ReadOnlyDisk EXCEPT !.sign = FALSE], [ReadOnlyDisk EXCEPT !.parts[0].kind = "gpt"]}

(* A device that ends with the volume, and entries that point past it. *)
ShortDisks ==
    {[k EXCEPT !.blocks = 20] :
        k \in {Disk(GoodBpb, PlainFat, <<Short(a, <<>>, 7, 4), Dir(d, 7)>>, <<End>>),
               Disk([GoodBpb EXCEPT !.root_clus = 7], PlainFat, <<End>>, <<End>>)}}
    \cup {[ReadOnlyDisk EXCEPT !.blocks = n] : n \in {1, 4}}

AllDisks == ShortDisks \cup ChainDisks \cup FileDisks \cup DirDisks \cup BootDisks
==============================================================================
