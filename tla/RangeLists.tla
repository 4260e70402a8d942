------------------------------ MODULE RangeLists ------------------------------
(***************************************************************************)
(* The range lists of allocator/src/range_list_allocator.rs as pure        *)
(* operators: a list is the valid prefix of a RegionContainer, a sequence  *)
(* of MemoryRegions [address, size] that the code keeps sorted by address. *)
(* Indices are 1-based here and 0-based in the code.                       *)
(***************************************************************************)
EXTENDS Integers, Sequences, FiniteSets, SequencesExt, FiniteSetsExt

Region(address, size) == [address |-> address, size |-> size]
Span(from, to) == Region(from, to - from)

(* MemoryRegions::end() *)
End(r) == r.address + r.size

(* The addresses a region, or a list of them, stands for. *)
Units(r) == r.address .. End(r) - 1
Cover(s) == UNION {Units(s[i]) : i \in DOMAIN s}

Larger(a, b) == IF a >= b THEN a ELSE b
Smaller(a, b) == IF a <= b THEN a ELSE b

(* usize::next_multiple_of *)
NextMultipleOf(a, alignment) == ((a + alignment - 1) \div alignment) * alignment

(***************************************************************************)
(* binary_search_by_key(&a, |r| r.address): the index of the region at a,  *)
(* or the point where one would be inserted.                               *)
(***************************************************************************)
SearchIndex(s, a) == Cardinality({i \in DOMAIN s : s[i].address < a}) + 1
Found(s, a) == SearchIndex(s, a) \in DOMAIN s /\ s[SearchIndex(s, a)].address = a

-------------------------------------------------------------------------------
(* add_and_merge_region: a list grown by region r at insertion point x. *)

PreOverlaps(s, x, r) == x > 1 /\ r.address <= End(s[x - 1])
NextOverlaps(s, x, r) == x <= Len(s) /\ End(r) >= s[x].address

add_and_merge_region_NoShift(s, x, r) ==
    IF PreOverlaps(s, x, r)
    THEN [s EXCEPT ![x - 1] = Span(@.address, Larger(End(@), End(r)))]
    ELSE InsertAt(s, x, r)

add_and_merge_region(s, x, r) ==
    LET pre == PreOverlaps(s, x, r)
        next == NextOverlaps(s, x, r)
    IN  CASE ~pre /\ ~next -> InsertAt(s, x, r)
          [] pre /\ ~next ->
                [s EXCEPT ![x - 1] = Span(@.address, Larger(End(@), End(r)))]
          [] ~pre /\ next ->
                [s EXCEPT ![x] = Span(r.address, Larger(End(@), End(r)))]
          [] pre /\ next ->
                RemoveAt([s EXCEPT ![x - 1] =
                    Span(@.address, Larger(End(@), Larger(End(r), End(s[x]))))], x)

(***************************************************************************)
(* The list update of add_region_internal.  With an exact address match a  *)
(* larger region replaces the old one and absorbs at most the one entry    *)
(* after it.                                                               *)
(***************************************************************************)
AddRegion(s, r) ==
    LET x == SearchIndex(s, r.address)
        MergesNext == x + 1 \in DOMAIN s /\ End(r) >= s[x + 1].address
    IN  IF ~Found(s, r.address) THEN add_and_merge_region(s, x, r)
        ELSE IF r.size <= s[x].size THEN s
        ELSE IF MergesNext
             THEN RemoveAt([s EXCEPT ![x] = Span(r.address, Larger(End(r), End(s[x + 1])))],
                           x + 1)
             ELSE [s EXCEPT ![x] = r]

(* add_reserved_alloc_record and add_free_region_merge *)
AddRecord(s, r) == add_and_merge_region(s, SearchIndex(s, r.address), r)

-------------------------------------------------------------------------------
(***************************************************************************)
(* remove_reserved_alloc_record: s without [a, a + size).                  *)
(***************************************************************************)
remove_reserved_alloc_record_WholeRecord(s, a, size) ==
    IF Found(s, a) THEN RemoveAt(s, SearchIndex(s, a)) ELSE s

remove_reserved_alloc_record(s, a, size) ==
    LET x == SearchIndex(s, a)
        i == x - 1
        to == a + size
    IN  IF size = 0 THEN s
        ELSE IF Found(s, a)
        THEN IF size < s[x].size
             THEN [s EXCEPT ![x] = Span(to, End(@))]
             ELSE RemoveAt(s, x)
        ELSE IF x = 1 \/ to > End(s[i]) THEN s
        ELSE IF to = End(s[i])
             THEN [s EXCEPT ![i] = Span(@.address, a)]
             ELSE InsertAt([s EXCEPT ![i] = Span(@.address, a)], x, Span(to, End(s[i])))

-------------------------------------------------------------------------------
(***************************************************************************)
(* allocate_region_internal: the first region that holds size bytes at the *)
(* alignment, and the list after it is cut out.                            *)
(***************************************************************************)
Fits(r, size, alignment) == NextMultipleOf(r.address, alignment) + size <= End(r)
Fitting(s, size, alignment) == {i \in DOMAIN s : Fits(s[i], size, alignment)}
FirstFit(s, size, alignment) == Min(Fitting(s, size, alignment))

Piece_Empty(r) == <<r>>

(* A piece left of a region is an entry unless it is empty. *)
Piece(r) == IF r.size > 0 THEN <<r>> ELSE <<>>

CutOut(s, i, a, size) ==
    SubSeq(s, 1, i - 1)
        \o (Piece(Span(s[i].address, a)) \o Piece(Span(a + size, End(s[i]))))
        \o SubSeq(s, i + 1, Len(s))

-------------------------------------------------------------------------------
(***************************************************************************)
(* check_regions: one reserved region r subtracted from the list.  acc     *)
(* holds the list, the index region_idx the scan has reached, and whether  *)
(* an earlier iteration returned an error.                                 *)
(***************************************************************************)
SubtractReserved(acc, r, capacity) ==
    LET s == acc.list
        idx == CHOOSE i \in acc.idx .. Len(s) + 1 :
                   /\ i <= Len(s) => End(s[i]) > r.address
                   /\ \A j \in acc.idx .. i - 1 : End(s[j]) <= r.address
        inside == /\ idx <= Len(s)
                  /\ r.address >= s[idx].address
                  /\ End(r) <= End(s[idx])
        splits == s[idx].address < r.address /\ End(r) < End(s[idx])
    IN  IF acc.err THEN acc
        ELSE IF ~inside \/ (splits /\ Len(s) + 1 > capacity)
        THEN [acc EXCEPT !.err = TRUE]
        ELSE [list |-> CutOut(s, idx, r.address, r.size),
              idx  |-> IF splits THEN idx + 1 ELSE idx,
              err  |-> FALSE]

SubtractAll(regions, reserved, capacity) ==
    LET After[n \in 0 .. Len(reserved)] ==
          IF n = 0 THEN [list |-> regions, idx |-> 1, err |-> FALSE]
                   ELSE SubtractReserved(After[n - 1], reserved[n], capacity)
    IN  After[Len(reserved)]

-------------------------------------------------------------------------------
(***************************************************************************)
(* add_reserved_region_dynamic: where size bytes can be reserved.          *)
(* usize::MAX, the start of the reservation after the last one, is Top + 1 *)
(* here: no region ends beyond Top.                                        *)
(***************************************************************************)
NONE == -1
STOP == -2
SEARCHING == -3

PrevEnd_ExactOnly(reserved, a) ==
    IF Found(reserved, a) THEN End(reserved[SearchIndex(reserved, a)]) ELSE 0

PrevEnd(reserved, a) ==
    LET x == SearchIndex(reserved, a)
    IN  IF Found(reserved, a) THEN End(reserved[x])
        ELSE IF x > 1 THEN End(reserved[x - 1]) ELSE 0
NextStart(reserved, a, Top) ==
    LET x == SearchIndex(reserved, a) + (IF Found(reserved, a) THEN 1 ELSE 0)
    IN  IF x <= Len(reserved) THEN reserved[x].address ELSE Top + 1

(***************************************************************************)
(* One turn of the inner loop for a free region: it narrows [addr, end) by *)
(* the neighbouring reservations until the candidate is clear of them.     *)
(* STOP is the early return of Ok(None), NONE is continue 'regions.        *)
(***************************************************************************)
Narrow(acc, reserved, q, Top) ==
    LET limited == q.range # <<>>
        range_end == q.range[1] + q.range[2]
        start == NextMultipleOf(IF limited THEN Larger(acc.addr, q.range[1]) ELSE acc.addr,
                                q.align)
        prev_end == PrevEnd(reserved, start)
        next_start == NextStart(reserved, start, Top)
        addr == Larger(acc.addr, prev_end)
        end == Smaller(acc.end, next_start)
    IN  IF acc.spot # SEARCHING THEN acc
        ELSE IF limited /\ range_end < acc.addr THEN [acc EXCEPT !.spot = STOP]
        ELSE IF \/ limited /\ (acc.end < q.range[1] \/ start + q.size > range_end)
                \/ start + q.size > acc.end
        THEN [acc EXCEPT !.spot = NONE]
        ELSE IF prev_end <= start /\ start + q.size <= next_start
        THEN [acc EXCEPT !.spot = start]
        ELSE IF addr >= end THEN [acc EXCEPT !.spot = NONE]
        ELSE [acc EXCEPT !.addr = addr, !.end = end]

(* Each turn that goes on narrows the region, so these are turns enough. *)
SpotIn(region, reserved, q, Top) ==
    LET After[n \in Nat] ==
          IF n = 0 THEN [addr |-> region.address, end |-> End(region), spot |-> SEARCHING]
                   ELSE Narrow(After[n - 1], reserved, q, Top)
    IN  After[region.size + 1].spot

(* The outer loop: the first region that yields a spot, or that stops the search. *)
DynamicSpot(regions, reserved, q, Top) ==
    LET spot(i) == SpotIn(regions[i], reserved, q, Top)
        hits == {i \in DOMAIN regions : spot(i) # NONE}
        first == Min(hits)
    IN  IF hits = {} \/ q.size = 0 \/ spot(first) = STOP THEN NONE ELSE spot(first)
===============================================================================
