-------------------------------- MODULE Zone --------------------------------
(***************************************************************************)
(* The zone allocator (zone.c): a ring of blocks through the list head of  *)
(* the zone, in the order of their addresses, and a rover at which the     *)
(* search for a free block begins.                                         *)
(*                                                                         *)
(* Addresses are offsets into the zone.  The head of the list lies in      *)
(* front of every block; its offset counts as 0.  A block is named by the  *)
(* offset of its header; DOMAIN block is the set of headers in the list.   *)
(* The search is modelled iteration by iteration: what makes it end, and   *)
(* end at the right block, is an invariant of its loop.                    *)
(***************************************************************************)
EXTENDS Integers

CONSTANTS
    ZoneSize,       \* the bytes of the zone, DYNAMIC_SIZE or -zone
    ZoneHeader,     \* sizeof(memzone_t)
    HeaderSize,     \* sizeof(memblock_t)
    MINFRAGMENT,    \* what is left of a block is a block of its own if larger
    Requests        \* the sizes that callers ask for

ASSUME SizesAssumption ==
    /\ ZoneHeader \in Nat \ {0} /\ HeaderSize \in Nat \ {0}
    /\ ZoneSize \in Nat /\ ZoneSize > ZoneHeader
    /\ MINFRAGMENT \in Nat
ASSUME RequestsAssumption == Requests \subseteq Nat

VARIABLES
    block,      \* block[b]: the memblock_t at b, for b in the list
    rover,      \* mainzone->rover
    pc,         \* "idle", inside Z_TagMalloc, or "exited" (Sys_Error)
    scan,       \* the locals of Z_TagMalloc, and what was asked for
    live        \* history: live[p] bytes were asked for at the pointer p

vars == <<block, rover, pc, scan, live>>

Head == 0
First == ZoneHeader
Blocks == DOMAIN block

\* Header, trash tester, and up to the next multiple of 8.
Needed(n) == ((n + HeaderSize + 4 + 7) \div 8) * 8

Pointer(b) == b + HeaderSize

NoSearch == [base |-> Head, rover |-> Head, start |-> Head, asked |-> 0]

-----------------------------------------------------------------------------
\* Z_ClearZone.

Init ==
    /\ block = [b \in {Head, First} |->
                  IF b = Head
                  THEN [size |-> 0, tag |-> 1, next |-> First, prev |-> First]
                  ELSE [size |-> ZoneSize - ZoneHeader, tag |-> 0,
                        next |-> Head, prev |-> Head]]
    /\ rover = First
    /\ pc = "idle"
    /\ scan = NoSearch
    /\ live = [p \in {} |-> 0]

-----------------------------------------------------------------------------
\* Z_Malloc and Z_TagMalloc.

BeginSearch(n) ==
    /\ pc = "idle"
    /\ pc' = "scan"
    /\ scan' = [base |-> rover, rover |-> rover,
                start |-> block[rover].prev, asked |-> n]
    /\ UNCHANGED <<block, rover, live>>

\* Mutant: base is compared, not rover.
BaseAround(s) == s.base = s.start

\* if (rover == start), scanned all the way around the list
AllAround(s) == s.rover = s.start

\* Mutant: a used block does not move base.
MoveRoverOnly(s) == [s EXCEPT !.rover = block[s.rover].next]

\* rover moves on, and takes base along from a block in use
Advance(s) ==
    LET next == block[s.rover].next
    IN  [s EXCEPT !.rover = next,
                  !.base = IF block[s.rover].tag # 0 THEN next ELSE @]

\* Mutant: the size is not compared.
FitsAny(b, n) == block[b].tag = 0

Fits(b, n) == block[b].tag = 0 /\ block[b].size >= Needed(n)

KeepSearching ==
    /\ pc = "scan"
    /\ ~AllAround(scan)
    /\ ~Fits(Advance(scan).base, scan.asked)
    /\ scan' = Advance(scan)
    /\ UNCHANGED <<block, rover, pc, live>>

\* The first size bytes of b are used, the rest is a free block.
Split(blk, b, size) ==
    LET new == b + size
        after == blk[b].next
    IN  [c \in DOMAIN blk \cup {new} |->
            IF c = new THEN [size |-> blk[b].size - size, tag |-> 0,
                             next |-> after, prev |-> b]
            ELSE IF c = b THEN [size |-> size, tag |-> 1,
                                next |-> new, prev |-> blk[b].prev]
            ELSE IF c = after THEN [blk[c] EXCEPT !.prev = new]
            ELSE blk[c]]

Found ==
    LET b == Advance(scan).base
        size == Needed(scan.asked)
    IN  /\ pc = "scan"
        /\ ~AllAround(scan)
        /\ Fits(b, scan.asked)
        /\ block' = IF block[b].size - size > MINFRAGMENT
                    THEN Split(block, b, size)
                    ELSE [block EXCEPT ![b].tag = 1]
        /\ rover' = block'[b].next
        /\ live' = [p \in DOMAIN live \cup {Pointer(b)} |->
                      IF p = Pointer(b) THEN scan.asked ELSE live[p]]
        /\ pc' = "idle"
        /\ scan' = NoSearch

\* Z_TagMalloc returns NULL, and Z_Malloc, its only caller, calls Sys_Error.
Refuse ==
    /\ pc = "scan"
    /\ AllAround(scan)
    /\ pc' = "exited"
    /\ UNCHANGED <<block, rover, scan, live>>

-----------------------------------------------------------------------------
\* Z_Free.

\* The list with the block c merged into b, which lies before it.
Join(blk, b, c) ==
    [x \in DOMAIN blk \ {c} |->
        IF x = b THEN [blk[b] EXCEPT !.size = @ + blk[c].size,
                                     !.next = blk[c].next]
        ELSE IF x = blk[c].next THEN [blk[x] EXCEPT !.prev = b]
        ELSE blk[x]]

\* The same of the list and the rover, which never stays at a header that is gone.
Merge(h, b, c) ==
    [list |-> Join(h.list, b, c), rover |-> IF h.rover = c THEN b ELSE h.rover]

\* Mutant: a free block behind b is left alone.
LeaveNext(h, b) == h

MergeNext(h, b) ==
    LET c == h.list[b].next
    IN  IF h.list[c].tag = 0 THEN Merge(h, b, c) ELSE h

\* b goes into the block before it, if that is free, then takes in the next.
Release(h, b) ==
    LET a == h.list[b].prev
    IN  IF h.list[a].tag = 0
        THEN MergeNext(Merge(h, a, b), a)
        ELSE MergeNext(h, b)

Z_Free(p) ==
    LET b == p - HeaderSize
        h == Release([list |-> [block EXCEPT ![b].tag = 0], rover |-> rover], b)
    IN  /\ pc = "idle"
        /\ block' = h.list /\ rover' = h.rover
        /\ live' = [q \in DOMAIN live \ {p} |-> live[q]]
        /\ UNCHANGED <<pc, scan>>

-----------------------------------------------------------------------------
Next ==
    \/ \E n \in Requests : BeginSearch(n)
    \/ KeepSearching
    \/ Found
    \/ Refuse
    \/ \E p \in DOMAIN live : Z_Free(p)

Spec == Init /\ [][Next]_vars

\* The program runs on while it is inside Z_TagMalloc.
FairSpec == Spec /\ WF_vars(KeepSearching \/ Found \/ Refuse)

-----------------------------------------------------------------------------
\* Why the allocator works.

Memblock == [size : Nat, tag : {0, 1}, next : Nat, prev : Nat]

IsList(blk) ==
    /\ Head \in DOMAIN blk /\ First \in DOMAIN blk
    /\ DOMAIN blk \subseteq {Head} \cup First .. (ZoneSize - 1)
    /\ blk \in [DOMAIN blk -> Memblock]

TypeOK ==
    /\ IsList(block)
    /\ rover \in Blocks
    /\ pc \in {"idle", "scan", "exited"}
    /\ scan \in [base : Nat, rover : Nat, start : Nat, asked : Nat]

After(blk, b) ==
    IF b = Head THEN First
    ELSE IF b + blk[b].size = ZoneSize THEN Head
    ELSE b + blk[b].size

\* There is never any space between blocks, and the links agree with it.
Tiled(blk) ==
    /\ blk[Head].tag = 1 /\ blk[Head].size = 0
    /\ \A b \in DOMAIN blk :
         /\ b # Head => blk[b].size > 0 /\ b + blk[b].size <= ZoneSize
         /\ blk[b].next = After(blk, b)
         /\ blk[b].next \in DOMAIN blk /\ blk[b].prev \in DOMAIN blk
         /\ blk[blk[b].next].prev = b
         /\ blk[blk[b].prev].next = b
    /\ \A b, c \in DOMAIN blk \ {Head} : b < c => b + blk[b].size <= c

\* There are never two free blocks in a row.
Merged(blk) ==
    \A b \in DOMAIN blk : blk[b].tag = 0 => blk[blk[b].next].tag # 0

\* A block is in use exactly while a caller holds it, and has room for what the
\* caller asked for and for the trash tester behind it.
Held ==
    /\ \A p \in DOMAIN live : p \in Nat /\ p - HeaderSize \in Blocks \ {Head}
    /\ \A b \in Blocks \ {Head} : block[b].tag # 0 <=> Pointer(b) \in DOMAIN live
    /\ \A p \in DOMAIN live :
         /\ live[p] \in Nat
         /\ HeaderSize + live[p] + 4 <= block[p - HeaderSize].size

\* b comes before c when the ring is walked from the rover on.
Passed(b, c) ==
    IF rover <= c THEN rover <= b /\ b < c ELSE rover <= b \/ b < c

\* The search has passed no block that fits.
Searching ==
    /\ scan.base \in Blocks /\ scan.rover \in Blocks
    /\ scan.start = block[rover].prev
    /\ scan.asked \in Requests
    /\ \A b \in Blocks : Passed(b, scan.rover) => ~Fits(b, scan.asked)
    /\ \/ scan.rover = scan.base
          /\ (scan.base = rover \/ ~Fits(scan.base, scan.asked))
       \/ block[scan.base].tag = 0 /\ scan.rover = block[scan.base].next

SearchInv == pc = "scan" => Searching

-----------------------------------------------------------------------------
\* Properties.

\* What Z_CheckHeap checks, and what it cannot know: the blocks tile the zone,
\* the links agree, no two free blocks meet, the rover points into the list, and
\* every block in use is somebody's; and the loop invariant of the search.
ZoneInv == TypeOK /\ Tiled(block) /\ Merged(block) /\ Held /\ SearchInv

\* Z_TagMalloc gives up only when no free block is large enough, wherever the
\* rover was left; start itself is never compared as a candidate, and need not be.
RefusedOnlyWhenNothingFits ==
    pc = "exited" => \A b \in Blocks : ~Fits(b, scan.asked)

\* What callers hold is theirs: no allocation overlaps another or leaves the zone.
MemoryOfCallers == INSTANCE Heap
    WITH Last <- ZoneSize, exited <- (pc = "exited")
ImplementsHeap == MemoryOfCallers!Spec

\* Every search ends, however the rover and the free blocks lie.
SearchEnds == pc = "scan" ~> pc # "scan"
=============================================================================
