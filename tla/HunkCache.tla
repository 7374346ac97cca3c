----------------------------- MODULE HunkCache ------------------------------
(***************************************************************************)
(* The hunk and the cache of zone.c.  The hunk is two stacks that grow     *)
(* towards each other, with one temporary buffer on top of the high one.   *)
(* What lies between belongs to the cache: blocks in a list in the order   *)
(* of memory, and in a second list in the order of use.  When a stack      *)
(* grows, the blocks in its way are moved or thrown out; when the cache    *)
(* has no room, the least recently used blocks are.  Their users have to   *)
(* ask, every time, whether their data is still there.                     *)
(*                                                                         *)
(* The unit is 16 bytes; sizes include the headers.  The loops of          *)
(* Cache_FreeLow, Cache_FreeHigh and Cache_Alloc are one action per turn.  *)
(***************************************************************************)
EXTENDS Integers, Sequences

CONSTANTS
    HunkSize,   \* hunk_size
    HunkSizes,  \* the sizes asked of the hunk
    Users,      \* who keeps data in the cache (a cache_user_t each)
    CacheSizes  \* the sizes asked of the cache

ASSUME SizeAssumption ==
    /\ HunkSize \in Nat
    /\ HunkSizes \subseteq Nat \ {0} /\ CacheSizes \subseteq Nat \ {0}
ASSUME UserAssumption == Users \cap {"free", "low", "high", "temp"} = {}

VARIABLES
    hunkLow,    \* hunk_low_used
    hunkHigh,   \* hunk_high_used
    tempActive, \* hunk_tempactive
    tempMark,   \* hunk_tempmark
    cache,      \* the blocks in the order of cache_head.next
    lru,        \* their users in the order of cache_head.lru_next
    data,       \* data[u]: where the cache_user_t points to, NULL or an address
    call,       \* the call the program is in, and its local variables
    memory,     \* history: whose contents each unit of the hunk holds
    used,       \* history: the cached users, the one that used its data last first
    moved       \* history: those whose block was moved after their last use

vars == <<hunkLow, hunkHigh, tempActive, tempMark, cache, lru, data, call, memory,
          used, moved>>
uses == <<used, moved>>
hunk == <<hunkLow, hunkHigh, tempActive, tempMark>>

NULL == -1
Block(u, at, size) == [user |-> u, at |-> at, size |-> size]
End(b) == b.at + b.size
Idle == [op |-> "none"]
HunkTop == HunkSize - hunkHigh

\* Memory from one address up to another now holds the contents of owner.
Fill(mem, from, to, owner) ==
    [i \in 0..HunkSize - 1 |-> IF i \in from..to - 1 THEN owner ELSE mem[i]]

Init ==
    /\ hunkLow = 0 /\ hunkHigh = 0
    /\ tempActive = FALSE /\ tempMark = 0
    /\ cache = <<>> /\ lru = <<>>
    /\ data = [u \in Users |-> NULL]
    /\ call = Idle
    /\ memory = [i \in 0..HunkSize - 1 |-> "free"]
    /\ used = <<>> /\ moved = {}

-----------------------------------------------------------------------------
\* The cache: the two lists.

Without(s, i) == [j \in 1..Len(s) - 1 |-> IF j < i THEN s[j] ELSE s[j + 1]]
With(s, i, x) ==
    [j \in 1..Len(s) + 1 |-> IF j < i THEN s[j] ELSE IF j = i THEN x ELSE s[j - 1]]

Holds(list, u) == \E i \in 1..Len(list) : list[i] = u
PlaceOf(list, u) == CHOOSE i \in 1..Len(list) : list[i] = u
Unlinked(list, u) ==                                    \* Cache_UnlinkLRU
    IF Holds(list, u) THEN Without(list, PlaceOf(list, u)) ELSE list
MadeFirst(list, u) == With(Unlinked(list, u), 1, u)     \* Cache_MakeLRU
LeastRecent == lru[Len(lru)]
IndexOf(u) == CHOOSE i \in 1..Len(cache) : cache[i].user = u

\* Cache_TryAlloc: place i is in front of block i; the last one is the end.
PlaceStart(i) == IF i = 1 THEN hunkLow ELSE End(cache[i - 1])
EndAnywhere(i) ==                           \* Mutant: the high stack forgotten
    IF i = Len(cache) + 1 THEN HunkSize ELSE cache[i].at
PlaceEnd(i) == IF i = Len(cache) + 1 THEN HunkTop ELSE cache[i].at

Fitting(size, nobottom) ==
    {i \in 1..Len(cache) + 1 :
        /\ ~(nobottom /\ i = 1)
        /\ PlaceEnd(i) - PlaceStart(i) >= size}
FirstOf(places) == CHOOSE i \in places : \A j \in places : i <= j
Cache_TryAlloc(size, nobottom) == FirstOf(Fitting(size, nobottom))

FreeStillListed(i) ==                       \* Mutant: not taken out of the LRU list
    LET b == cache[i]
    IN  /\ cache' = Without(cache, i)
        /\ data' = [data EXCEPT ![b.user] = NULL]
        /\ memory' = Fill(memory, b.at, End(b), "free")
        /\ UNCHANGED <<lru, uses>>

\* Cache_Free of block i
FreeBlock(i) ==
    LET b == cache[i]
    IN  /\ cache' = Without(cache, i)
        /\ lru' = Unlinked(lru, b.user)
        /\ used' = Unlinked(used, b.user) /\ moved' = moved \ {b.user}
        /\ data' = [data EXCEPT ![b.user] = NULL]
        /\ memory' = Fill(memory, b.at, End(b), "free")

\* Cache_Move of block i: a copy is linked into the first place that fits, then
\* the block is freed.  The copy counts as just used.
MoveTo(i, place) ==
    LET b == cache[i]
        copy == Block(b.user, PlaceStart(place), b.size)
        old == IF place <= i THEN i + 1 ELSE i
        gone == Fill(memory, b.at, End(b), "free")
    IN  /\ cache' = Without(With(cache, place, copy), old)
        /\ lru' = MadeFirst(lru, b.user)
        /\ moved' = moved \cup {b.user} /\ UNCHANGED used
        /\ data' = [data EXCEPT ![b.user] = copy.at]
        /\ memory' = [k \in 0..HunkSize - 1 |->
                IF k \in copy.at..End(copy) - 1
                THEN memory[b.at + (k - copy.at)] ELSE gone[k]]

MoveIfRoom(i) ==                            \* Mutant: kept when it cannot move
    IF Fitting(cache[i].size, TRUE) = {} THEN UNCHANGED <<cache, lru, data, memory, uses>>
    ELSE MoveTo(i, Cache_TryAlloc(cache[i].size, TRUE))

Cache_Move(i) ==
    IF Fitting(cache[i].size, TRUE) = {} THEN FreeBlock(i)
    ELSE MoveTo(i, Cache_TryAlloc(cache[i].size, TRUE))

-----------------------------------------------------------------------------
\* The low side of the hunk.

Hunk_AllocName(n) ==
    /\ call = Idle
    /\ IF HunkTop - hunkLow < n
       THEN /\ call' = [op |-> "exited"]                    \* Sys_Error
            /\ UNCHANGED <<hunk, cache, lru, data, memory, uses>>
       ELSE /\ call' = [op |-> "low", size |-> n]
            /\ hunkLow' = hunkLow + n
            /\ UNCHANGED <<hunkHigh, tempActive, tempMark, cache, lru, data, memory, uses>>

\* Cache_FreeLow: the first block goes out of the way,
InWayOfLow == cache # <<>> /\ cache[1].at < hunkLow

Cache_FreeLow ==
    /\ call.op = "low"
    /\ InWayOfLow
    /\ Cache_Move(1)
    /\ UNCHANGED <<hunk, call>>

\* or there is space, and the rest of Hunk_AllocName clears it.
LowAllocated ==
    /\ call.op = "low"
    /\ ~InWayOfLow
    /\ memory' = Fill(memory, hunkLow - call.size, hunkLow, "low")
    /\ call' = Idle
    /\ UNCHANGED <<hunk, cache, lru, data, uses>>

\* Callers pass a mark they took with Hunk_LowMark.
Hunk_FreeToLowMark(mark) ==
    /\ call = Idle
    /\ memory' = Fill(memory, mark, hunkLow, "free")
    /\ hunkLow' = mark
    /\ UNCHANGED <<hunkHigh, tempActive, tempMark, cache, lru, data, call, uses>>

-----------------------------------------------------------------------------
\* The high side and the temporary buffer, which every operation on the high
\* side but the allocation that makes it gives back first.

HighWithoutTemp == IF tempActive THEN tempMark ELSE hunkHigh
MemoryWithoutTemp ==
    Fill(memory, HunkTop, HunkSize - HighWithoutTemp, "free")

Hunk_HighMark ==
    /\ call = Idle
    /\ tempActive
    /\ hunkHigh' = tempMark
    /\ tempActive' = FALSE
    /\ memory' = MemoryWithoutTemp
    /\ UNCHANGED <<hunkLow, tempMark, cache, lru, data, call, uses>>

Hunk_FreeToHighMark(mark) ==
    /\ call = Idle
    /\ mark <= HighWithoutTemp
    /\ hunkHigh' = mark
    /\ tempActive' = FALSE
    /\ memory' = Fill(memory, HunkTop, HunkSize - mark, "free")
    /\ UNCHANGED <<hunkLow, tempMark, cache, lru, data, call, uses>>

\* Hunk_HighAllocName for itself (NULL when there is no room), and as the end
\* of Hunk_TempAlloc, which marks the buffer active even if it got none.
HighAlloc(n, owner) ==
    LET fits == HunkSize - HighWithoutTemp - hunkLow >= n
    IN  /\ call = Idle
        /\ hunkHigh' = IF fits THEN HighWithoutTemp + n ELSE HighWithoutTemp
        /\ memory' = MemoryWithoutTemp
        /\ call' = IF fits THEN [op |-> "high", size |-> n, owner |-> owner, prev |-> NULL]
                           ELSE Idle
        /\ tempMark' = IF owner = "temp" THEN HighWithoutTemp ELSE tempMark
        /\ tempActive' = (owner = "temp" /\ ~fits)
        /\ UNCHANGED <<hunkLow, cache, lru, data, uses>>

Hunk_HighAllocName(n) == HighAlloc(n, "high")
Hunk_TempAlloc(n) == HighAlloc(n, "temp")

\* Cache_FreeHigh: the last block goes out of the way; one that is met twice
\* did not, and is thrown out.
LastBlock == cache[Len(cache)]
StartsInWay == cache # <<>> /\ LastBlock.at >= HunkTop  \* Mutant: only its start

InWayOfHigh == cache # <<>> /\ End(LastBlock) > HunkTop

Cache_FreeHigh ==
    /\ call.op = "high"
    /\ InWayOfHigh
    /\ IF LastBlock.at = call.prev
       THEN FreeBlock(Len(cache)) /\ UNCHANGED call
       ELSE Cache_Move(Len(cache)) /\ call' = [call EXCEPT !.prev = LastBlock.at]
    /\ UNCHANGED hunk

HighAllocated ==
    /\ call.op = "high"
    /\ ~InWayOfHigh
    /\ memory' = Fill(memory, HunkTop, HunkTop + call.size, call.owner)
    /\ tempActive' = (call.owner = "temp")
    /\ call' = Idle
    /\ UNCHANGED <<hunkLow, hunkHigh, tempMark, cache, lru, data, uses>>

-----------------------------------------------------------------------------
\* The cache for its users.

Cache_Alloc(u, n) ==
    /\ call = Idle
    /\ data[u] = NULL
    /\ call' = [op |-> "alloc", user |-> u, size |-> n]
    /\ UNCHANGED <<hunk, cache, lru, data, memory, uses>>

\* There is room: link the block; the user fills it.
CacheAllocated ==
    /\ call.op = "alloc"
    /\ Fitting(call.size, FALSE) # {}
    /\ LET place == Cache_TryAlloc(call.size, FALSE)
           b == Block(call.user, PlaceStart(place), call.size)
       IN  /\ cache' = With(cache, place, b)
           /\ lru' = MadeFirst(lru, call.user)
           /\ used' = MadeFirst(used, call.user) /\ UNCHANGED moved
           /\ data' = [data EXCEPT ![call.user] = b.at]
           /\ memory' = Fill(memory, b.at, End(b), call.user)
    /\ call' = Idle
    /\ UNCHANGED hunk

\* There is none: free the least recently used block and try again,
CacheEvict ==
    /\ call.op = "alloc"
    /\ Fitting(call.size, FALSE) = {}
    /\ cache # <<>>
    /\ FreeBlock(IndexOf(LeastRecent))
    /\ UNCHANGED <<hunk, call>>

\* until the cache is empty, and the request larger than what the hunk leaves.
GivesUpEarly ==                             \* Mutant: the last block is kept
    /\ call.op = "alloc"
    /\ Fitting(call.size, FALSE) = {}
    /\ Len(cache) <= 1
    /\ call' = [call EXCEPT !.op = "exited"]
    /\ UNCHANGED <<hunk, cache, lru, data, memory, uses>>

CacheTooLarge ==
    /\ call.op = "alloc"
    /\ Fitting(call.size, FALSE) = {}
    /\ cache = <<>>
    /\ call' = [call EXCEPT !.op = "exited"]                \* Sys_Error
    /\ UNCHANGED <<hunk, cache, lru, data, memory, uses>>

CheckOnly(u) ==                             \* Mutant: the use is not recorded
    /\ call = Idle
    /\ data[u] # NULL
    /\ used' = MadeFirst(used, u) /\ moved' = moved \ {u}
    /\ UNCHANGED <<hunk, cache, lru, data, call, memory>>

Cache_Check(u) ==
    /\ call = Idle
    /\ data[u] # NULL
    /\ lru' = MadeFirst(lru, u)
    /\ used' = MadeFirst(used, u) /\ moved' = moved \ {u}
    /\ UNCHANGED <<hunk, cache, data, call, memory>>

Cache_Free(u) ==
    /\ call = Idle
    /\ data[u] # NULL
    /\ FreeBlock(IndexOf(u))
    /\ UNCHANGED <<hunk, call>>

Cache_Flush ==
    /\ call = Idle
    /\ cache # <<>>
    /\ cache' = <<>> /\ lru' = <<>> /\ used' = <<>> /\ moved' = {}
    /\ data' = [u \in Users |-> NULL]
    /\ memory' = [i \in 0..HunkSize - 1 |->
            IF memory[i] \in Users THEN "free" ELSE memory[i]]
    /\ UNCHANGED <<hunk, call>>

-----------------------------------------------------------------------------
\* The turns of the loops: the program is in them until they end.
Loop ==
    \/ Cache_FreeLow \/ LowAllocated
    \/ Cache_FreeHigh \/ HighAllocated
    \/ CacheAllocated \/ CacheEvict \/ CacheTooLarge

Next ==
    \/ Loop
    \/ \E n \in HunkSizes :
            Hunk_AllocName(n) \/ Hunk_HighAllocName(n) \/ Hunk_TempAlloc(n)
    \/ \E mark \in 0..hunkLow : Hunk_FreeToLowMark(mark)
    \/ \E mark \in 0..hunkHigh : Hunk_FreeToHighMark(mark)
    \/ Hunk_HighMark
    \/ \E u \in Users :
            \/ \E n \in CacheSizes : Cache_Alloc(u, n)
            \/ Cache_Check(u)
            \/ Cache_Free(u)
    \/ Cache_Flush

Spec == Init /\ [][Next]_vars
FairSpec == Spec /\ WF_vars(Loop)

-----------------------------------------------------------------------------
\* What the stacks own: while one of them grows, its new part is still given to
\* the cache.
LowEdge == IF call.op = "low" THEN hunkLow - call.size ELSE hunkLow
HighEdge == IF call.op = "high" THEN HunkTop + call.size ELSE HunkTop

Calls ==
    {Idle} \cup [op : {"exited"}]
        \cup [op : {"low"}, size : HunkSizes]
        \cup [op : {"high"}, size : HunkSizes, owner : {"high", "temp"},
              prev : 0..HunkSize \cup {NULL}]
        \cup [op : {"alloc", "exited"}, user : Users, size : CacheSizes]

TypeOK ==
    /\ hunkLow \in 0..HunkSize /\ hunkHigh \in 0..HunkSize
    /\ tempActive \in BOOLEAN /\ tempMark \in 0..HunkSize
    /\ cache \in Seq([user : Users, at : 0..HunkSize, size : CacheSizes])
    /\ lru \in Seq(Users) /\ used \in Seq(Users) /\ moved \subseteq Users
    /\ data \in [Users -> 0..HunkSize \cup {NULL}]
    /\ call \in Calls

\* The two stacks do not meet, and the temporary buffer lies on the high one.
StacksApart ==
    /\ LowEdge >= 0 /\ hunkLow <= HunkTop /\ HighEdge <= HunkSize
    /\ tempActive => tempMark <= hunkHigh
    /\ call.op = "high" =>
            ~tempActive /\ (call.owner = "temp" => tempMark = hunkHigh - call.size)

\* The blocks are in the order of memory, overlap neither each other nor the
\* stacks, and no user has two.
Apart ==
    /\ \A i, j \in 1..Len(cache) : i < j =>
            End(cache[i]) <= cache[j].at /\ cache[i].user # cache[j].user
    /\ \A i \in 1..Len(cache) : LowEdge <= cache[i].at /\ End(cache[i]) <= HighEdge

\* Every pointer of a user leads to its block, and to no other.
Pointers ==
    /\ \A i \in 1..Len(cache) : data[cache[i].user] = cache[i].at
    /\ \A u \in Users : data[u] # NULL => \E i \in 1..Len(cache) : cache[i].user = u
    /\ call.op = "alloc" => data[call.user] = NULL

\* The layout of the hunk, at every turn of the loops.
CacheInv == TypeOK /\ StacksApart /\ Apart /\ Pointers

\* The list for LRU flushing holds the cached users, each once, and has a user
\* in front of another without reason only if Cache_Move put it there.
HoldsCached(list) ==
    /\ \A i, j \in 1..Len(list) : i # j => list[i] # list[j]
    /\ \A u \in Users : data[u] # NULL <=> Holds(list, u)

Before(list, u, v) ==
    \E i, j \in 1..Len(list) : i < j /\ list[i] = u /\ list[j] = v

ListsAgree ==
    /\ HoldsCached(lru) /\ HoldsCached(used)
    /\ \A u, v \in Users : Before(lru, u, v) /\ u \notin moved => Before(used, u, v)

\* Whatever moves and grows, nobody's contents are overwritten: each block holds
\* what its user stored, each stack and the temporary buffer what is theirs.
Intact ==
    /\ \A i \in 1..Len(cache) :
            \A k \in cache[i].at..End(cache[i]) - 1 : memory[k] = cache[i].user
    /\ \A k \in 0..LowEdge - 1 : memory[k] = "low"
    /\ \A k \in HighEdge..HunkSize - 1 :
            memory[k] = IF tempActive /\ k < HunkSize - tempMark THEN "temp" ELSE "high"

\* Cache_Alloc ends the program only for a request that not even an empty cache
\* could hold.
ExitsOnlyWhenTooLarge ==
    call.op = "exited" /\ "user" \in DOMAIN call => call.size > HunkTop - hunkLow

\* "free the least recently used cahedat": no block that stayed where it was
\* since its last use was used before the one that is thrown out.  (A block
\* that Cache_Move moved counts as just used, whenever its user asked for it.)
EvictsLeastRecentlyUsed ==
    [][call.op = "alloc" =>
            \A u, v \in Users :
                (/\ data[u] # NULL /\ data'[u] = NULL
                 /\ data[v] # NULL /\ v # u /\ v \notin moved) => Before(used, v, u)]_vars

\* Every call comes to its end: the loops that clear the way of a stack, and
\* that make room in the cache, do not go on moving blocks for ever.
CallsEnd == call.op \in {"low", "high", "alloc"} ~> call.op \in {"none", "exited"}
=============================================================================
