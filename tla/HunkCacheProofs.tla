--------------------------- MODULE HunkCacheProofs --------------------------
(***************************************************************************)
(* Proofs about HunkCache.tla, for a hunk of any size, any users and any   *)
(* requests.  First what the two list operations do to a list, then what   *)
(* freeing, moving and linking a block does to the layout of the cache and *)
(* to the contents of the hunk, then the order of use, then the actions.   *)
(***************************************************************************)
EXTENDS HunkCache, SequenceTheorems, WellFoundedInduction, TLAPS

-----------------------------------------------------------------------------
\* Lists.

Distinct(list) == \A i, j \in 1..Len(list) : i # j => list[i] # list[j]

LEMMA ListOfLength ==
    ASSUME NEW S, NEW n \in Nat, NEW f \in [1..n -> S]
    PROVE  f \in Seq(S) /\ Len(f) = n
<1>1. f \in Seq(S)
  BY SeqDef
<1>2. DOMAIN f = 1..n /\ DOMAIN f = 1..Len(f) /\ Len(f) \in Nat
  BY <1>1, LenProperties
<1> QED BY <1>1, <1>2

\* Linking an element in before place i.
LEMMA WithList ==
    ASSUME NEW S, NEW s \in Seq(S), NEW i \in 1..Len(s) + 1, NEW x \in S
    PROVE  /\ With(s, i, x) \in Seq(S) /\ Len(With(s, i, x)) = Len(s) + 1
           /\ \A j \in 1..Len(s) + 1 :
                /\ j < i => With(s, i, x)[j] = s[j]
                /\ j = i => With(s, i, x)[j] = x
                /\ i < j => With(s, i, x)[j] = s[j - 1]
<1> DEFINE w == With(s, i, x)
           n == Len(s) + 1
<1>1. Len(s) \in Nat /\ \A j \in 1..Len(s) : s[j] \in S
  BY LenProperties, ElementOfSeq
<1>2. n \in Nat /\ i \in 1..n
  BY <1>1
<1>3. w = [j \in 1..n |-> IF j < i THEN s[j] ELSE IF j = i THEN x ELSE s[j - 1]]
  BY DEF With
<1>4. \A j \in 1..n : (IF j < i THEN s[j] ELSE IF j = i THEN x ELSE s[j - 1]) \in S
  BY <1>1, <1>2
<1>5. w \in [1..n -> S]
  BY <1>3, <1>4
<1>6. w \in Seq(S) /\ Len(w) = n
  BY <1>2, <1>5, ListOfLength
<1> QED BY <1>3, <1>6

\* Unlinking the element at place i.
LEMMA WithoutList ==
    ASSUME NEW S, NEW s \in Seq(S), NEW i \in 1..Len(s)
    PROVE  /\ Without(s, i) \in Seq(S) /\ Len(Without(s, i)) = Len(s) - 1
           /\ Len(s) \in Nat \ {0}
           /\ \A j \in 1..Len(s) - 1 :
                Without(s, i)[j] = IF j < i THEN s[j] ELSE s[j + 1]
<1> DEFINE w == Without(s, i)
           n == Len(s) - 1
<1>1. Len(s) \in Nat /\ \A j \in 1..Len(s) : s[j] \in S
  BY LenProperties, ElementOfSeq
<1>2. n \in Nat /\ i \in 1..n + 1 /\ Len(s) \in Nat \ {0}
  BY <1>1
<1>3. w = [j \in 1..n |-> IF j < i THEN s[j] ELSE s[j + 1]]
  BY DEF Without
<1>4. \A j \in 1..n : (IF j < i THEN s[j] ELSE s[j + 1]) \in S
  BY <1>1, <1>2
<1>5. w \in [1..n -> S]
  BY <1>3, <1>4
<1>6. w \in Seq(S) /\ Len(w) = n
  BY <1>2, <1>5, ListOfLength
<1> QED BY <1>2, <1>3, <1>6

\* Taking a user out of a list keeps the order of the others.
LEMMA UnlinkedList ==
    ASSUME NEW S, NEW s \in Seq(S), Distinct(s), NEW u \in S
    PROVE  LET t == Unlinked(s, u)
           IN  /\ t \in Seq(S) /\ Distinct(t)
               /\ \A v : Holds(t, v) <=> v # u /\ Holds(s, v)
               /\ \A v, w : Before(t, v, w) <=> v # u /\ w # u /\ Before(s, v, w)
<1> DEFINE t == Unlinked(s, u)
<1>1. Len(s) \in Nat
  BY LenProperties
<1>2. CASE ~Holds(s, u)
  <2>1. t = s
    BY <1>2 DEF Unlinked
  <2>2. \A j \in 1..Len(s) : s[j] # u
    BY <1>2 DEF Holds
  <2>3. \A v, w : Before(s, v, w) => v # u /\ w # u
    BY <2>2 DEF Before
  <2> QED BY <1>2, <2>1, <2>3 DEF Holds
<1>3. CASE Holds(s, u)
  <2> DEFINE i == PlaceOf(s, u)
             old(j) == IF j < i THEN j ELSE j + 1
             new(j) == IF j < i THEN j ELSE j - 1
  <2>1. i \in 1..Len(s) /\ s[i] = u
    BY <1>3 DEF Holds, PlaceOf
  <2>2. t = Without(s, i)
    BY <1>3 DEF Unlinked
  <2> HIDE DEF i, t
  <2>3. /\ t \in Seq(S) /\ Len(t) = Len(s) - 1
        /\ \A j \in 1..Len(t) : t[j] = s[old(j)]
    BY <2>1, <2>2, WithoutList
  <2>4. /\ \A j \in 1..Len(t) : old(j) \in 1..Len(s) /\ old(j) # i
        /\ \A j, k \in 1..Len(t) : j < k => old(j) < old(k)
    BY <1>1, <2>1, <2>3
  <2>5. \A j \in 1..Len(s) : j # i =>
            new(j) \in 1..Len(t) /\ old(new(j)) = j
    BY <1>1, <2>1, <2>3
  <2>6. \A j, k \in 1..Len(s) : j # i /\ k # i /\ j < k => new(j) < new(k)
    BY <1>1, <2>1, <2>3
  <2>7. \A j \in 1..Len(s) : j # i => s[j] # u
    BY <2>1 DEF Distinct
  <2> HIDE DEF old, new
  <2>8. \A j \in 1..Len(s) : j # i => t[new(j)] = s[j]
    BY <2>3, <2>5
  <2>9. Distinct(t)
    <3>1. \A j, k \in 1..Len(t) : j # k => old(j) # old(k)
      BY <1>1, <2>1, <2>3 DEF old
    <3> QED BY <3>1, <2>3, <2>4 DEF Distinct
  <2>10. \A v : Holds(t, v) <=> v # u /\ Holds(s, v)
    <3> TAKE v
    <3>1. Holds(t, v) => v # u /\ Holds(s, v)
      BY <2>3, <2>4, <2>7 DEF Holds
    <3>2. v # u /\ Holds(s, v) => Holds(t, v)
      BY <2>1, <2>5, <2>8 DEF Holds
    <3> QED BY <3>1, <3>2
  <2>11. \A v, w : Before(t, v, w) <=> v # u /\ w # u /\ Before(s, v, w)
    <3> TAKE v, w
    <3>1. Before(t, v, w) => v # u /\ w # u /\ Before(s, v, w)
      BY <2>3, <2>4, <2>7 DEF Before
    <3>2. v # u /\ w # u /\ Before(s, v, w) => Before(t, v, w)
      BY <2>1, <2>5, <2>6, <2>8 DEF Before
    <3> QED BY <3>1, <3>2
  <2> QED BY <2>3, <2>9, <2>10, <2>11 DEF t
<1> QED BY <1>2, <1>3

\* Making a user the first of a list.
LEMMA MadeFirstList ==
    ASSUME NEW S, NEW s \in Seq(S), Distinct(s), NEW u \in S
    PROVE  LET f == MadeFirst(s, u)
           IN  /\ f \in Seq(S) /\ Distinct(f)
               /\ \A v : Holds(f, v) <=> v = u \/ Holds(s, v)
               /\ \A v, w : v # u => (Before(f, v, w) <=> w # u /\ Before(s, v, w))
               /\ \A w : Before(f, u, w) <=> w # u /\ Holds(s, w)
<1> DEFINE t == Unlinked(s, u)
           f == MadeFirst(s, u)
<1>1. /\ t \in Seq(S) /\ Distinct(t)
      /\ \A v : Holds(t, v) <=> v # u /\ Holds(s, v)
      /\ \A v, w : Before(t, v, w) <=> v # u /\ w # u /\ Before(s, v, w)
  BY UnlinkedList
<1>2. f = With(t, 1, u)
  BY DEF MadeFirst
<1> HIDE DEF t, f
<1>3. Len(t) \in Nat /\ 1 \in 1..Len(t) + 1
  BY <1>1, LenProperties
<1>4. /\ f \in Seq(S) /\ Len(f) = Len(t) + 1
      /\ \A j \in 1..Len(f) : f[j] = IF j = 1 THEN u ELSE t[j - 1]
  BY SMTT(30), <1>1, <1>2, <1>3, WithList
<1>5. /\ f[1] = u /\ 1 \in 1..Len(f)
      /\ \A j \in 1..Len(t) : f[j + 1] = t[j] /\ j + 1 \in 1..Len(f)
      /\ \A j \in 1..Len(f) : j # 1 => f[j] = t[j - 1] /\ j - 1 \in 1..Len(t)
  BY <1>3, <1>4
<1>6. \A j \in 1..Len(t) : t[j] # u
  BY <1>1 DEF Holds
<1>7. Distinct(f)
  <2> SUFFICES ASSUME NEW j \in 1..Len(f), NEW k \in 1..Len(f), j # k
               PROVE  f[j] # f[k]
    BY DEF Distinct
  <2>1. ASSUME NEW n \in 1..Len(f), n # 1
        PROVE  f[n] # u
    <3>1. f[n] = t[n - 1] /\ n - 1 \in 1..Len(t)
      BY <2>1, <1>5
    <3> QED BY <3>1, <1>6
  <2>2. CASE j # 1 /\ k # 1
    <3>1. j - 1 # k - 1
      BY <1>3, <1>4
    <3>2. f[j] = t[j - 1] /\ f[k] = t[k - 1] /\ j - 1 \in 1..Len(t) /\ k - 1 \in 1..Len(t)
      BY <2>2, <1>5
    <3> QED BY <3>1, <3>2, <1>1 DEF Distinct
  <2>3. CASE j = 1 \/ k = 1
    BY <2>1, <2>3, <1>5
  <2> QED BY <2>2, <2>3
<1>8. \A v : Holds(f, v) <=> v = u \/ Holds(t, v)
  <2> TAKE v
  <2>1. Holds(f, v) => v = u \/ Holds(t, v)
    BY <1>5 DEF Holds
  <2>2. v = u \/ Holds(t, v) => Holds(f, v)
    BY <1>5 DEF Holds
  <2> QED BY <2>1, <2>2
<1>9. \A v, w : v # u => (Before(f, v, w) <=> Before(t, v, w))
  <2> SUFFICES ASSUME NEW v, NEW w, v # u
               PROVE  Before(f, v, w) <=> Before(t, v, w)
    OBVIOUS
  <2>1. ASSUME Before(f, v, w) PROVE Before(t, v, w)
    <3>1. PICK j \in 1..Len(f), k \in 1..Len(f) : j < k /\ f[j] = v /\ f[k] = w
      BY <2>1 DEF Before
    <3>2. j # 1 /\ k # 1 /\ j - 1 < k - 1
      BY <3>1, <1>3, <1>4, <1>5
    <3> QED BY <3>1, <3>2, <1>5 DEF Before
  <2>2. ASSUME Before(t, v, w) PROVE Before(f, v, w)
    <3>1. PICK j \in 1..Len(t), k \in 1..Len(t) : j < k /\ t[j] = v /\ t[k] = w
      BY <2>2 DEF Before
    <3>2. j + 1 < k + 1
      BY <3>1, <1>3
    <3> QED BY <3>1, <3>2, <1>5 DEF Before
  <2> QED BY <2>1, <2>2
<1>10. \A w : Before(f, u, w) <=> Holds(t, w)
  <2> TAKE w
  <2>1. ASSUME Before(f, u, w) PROVE Holds(t, w)
    <3>1. PICK j \in 1..Len(f), k \in 1..Len(f) : j < k /\ f[k] = w
      BY <2>1 DEF Before
    <3>2. k # 1
      BY <3>1, <1>3, <1>4
    <3> QED BY <3>1, <3>2, <1>5 DEF Holds
  <2>2. ASSUME Holds(t, w) PROVE Before(f, u, w)
    <3>1. PICK j \in 1..Len(t) : t[j] = w
      BY <2>2 DEF Holds
    <3>2. 1 < j + 1
      BY <1>3
    <3> QED BY <3>1, <3>2, <1>5 DEF Before
  <2> QED BY <2>1, <2>2
<1>11. \A v, w : v # u => (Before(f, v, w) <=> w # u /\ Before(s, v, w))
  BY <1>1, <1>9
<1>12. \A w : Before(f, u, w) <=> w # u /\ Holds(s, w)
  BY <1>1, <1>10
<1>13. \A v : Holds(f, v) <=> v = u \/ Holds(s, v)
  BY <1>1, <1>8
<1> QED BY <1>4, <1>7, <1>11, <1>12, <1>13 DEF f

-----------------------------------------------------------------------------
\* The layout of the cache, as a property of a list of blocks and of the pointers
\* of their users, between the two stacks.

Blocks == [user : Users, at : 0..HunkSize, size : CacheSizes]

Sorted(c) == \A i, j \in 1..Len(c) : i < j =>
    End(c[i]) <= c[j].at /\ c[i].user # c[j].user

Inside(c, lo, hi) == \A i \in 1..Len(c) : lo <= c[i].at /\ End(c[i]) <= hi

Lead(c, d) ==
    /\ d \in [Users -> 0..HunkSize \cup {NULL}]
    /\ \A i \in 1..Len(c) : d[c[i].user] = c[i].at
    /\ \A u \in Users : d[u] # NULL => \E i \in 1..Len(c) : c[i].user = u

Layout(c, d, lo, hi) ==
    /\ c \in Seq(Blocks)
    /\ Sorted(c) /\ Inside(c, lo, hi) /\ Lead(c, d)

\* Every block holds what its user stored.
Hold(c, m) == \A i \in 1..Len(c) : \A k \in c[i].at..End(c[i]) - 1 : m[k] = c[i].user

\* What lies outside the edges lo and hi of the stacks is not touched.
StacksKept(m, f, lo, hi) ==
    /\ \A k \in 0..lo - 1 : f[k] = m[k]
    /\ \A k \in hi..HunkSize - 1 : f[k] = m[k]

LEMMA InBlocks ==
    ASSUME NEW c \in Seq(Blocks)
    PROVE  /\ Len(c) \in Nat
           /\ \A i \in 1..Len(c) :
                /\ c[i] \in Blocks /\ c[i].user \in Users
                /\ c[i].at \in 0..HunkSize /\ c[i].at \in Nat
                /\ c[i].size \in CacheSizes /\ c[i].size \in Nat \ {0}
                /\ End(c[i]) \in Nat /\ c[i].at < End(c[i])
                /\ End(c[i]) = c[i].at + c[i].size
<1>1. Len(c) \in Nat /\ \A i \in 1..Len(c) : c[i] \in Blocks
  BY LenProperties, ElementOfSeq
<1>2. \A b \in Blocks :
        /\ b.user \in Users /\ b.at \in 0..HunkSize /\ b.at \in Nat
        /\ b.size \in CacheSizes /\ b.size \in Nat \ {0}
  <2> TAKE b \in Blocks
  <2>1. b.user \in Users /\ b.at \in 0..HunkSize /\ b.size \in CacheSizes
    BY DEF Blocks
  <2>2. b.at \in Nat
    BY <2>1, SizeAssumption
  <2>3. b.size \in Nat \ {0}
    BY <2>1, SizeAssumption
  <2> QED BY <2>1, <2>2, <2>3
<1> QED BY <1>1, <1>2 DEF End

LEMMA NewBlock ==
    ASSUME NEW u \in Users, NEW at \in 0..HunkSize, NEW size \in CacheSizes
    PROVE  /\ Block(u, at, size) \in Blocks
           /\ Block(u, at, size).user = u /\ Block(u, at, size).at = at
           /\ Block(u, at, size).size = size /\ End(Block(u, at, size)) = at + size
BY DEF Block, Blocks, End

\* Two different blocks have different users and nothing in common.
LEMMA BlocksApart ==
    ASSUME NEW c \in Seq(Blocks), Sorted(c),
           NEW i \in 1..Len(c), NEW j \in 1..Len(c), i # j
    PROVE  /\ c[i].user # c[j].user
           /\ End(c[i]) <= c[j].at \/ End(c[j]) <= c[i].at
<1>1. Len(c) \in Nat
  BY InBlocks
<1>2. i < j \/ j < i
  BY <1>1
<1> QED BY <1>2 DEF Sorted

LEMMA SortedEnds ==
    ASSUME NEW c \in Seq(Blocks), Sorted(c),
           NEW i \in 1..Len(c), NEW j \in 1..Len(c), i <= j
    PROVE  c[i].at <= c[j].at /\ End(c[i]) <= End(c[j])
<1>1. CASE i = j
  BY <1>1, InBlocks
<1>2. CASE i # j
  <2>1. i < j
    BY <1>2, InBlocks
  <2>2. End(c[i]) <= c[j].at
    BY <2>1 DEF Sorted
  <2> QED BY <2>2, InBlocks
<1> QED BY <1>1, <1>2

-----------------------------------------------------------------------------
\* A block is taken out.
LEMMA FreedLayout ==
    ASSUME NEW c, NEW d, NEW lo, NEW hi, Layout(c, d, lo, hi), NEW i \in 1..Len(c)
    PROVE  /\ Layout(Without(c, i), [d EXCEPT ![c[i].user] = NULL], lo, hi)
           /\ \A j \in 1..Len(c) - 1 : \E k \in 1..Len(c) \ {i} : Without(c, i)[j] = c[k]
<1> DEFINE r == Without(c, i)
           u == c[i].user
           e == [d EXCEPT ![u] = NULL]
           old(j) == IF j < i THEN j ELSE j + 1
           new(j) == IF j < i THEN j ELSE j - 1
<1>1. /\ c \in Seq(Blocks) /\ Sorted(c) /\ Inside(c, lo, hi) /\ Lead(c, d)
      /\ Len(c) \in Nat /\ u \in Users
  BY InBlocks DEF Layout
<1>2. /\ r \in Seq(Blocks) /\ Len(r) = Len(c) - 1
      /\ \A j \in 1..Len(r) : r[j] = c[old(j)]
  BY <1>1, WithoutList
<1> HIDE DEF r, u
<1>3. /\ \A j \in 1..Len(r) : old(j) \in 1..Len(c) /\ old(j) # i
      /\ \A j, k \in 1..Len(r) : j < k => old(j) < old(k)
      /\ \A j \in 1..Len(c) : j # i => new(j) \in 1..Len(r) /\ old(new(j)) = j
  BY <1>1, <1>2
<1> HIDE DEF old, new
<1>4. Sorted(r) /\ Inside(r, lo, hi)
  BY <1>1, <1>2, <1>3 DEF Sorted, Inside
<1>5. \A j \in 1..Len(c) : j # i => c[j].user # u
  BY <1>1, BlocksApart DEF u
<1>6. e \in [Users -> 0..HunkSize \cup {NULL}] /\ \A v \in Users : e[v] = IF v = u THEN NULL ELSE d[v]
  BY <1>1 DEF Lead
<1> HIDE DEF e
<1>7. \A j \in 1..Len(r) : r[j].user # u /\ r[j].user \in Users
  BY <1>1, <1>2, <1>3, <1>5, InBlocks
<1>8. \A j \in 1..Len(r) : e[r[j].user] = r[j].at
  BY <1>1, <1>2, <1>3, <1>6, <1>7 DEF Lead
<1>9. ASSUME NEW v \in Users, e[v] # NULL
      PROVE  \E j \in 1..Len(r) : r[j].user = v
  <2>1. v # u /\ d[v] # NULL
    BY <1>6, <1>9
  <2>2. PICK j \in 1..Len(c) : c[j].user = v
    BY <1>1, <2>1 DEF Lead
  <2>3. j # i
    BY <2>1, <2>2 DEF u
  <2> QED BY <1>2, <1>3, <2>2, <2>3
<1>10. Layout(r, e, lo, hi)
  BY <1>2, <1>4, <1>6, <1>8, <1>9 DEF Layout, Lead
<1>11. \A j \in 1..Len(c) - 1 : \E k \in 1..Len(c) \ {i} : r[j] = c[k]
  BY <1>2, <1>3
<1> QED BY <1>10, <1>11 DEF r, e, u

\* Whose contents it held is free; nobody else's changed.
LEMMA FreedHold ==
    ASSUME NEW c, NEW d, NEW lo \in Int, NEW hi \in Int, Layout(c, d, lo, hi),
           0 <= lo, hi <= HunkSize, NEW i \in 1..Len(c), NEW m, Hold(c, m)
    PROVE  LET f == Fill(m, c[i].at, End(c[i]), "free")
           IN  Hold(Without(c, i), f) /\ StacksKept(m, f, lo, hi)
<1> DEFINE f == Fill(m, c[i].at, End(c[i]), "free")
           r == Without(c, i)
<1>1. /\ c \in Seq(Blocks) /\ Sorted(c) /\ Inside(c, lo, hi) /\ Len(c) \in Nat
      /\ HunkSize \in Nat
  BY InBlocks, SizeAssumption DEF Layout
<1>2. \A k \in 0..HunkSize - 1 : k \notin c[i].at..End(c[i]) - 1 => f[k] = m[k]
  BY DEF Fill
<1>3. lo <= c[i].at /\ End(c[i]) <= hi /\ c[i].at \in Nat /\ End(c[i]) \in Nat
  BY <1>1, InBlocks DEF Inside
<1>4. \A k \in 0..lo - 1 : f[k] = m[k]
  <2> SUFFICES ASSUME NEW k \in 0..lo - 1 PROVE f[k] = m[k]
    OBVIOUS
  <2>1. k \in 0..HunkSize - 1 /\ k \notin c[i].at..End(c[i]) - 1
    BY <1>1, <1>3, InBlocks
  <2> QED BY <1>2, <2>1
<1>5. \A k \in hi..HunkSize - 1 : f[k] = m[k]
  <2> SUFFICES ASSUME NEW k \in hi..HunkSize - 1 PROVE f[k] = m[k]
    OBVIOUS
  <2>1. k \in 0..HunkSize - 1 /\ k \notin c[i].at..End(c[i]) - 1
    BY <1>1, <1>3
  <2> QED BY <1>2, <2>1
<1>6. ASSUME NEW j \in 1..Len(c), j # i, NEW k \in c[j].at..End(c[j]) - 1
      PROVE  f[k] = c[j].user
  <2>1. End(c[i]) <= c[j].at \/ End(c[j]) <= c[i].at
    BY <1>1, <1>6, BlocksApart
  <2>2. c[j].at \in Nat /\ End(c[j]) \in Nat /\ lo <= c[j].at /\ End(c[j]) <= hi
    BY <1>1, InBlocks DEF Inside
  <2>3. k \in 0..HunkSize - 1 /\ k \notin c[i].at..End(c[i]) - 1
    BY <1>1, <1>3, <2>1, <2>2
  <2> QED BY <1>2, <2>3 DEF Hold
<1>7. Len(r) = Len(c) - 1 /\ \A j \in 1..Len(c) - 1 : \E k \in 1..Len(c) \ {i} : r[j] = c[k]
  BY <1>1, FreedLayout, WithoutList
<1> HIDE DEF f, r
<1>8. Hold(r, f)
  BY <1>6, <1>7 DEF Hold
<1> QED BY <1>4, <1>5, <1>8 DEF f, r, StacksKept

-----------------------------------------------------------------------------
\* A block is put into a place: b lies between the blocks around place i.
Fits(c, i, b, lo, hi) ==
    /\ i \in 1..Len(c) + 1 /\ b \in Blocks
    /\ lo <= b.at /\ End(b) <= hi
    /\ i # 1 => End(c[i - 1]) <= b.at
    /\ i # Len(c) + 1 => End(b) <= c[i].at

LEMMA FitsBetween ==
    ASSUME NEW c \in Seq(Blocks), Sorted(c), NEW i, NEW b, NEW lo, NEW hi,
           Fits(c, i, b, lo, hi), NEW j \in 1..Len(c)
    PROVE  /\ b.at \in Nat /\ End(b) \in Nat /\ b.at < End(b) /\ End(b) = b.at + b.size
           /\ b.user \in Users
           /\ j < i => End(c[j]) <= b.at
           /\ i <= j => End(b) <= c[j].at
<1>1. /\ b.at \in Nat /\ End(b) \in Nat /\ b.at < End(b) /\ End(b) = b.at + b.size
      /\ b.user \in Users
  <2>1. b.user \in Users /\ b.at \in 0..HunkSize /\ b.size \in CacheSizes
    BY DEF Fits, Blocks
  <2>2. b.at \in Nat
    BY <2>1, SizeAssumption
  <2>3. b.size \in Nat \ {0}
    BY <2>1, SizeAssumption
  <2> QED BY <2>1, <2>2, <2>3 DEF End
<1>2. Len(c) \in Nat /\ i \in 1..Len(c) + 1
  BY InBlocks DEF Fits
<1>3. ASSUME j < i PROVE End(c[j]) <= b.at
  <2>1. i # 1 /\ i - 1 \in 1..Len(c) /\ j <= i - 1
    BY <1>2, <1>3
  <2>2. End(c[j]) <= End(c[i - 1]) /\ End(c[i - 1]) <= b.at
    BY <2>1, SortedEnds DEF Fits
  <2> QED BY <1>1, <2>1, <2>2, InBlocks
<1>4. ASSUME i <= j PROVE End(b) <= c[j].at
  <2>1. i # Len(c) + 1 /\ i \in 1..Len(c)
    BY <1>2, <1>4
  <2>2. End(b) <= c[i].at /\ c[i].at <= c[j].at
    BY <1>4, <2>1, SortedEnds DEF Fits
  <2> QED BY <1>1, <2>1, <2>2, InBlocks
<1> QED BY <1>1, <1>3, <1>4

\* The contents of b were stored into m, and nothing else has changed.
Stored(m, f, b) ==
    \A k \in 0..HunkSize - 1 :
        IF k \in b.at..End(b) - 1 THEN f[k] = b.user ELSE f[k] = m[k]

LEMMA StoredOutside ==
    ASSUME NEW lo \in Nat, NEW hi \in Nat, hi <= HunkSize, NEW b,
           b.at \in Nat, End(b) \in Nat, b.at < End(b), lo <= b.at, End(b) <= hi,
           NEW m, NEW f, Stored(m, f, b)
    PROVE  StacksKept(m, f, lo, hi)
<1>1. HunkSize \in Nat
  BY SizeAssumption
<1>2. ASSUME NEW k \in 0..lo - 1 PROVE f[k] = m[k]
  <2>1. k \in 0..HunkSize - 1 /\ k \notin b.at..End(b) - 1
    BY <1>1
  <2> QED BY <2>1 DEF Stored
<1>3. ASSUME NEW k \in hi..HunkSize - 1 PROVE f[k] = m[k]
  <2>1. k \in 0..HunkSize - 1 /\ k \notin b.at..End(b) - 1
    BY <1>1
  <2> QED BY <2>1 DEF Stored
<1> QED BY <1>2, <1>3 DEF StacksKept

\* Cache_Alloc: a new block for a user that had none.
LEMMA LinkedLayout ==
    ASSUME NEW c, NEW d, NEW lo \in Nat, NEW hi \in Nat, hi <= HunkSize,
           Layout(c, d, lo, hi), NEW i, NEW b, Fits(c, i, b, lo, hi), d[b.user] = NULL
    PROVE  Layout(With(c, i, b), [d EXCEPT ![b.user] = b.at], lo, hi)
<1> DEFINE r == With(c, i, b)
           e == [d EXCEPT ![b.user] = b.at]
           old(j) == IF j < i THEN j ELSE j - 1
           new(j) == IF j < i THEN j ELSE j + 1
<1>1. /\ c \in Seq(Blocks) /\ Sorted(c) /\ Inside(c, lo, hi) /\ Lead(c, d)
      /\ Len(c) \in Nat /\ i \in 1..Len(c) + 1 /\ b \in Blocks
      /\ lo <= b.at /\ End(b) <= hi
  BY InBlocks DEF Layout, Fits
<1>2. /\ b.user \in Users /\ b.at \in 0..HunkSize
  BY <1>1 DEF Blocks
<1>3. /\ r \in Seq(Blocks) /\ Len(r) = Len(c) + 1 /\ r[i] = b
      /\ \A j \in 1..Len(r) : j # i => r[j] = c[old(j)]
  <2>1. /\ r \in Seq(Blocks) /\ Len(r) = Len(c) + 1
        /\ \A j \in 1..Len(c) + 1 :
                /\ j < i => r[j] = c[j]
                /\ j = i => r[j] = b
                /\ i < j => r[j] = c[j - 1]
    BY <1>1, WithList
  <2> HIDE DEF r
  <2> QED BY <1>1, <2>1
<1> HIDE DEF r
<1>4. /\ i \in 1..Len(r)
      /\ \A j \in 1..Len(r) : j # i => old(j) \in 1..Len(c)
      /\ \A j \in 1..Len(r) : j < i => old(j) < i
      /\ \A j \in 1..Len(r) : i < j => i <= old(j)
      /\ \A j, k \in 1..Len(r) : j # i /\ k # i /\ j < k => old(j) < old(k)
      /\ \A j \in 1..Len(c) : new(j) \in 1..Len(r) /\ new(j) # i /\ old(new(j)) = j
  BY <1>1, <1>3
<1> HIDE DEF old, new
<1>5. \A j \in 1..Len(c) : c[j].user # b.user
  <2>1. \A j \in 1..Len(c) : d[c[j].user] = c[j].at /\ c[j].at # NULL
    BY <1>1, InBlocks DEF Lead, NULL
  <2> QED BY <2>1
<1>6. Sorted(r)
  <2> SUFFICES ASSUME NEW j \in 1..Len(r), NEW k \in 1..Len(r), j < k
               PROVE  End(r[j]) <= r[k].at /\ r[j].user # r[k].user
    BY DEF Sorted
  <2>1. CASE j # i /\ k # i
    <3>1. /\ old(j) \in 1..Len(c) /\ old(k) \in 1..Len(c) /\ old(j) < old(k)
          /\ r[j] = c[old(j)] /\ r[k] = c[old(k)]
      BY <1>3, <1>4, <2>1
    <3> QED BY <1>1, <3>1 DEF Sorted
  <2>2. CASE k = i
    <3>1. /\ j # i /\ j < i
      BY <2>2, <1>1, <1>3
    <3>2. old(j) \in 1..Len(c) /\ old(j) < i /\ r[j] = c[old(j)] /\ r[k] = b
      BY <3>1, <2>2, <1>3, <1>4
    <3> QED BY <1>1, <1>5, <3>2, FitsBetween
  <2>3. CASE j = i
    <3>1. /\ k # i /\ i < k
      BY <2>3, <1>1, <1>3
    <3>2. old(k) \in 1..Len(c) /\ i <= old(k) /\ r[k] = c[old(k)] /\ r[j] = b
      BY <3>1, <2>3, <1>3, <1>4
    <3> QED BY <1>1, <1>5, <3>2, FitsBetween
  <2> QED BY <2>1, <2>2, <2>3
<1>7. Inside(r, lo, hi)
  BY <1>1, <1>3, <1>4 DEF Inside
<1>8. /\ e \in [Users -> 0..HunkSize \cup {NULL}]
      /\ \A v \in Users : e[v] = IF v = b.user THEN b.at ELSE d[v]
  BY <1>1, <1>2 DEF Lead
<1> HIDE DEF e
<1>9. ASSUME NEW j \in 1..Len(r) PROVE e[r[j].user] = r[j].at
  <2>1. CASE j = i
    BY <2>1, <1>2, <1>3, <1>8
  <2>2. CASE j # i
    <3>1. old(j) \in 1..Len(c) /\ r[j] = c[old(j)] /\ r[j].user # b.user /\ r[j].user \in Users
      BY <2>2, <1>1, <1>3, <1>4, <1>5, InBlocks
    <3> QED BY <3>1, <1>1, <1>8 DEF Lead
  <2> QED BY <2>1, <2>2
<1>10. ASSUME NEW v \in Users, e[v] # NULL
       PROVE  \E j \in 1..Len(r) : r[j].user = v
  <2>1. CASE v = b.user
    BY <2>1, <1>3, <1>4
  <2>2. CASE v # b.user
    <3>1. PICK j \in 1..Len(c) : c[j].user = v
      BY <2>2, <1>1, <1>8, <1>10 DEF Lead
    <3>2. new(j) \in 1..Len(r) /\ r[new(j)] = c[j]
      BY <1>3, <1>4
    <3> QED BY <3>1, <3>2
  <2> QED BY <2>1, <2>2
<1>11. Lead(r, e)
  BY <1>8, <1>9, <1>10 DEF Lead
<1> QED BY <1>3, <1>6, <1>7, <1>11 DEF Layout, r, e

LEMMA LinkedHold ==
    ASSUME NEW c, NEW d, NEW lo \in Nat, NEW hi \in Nat, hi <= HunkSize,
           Layout(c, d, lo, hi), NEW i, NEW b, Fits(c, i, b, lo, hi),
           NEW m, Hold(c, m), NEW f, Stored(m, f, b)
    PROVE  Hold(With(c, i, b), f) /\ StacksKept(m, f, lo, hi)
<1> DEFINE r == With(c, i, b)
           old(j) == IF j < i THEN j ELSE j - 1
<1>1. /\ c \in Seq(Blocks) /\ Sorted(c) /\ Inside(c, lo, hi)
      /\ Len(c) \in Nat /\ i \in 1..Len(c) + 1 /\ b \in Blocks
      /\ lo <= b.at /\ End(b) <= hi /\ HunkSize \in Nat
  BY InBlocks, SizeAssumption DEF Layout, Fits
<1>2. b.at \in Nat /\ End(b) \in Nat /\ b.at < End(b)
  <2>1. b.at \in Nat /\ b.size \in CacheSizes
    BY <1>1, SizeAssumption DEF Blocks
  <2>2. b.size \in Nat \ {0}
    BY <2>1, SizeAssumption
  <2> QED BY <2>1, <2>2 DEF End
<1>3. /\ Len(r) = Len(c) + 1 /\ r[i] = b
      /\ \A j \in 1..Len(r) : j # i => r[j] = c[old(j)] /\ old(j) \in 1..Len(c)
  <2>1. c \in Seq(Blocks) /\ i \in 1..Len(c) + 1 /\ b \in Blocks
    BY <1>1
  <2>2. Len(r) = Len(c) + 1
    BY <2>1, WithList
  <2>3. ASSUME NEW j \in 1..Len(c) + 1
        PROVE  /\ j < i => r[j] = c[j]
               /\ j = i => r[j] = b
               /\ i < j => r[j] = c[j - 1]
    BY <2>1, WithList
  <2> HIDE DEF r
  <2> QED BY <1>1, <2>2, <2>3
<1> HIDE DEF r, old
<1>4. \A k \in b.at..End(b) - 1 : f[k] = b.user
  BY <1>1, <1>2 DEF Stored
<1>5. ASSUME NEW j \in 1..Len(c), NEW k \in c[j].at..End(c[j]) - 1
      PROVE  f[k] = c[j].user
  <2>1. End(b) <= c[j].at \/ End(c[j]) <= b.at
    <3>1. j < i \/ i <= j
      BY <1>1
    <3> QED BY <3>1, <1>1, FitsBetween
  <2>2. c[j].at \in Nat /\ End(c[j]) \in Nat /\ End(c[j]) <= hi
    BY <1>1, InBlocks DEF Inside
  <2>3. k \in c[j].at..End(c[j]) - 1 /\ b.at \in Nat /\ End(b) \in Nat /\ hi \in Nat
        /\ hi <= HunkSize /\ HunkSize \in Nat
    BY <1>1, <1>2
  <2>4. k \in 0..HunkSize - 1 /\ k \notin b.at..End(b) - 1
    BY SMTT(30), <2>1, <2>2, <2>3
  <2> QED BY <2>4 DEF Stored, Hold
<1>6. Hold(r, f)
  BY <1>3, <1>4, <1>5 DEF Hold
<1>7. StacksKept(m, f, lo, hi)
  <2>1. /\ b.at \in Nat /\ End(b) \in Nat /\ b.at < End(b)
        /\ lo <= b.at /\ End(b) <= hi
    BY <1>1, <1>2
  <2> QED BY <2>1, StoredOutside
<1> QED BY <1>6, <1>7 DEF r

-----------------------------------------------------------------------------
\* Cache_Move links the copy before it frees the block.  The list is the same as
\* if it had freed the block first.
After(i, place) == IF place <= i THEN place ELSE place - 1

LEMMA MovedList ==
    ASSUME NEW S, NEW c \in Seq(S), NEW i \in 1..Len(c), NEW place \in 1..Len(c) + 1,
           NEW b \in S
    PROVE  /\ After(i, place) \in 1..Len(Without(c, i)) + 1
           /\ Without(With(c, place, b), IF place <= i THEN i + 1 ELSE i)
                = With(Without(c, i), After(i, place), b)
<1> DEFINE w == With(c, place, b)
           v == Without(c, i)
           old == IF place <= i THEN i + 1 ELSE i
           p == After(i, place)
           y == Without(w, old)
           z == With(v, p, b)
<1>1. Len(c) \in Nat
  BY LenProperties
<1>2. /\ w \in Seq(S) /\ Len(w) = Len(c) + 1
      /\ \A j \in 1..Len(c) + 1 :
            /\ j < place => w[j] = c[j]
            /\ j = place => w[j] = b
            /\ place < j => w[j] = c[j - 1]
  <2>1. w \in Seq(S) /\ Len(w) = Len(c) + 1
    BY WithList
  <2>2. ASSUME NEW j \in 1..Len(c) + 1
        PROVE  /\ j < place => w[j] = c[j]
               /\ j = place => w[j] = b
               /\ place < j => w[j] = c[j - 1]
    BY WithList
  <2> HIDE DEF w
  <2> QED BY <2>1, <2>2
<1>3. /\ v \in Seq(S) /\ Len(v) = Len(c) - 1
      /\ \A j \in 1..Len(c) - 1 : v[j] = IF j < i THEN c[j] ELSE c[j + 1]
  BY WithoutList
<1> HIDE DEF w, v
<1>4. old \in 1..Len(w) /\ p \in 1..Len(v) + 1
  BY <1>1, <1>2, <1>3 DEF After
<1> HIDE DEF old, p
<1>5. /\ y \in Seq(S) /\ Len(y) = Len(c)
      /\ \A j \in 1..Len(c) : y[j] = IF j < old THEN w[j] ELSE w[j + 1]
  <2>1. /\ y \in Seq(S) /\ Len(y) = Len(w) - 1
        /\ \A j \in 1..Len(w) - 1 : y[j] = IF j < old THEN w[j] ELSE w[j + 1]
    BY <1>2, <1>4, WithoutList
  <2> HIDE DEF y
  <2>2. Len(w) - 1 = Len(c)
    BY <1>1, <1>2
  <2> QED BY <2>1, <2>2
<1>6. /\ z \in Seq(S) /\ Len(z) = Len(c)
      /\ \A j \in 1..Len(c) :
                /\ j < p => z[j] = v[j]
                /\ j = p => z[j] = b
                /\ p < j => z[j] = v[j - 1]
  <2>1. /\ z \in Seq(S) /\ Len(z) = Len(v) + 1
        /\ \A j \in 1..Len(v) + 1 :
                /\ j < p => z[j] = v[j]
                /\ j = p => z[j] = b
                /\ p < j => z[j] = v[j - 1]
    <3> HIDE DEF y
    <3>1. v \in Seq(S) /\ p \in 1..Len(v) + 1 /\ b \in S
      BY <1>3, <1>4
    <3>2. z \in Seq(S)
      BY <3>1, WithList
    <3>3. Len(z) = Len(v) + 1
      BY <3>1, WithList
    <3>4. \A j \in 1..Len(v) + 1 :
            z[j] = IF j < p THEN v[j] ELSE IF j = p THEN b ELSE v[j - 1]
      BY DEF With
    <3>5. p \in Int
      BY <3>1
    <3> HIDE DEF z
    <3> QED BY <3>2, <3>3, <3>4, <3>5
  <2> HIDE DEF z
  <2>2. Len(v) + 1 = Len(c)
    BY <1>1, <1>3
  <2> QED BY <2>1, <2>2
<1> HIDE DEF y, z
<1>7. ASSUME NEW j \in 1..Len(c) PROVE y[j] = z[j]
  <2>1. CASE place <= i
    <3>1. old = i + 1 /\ p = place
      BY <2>1 DEF old, p, After
    <3>2. CASE j < place
      <4>1. y[j] = w[j] /\ w[j] = c[j]
        BY <3>1, <3>2, <2>1, <1>1, <1>2, <1>5
      <4>2. j < p /\ j \in 1..Len(c) - 1
        BY <3>1, <3>2, <2>1, <1>1
      <4>3. z[j] = v[j] /\ v[j] = c[j]
        BY <4>2, <3>2, <2>1, <1>3, <1>6
      <4> QED BY <4>1, <4>3
    <3>3. CASE j = place
      BY <3>1, <3>3, <2>1, <1>1, <1>2, <1>3, <1>5, <1>6
    <3>4. CASE place < j /\ j <= i
      BY <3>1, <3>4, <2>1, <1>1, <1>2, <1>3, <1>5, <1>6
    <3>5. CASE i < j
      <4>1. y[j] = w[j + 1] /\ w[j + 1] = c[j]
        BY <3>1, <3>5, <2>1, <1>1, <1>2, <1>5
      <4>2. z[j] = v[j - 1] /\ v[j - 1] = c[j]
        BY <3>1, <3>5, <2>1, <1>1, <1>3, <1>6
      <4> QED BY <4>1, <4>2
    <3> QED BY <3>2, <3>3, <3>4, <3>5, <1>1
  <2>2. CASE i < place
    <3>1. old = i /\ p = place - 1
      BY <2>2, <1>1 DEF old, p, After
    <3>2. CASE j < i
      <4>1. y[j] = w[j] /\ w[j] = c[j]
        BY <3>1, <3>2, <2>2, <1>1, <1>2, <1>5
      <4>2. j < p /\ j \in 1..Len(c) - 1
        BY <3>1, <3>2, <2>2, <1>1
      <4>3. z[j] = v[j] /\ v[j] = c[j]
        BY <4>2, <3>2, <1>3, <1>6
      <4> QED BY <4>1, <4>3
    <3>3. CASE i <= j /\ j < place - 1
      <4>1. y[j] = w[j + 1] /\ w[j + 1] = c[j + 1]
        BY <3>1, <3>3, <2>2, <1>1, <1>2, <1>5
      <4>2. z[j] = v[j] /\ v[j] = c[j + 1]
        BY SMTT(30), <3>1, <3>3, <2>2, <1>1, <1>3, <1>6
      <4> QED BY <4>1, <4>2
    <3>4. CASE j = place - 1
      <4>1. y[j] = w[j + 1] /\ w[j + 1] = b
        BY <3>1, <3>4, <2>2, <1>1, <1>2, <1>5
      <4>2. z[j] = b
        BY <3>1, <3>4, <1>6
      <4> QED BY <4>1, <4>2
    <3>5. CASE place <= j
      <4>1. y[j] = w[j + 1]
        BY <3>1, <3>5, <2>2, <1>1, <1>5
      <4>2. j + 1 \in 1..Len(c) + 1 /\ place < j + 1
        BY <3>5, <1>1
      <4>3. w[j + 1] = c[j]
        BY <4>2, <1>1, <1>2
      <4>4. p < j /\ j - 1 \in 1..Len(c) - 1 /\ i <= j - 1 /\ j - 1 + 1 = j
        BY <3>1, <3>5, <2>2, <1>1
      <4>5. z[j] = v[j - 1] /\ v[j - 1] = c[j]
        BY <4>4, <1>1, <1>3, <1>6
      <4> QED BY <4>1, <4>3, <4>5
    <3> QED BY <3>2, <3>3, <3>4, <3>5, <1>1
  <2> QED BY <2>1, <2>2, <1>1
<1>8. y = z
  BY <1>5, <1>6, <1>7, SeqEqual
<1> QED BY <1>4, <1>8 DEF y, z, w, v, old, p

\* The copy fits where the free place was, the block being gone.
LEMMA MovedFits ==
    ASSUME NEW c, NEW d, NEW lo \in Nat, NEW hi \in Nat, hi <= HunkSize,
           Layout(c, d, lo, hi), NEW i \in 1..Len(c),
           NEW place \in 2..Len(c) + 1, NEW b \in Blocks,
           b.at = End(c[place - 1]),
           End(b) <= hi, place # Len(c) + 1 => End(b) <= c[place].at
    PROVE  Fits(Without(c, i), After(i, place), b, lo, hi)
<1> DEFINE x == Without(c, i)
           p == After(i, place)
<1>1. /\ c \in Seq(Blocks) /\ Sorted(c) /\ Inside(c, lo, hi) /\ Len(c) \in Nat
  BY InBlocks DEF Layout
<1>2. p \in 1..Len(x) + 1
  BY <1>1, MovedList
<1>3. /\ Len(x) = Len(c) - 1
      /\ \A j \in 1..Len(c) - 1 : x[j] = IF j < i THEN c[j] ELSE c[j + 1]
  BY <1>1, WithoutList
<1> HIDE DEF x
<1>4. place - 1 \in 1..Len(c)
  BY <1>1
<1>5. lo <= b.at
  <2>1. /\ lo <= c[place - 1].at /\ c[place - 1].at < b.at
        /\ c[place - 1].at \in Nat /\ b.at \in Nat
    BY <1>1, <1>4, InBlocks DEF Inside
  <2> QED BY <2>1
<1>6. ASSUME p # 1 PROVE End(x[p - 1]) <= b.at
  <2>1. \E j \in 1..Len(c) : x[p - 1] = c[j] /\ j <= place - 1
    <3>1. CASE place <= i
      <4>1. p = place
        BY <3>1 DEF After
      <4>2. x[p - 1] = c[place - 1]
        BY <3>1, <4>1, <1>1, <1>3, <1>4
      <4> QED BY <4>2, <1>4
    <3>2. CASE i < place
      <4>1. p = place - 1
        BY <3>2, <1>1 DEF After
      <4>2. p - 1 \in 1..Len(c) - 1
        BY <1>2, <1>3, <1>6, <1>1
      <4>3. x[p - 1] = c[p - 1] \/ x[p - 1] = c[place - 1]
        BY <4>1, <4>2, <1>3
      <4>4. p - 1 \in 1..Len(c) /\ p - 1 <= place - 1
        BY <4>1, <4>2, <1>1
      <4> QED BY <4>3, <4>4, <1>4
    <3> QED BY <3>1, <3>2, <1>1
  <2> QED BY <2>1, <1>1, <1>4, SortedEnds
<1>7. ASSUME p # Len(x) + 1 PROVE End(b) <= x[p].at
  <2>1. p \in 1..Len(c) - 1
    BY <1>1, <1>2, <1>3, <1>7
  <2>2. \E j \in 1..Len(c) : x[p] = c[j] /\ place <= j
    <3>1. CASE place <= i
      <4>1. p = place
        BY <3>1 DEF After
      <4> QED BY <4>1, <2>1, <1>1, <1>3
    <3>2. CASE i < place
      <4>1. p = place - 1
        BY <3>2, <1>1 DEF After
      <4>2. x[p] = c[place] /\ place \in 1..Len(c)
        BY <4>1, <2>1, <3>2, <1>1, <1>3
      <4> QED BY <4>2
    <3> QED BY <3>1, <3>2, <1>1
  <2>3. PICK j \in 1..Len(c) : x[p] = c[j] /\ place <= j
    BY <2>2
  <2>4. place \in 1..Len(c)
    BY <2>3, <1>1
  <2>5. End(b) <= c[place].at /\ c[place].at <= c[j].at
    BY <2>3, <2>4, <1>1, SortedEnds
  <2>6. /\ c[place].at \in Nat /\ c[j].at \in Nat /\ End(b) \in Int
    <3>1. b.at \in Nat /\ b.size \in CacheSizes
      BY SizeAssumption DEF Blocks
    <3>2. b.size \in Nat
      BY <3>1, SizeAssumption
    <3>3. End(b) \in Int
      BY <3>1, <3>2 DEF End
    <3> QED BY <3>3, <2>4, <1>1, InBlocks
  <2> QED BY SMTT(30), <2>3, <2>5, <2>6
<1> QED BY <1>2, <1>5, <1>6, <1>7 DEF Fits, x

-----------------------------------------------------------------------------
\* The place Cache_TryAlloc takes is one that fits.
LEMMA FirstIsOne ==
    ASSUME NEW places \in SUBSET Nat, places # {}
    PROVE  FirstOf(places) \in places
<1> DEFINE R == {ss \in Nat \X Nat : ss[1] < ss[2]}
<1>1. IsWellFoundedOn(R, Nat)
  BY NatLessThanWellFounded DEF OpToRel
<1> HIDE DEF R
<1>2. PICK i \in places : \A j \in places : ~(<<j, i>> \in R)
  BY <1>1, WFMin
<1>3. \A j \in places : j \in Nat /\ ~(j < i)
  BY <1>2 DEF R
<1>4. i \in Nat /\ \A j \in places : i <= j
  BY <1>3
<1> QED BY <1>4 DEF FirstOf

LEMMA TryAllocFits ==
    ASSUME cache \in Seq(Blocks), NEW size, NEW nobottom, Fitting(size, nobottom) # {}
    PROVE  /\ Cache_TryAlloc(size, nobottom) \in 1..Len(cache) + 1
           /\ Cache_TryAlloc(size, nobottom) \in Fitting(size, nobottom)
<1>1. Fitting(size, nobottom) \subseteq 1..Len(cache) + 1
  BY DEF Fitting
<1>2. Fitting(size, nobottom) \in SUBSET Nat
  BY <1>1, InBlocks
<1>3. Cache_TryAlloc(size, nobottom) \in Fitting(size, nobottom)
  BY <1>2, FirstIsOne DEF Cache_TryAlloc
<1> QED BY <1>1, <1>3

-----------------------------------------------------------------------------
\* The steps that change the cache, between edges lo and hi of the stacks.

LEMMA FreeStep ==
    ASSUME NEW lo \in Nat, NEW hi \in Nat, hi <= HunkSize, Layout(cache, data, lo, hi),
           NEW i \in 1..Len(cache), FreeBlock(i)
    PROVE  /\ Layout(cache', data', lo, hi)
           /\ Hold(cache, memory) => Hold(cache', memory') /\ StacksKept(memory, memory', lo, hi)
           /\ cache[i].user \in Users
           /\ \A v \in Users : data'[v] = IF v = cache[i].user THEN NULL ELSE data[v]
<1>1. /\ cache' = Without(cache, i)
      /\ data' = [data EXCEPT ![cache[i].user] = NULL]
      /\ memory' = Fill(memory, cache[i].at, End(cache[i]), "free")
  BY DEF FreeBlock
<1>2. Layout(cache', data', lo, hi)
  BY <1>1, FreedLayout
<1>3. Hold(cache, memory) => Hold(cache', memory') /\ StacksKept(memory, memory', lo, hi)
  BY <1>1, FreedHold DEF StacksKept
<1>4. cache[i].user \in Users
  BY InBlocks DEF Layout
<1>5. DOMAIN data = Users
  BY DEF Layout, Lead
<1> QED BY <1>1, <1>2, <1>3, <1>4, <1>5

LEMMA MoveStep ==
    ASSUME NEW lo \in Nat, NEW hi \in Nat, hi <= HunkSize, Layout(cache, data, lo, hi),
           NEW i \in 1..Len(cache), HunkTop <= hi, hunkHigh \in 0..HunkSize,
           Fitting(cache[i].size, TRUE) # {},
           MoveTo(i, Cache_TryAlloc(cache[i].size, TRUE))
    PROVE  /\ Layout(cache', data', lo, hi)
           /\ Hold(cache, memory) => Hold(cache', memory') /\ StacksKept(memory, memory', lo, hi)
           /\ cache[i].user \in Users
           /\ \A v \in Users : data'[v] # NULL <=> data[v] # NULL
<1> DEFINE place == Cache_TryAlloc(cache[i].size, TRUE)
           b == cache[i]
           copy == Block(b.user, PlaceStart(place), b.size)
           gone == Fill(memory, b.at, End(b), "free")
           c1 == Without(cache, i)
           d1 == [data EXCEPT ![b.user] = NULL]
           p1 == After(i, place)
<1>1. /\ cache \in Seq(Blocks) /\ Sorted(cache) /\ Inside(cache, lo, hi) /\ Lead(cache, data)
      /\ Len(cache) \in Nat
      /\ b \in Blocks /\ b.user \in Users /\ b.size \in CacheSizes /\ b.size \in Nat \ {0}
      /\ b.at \in Nat /\ End(b) = b.at + b.size
  BY InBlocks DEF Layout
<1>2. /\ place \in 1..Len(cache) + 1 /\ place \in Fitting(b.size, TRUE)
  BY <1>1, TryAllocFits
<1>3. /\ cache' = Without(With(cache, place, copy), IF place <= i THEN i + 1 ELSE i)
      /\ data' = [data EXCEPT ![b.user] = copy.at]
      /\ memory' = [k \in 0..HunkSize - 1 |->
                IF k \in copy.at..End(copy) - 1
                THEN memory[b.at + (k - copy.at)] ELSE gone[k]]
  <2> HIDE DEF place
  <2> QED BY DEF MoveTo, place
<1> HIDE DEF place
<1>4. place \in 2..Len(cache) + 1 /\ PlaceEnd(place) - PlaceStart(place) >= b.size
  BY <1>1, <1>2 DEF Fitting
<1>5. /\ PlaceStart(place) = End(cache[place - 1]) /\ place - 1 \in 1..Len(cache)
      /\ PlaceEnd(place) = IF place = Len(cache) + 1 THEN HunkTop ELSE cache[place].at
  BY <1>1, <1>4 DEF PlaceStart, PlaceEnd
<1>6. /\ End(cache[place - 1]) \in 0..HunkSize /\ HunkTop \in Int
      /\ PlaceStart(place) \in Int /\ PlaceEnd(place) \in Int
  <2>1. End(cache[place - 1]) \in Nat /\ End(cache[place - 1]) <= hi
    BY <1>1, <1>5, InBlocks DEF Inside
  <2>2. HunkSize \in Nat /\ HunkTop \in Int
    BY SizeAssumption DEF HunkTop
  <2>3. place # Len(cache) + 1 => cache[place].at \in Nat
    BY SMTT(30), <1>1, <1>4, InBlocks
  <2> QED BY <1>5, <2>1, <2>2, <2>3
<1>7. /\ copy \in Blocks /\ copy.user = b.user /\ copy.at = End(cache[place - 1])
      /\ copy.size = b.size /\ End(copy) = copy.at + b.size
      /\ copy.at \in Nat /\ End(copy) <= PlaceEnd(place)
  <2> DEFINE at == PlaceStart(place)
  <2>1. at \in 0..HunkSize /\ at \in Nat
    BY <1>5, <1>6
  <2> HIDE DEF b, at
  <2>2. /\ copy \in Blocks /\ copy.user = b.user /\ copy.at = at
        /\ copy.size = b.size /\ End(copy) = at + b.size
    BY <1>1, <2>1, NewBlock DEF at
  <2> HIDE DEF copy
  <2>3. at + b.size <= PlaceEnd(place)
    BY <1>1, <1>4, <1>6, <2>1 DEF at
  <2> QED BY <2>1, <2>2, <2>3, <1>5 DEF at
<1> HIDE DEF copy, b
<1>8. End(copy) <= hi /\ (place # Len(cache) + 1 => End(copy) <= cache[place].at)
  <2>1. CASE place = Len(cache) + 1
    BY <2>1, <1>1, <1>5, <1>6, <1>7
  <2>2. CASE place # Len(cache) + 1
    <3>1. place \in 1..Len(cache) /\ PlaceEnd(place) = cache[place].at
      BY <2>2, <1>1, <1>4, <1>5
    <3>2. /\ cache[place].at \in Nat /\ End(cache[place]) \in Nat
          /\ cache[place].at < End(cache[place]) /\ End(cache[place]) <= hi
      BY <3>1, <1>1, InBlocks DEF Inside
    <3>3. End(copy) \in Int
      BY <1>1, <1>7
    <3> QED BY <3>1, <3>2, <3>3, <1>7
  <2> QED BY <2>1, <2>2
<1>9. Fits(c1, p1, copy, lo, hi)
  BY <1>4, <1>7, <1>8, MovedFits
<1>10. Layout(c1, d1, lo, hi)
  BY FreedLayout DEF b
<1>11. /\ cache' = With(c1, p1, copy)
       /\ data' = [d1 EXCEPT ![copy.user] = copy.at]
       /\ d1[copy.user] = NULL
       /\ \A v \in Users : data'[v] = IF v = b.user THEN copy.at ELSE data[v]
  <2>1. cache' = With(c1, p1, copy)
    BY <1>1, <1>2, <1>3, <1>7, MovedList
  <2>2. DOMAIN data = Users
    BY <1>1 DEF Lead
  <2> QED BY <2>1, <2>2, <1>1, <1>3, <1>7
<1>12. Layout(cache', data', lo, hi)
  BY <1>9, <1>10, <1>11, LinkedLayout
<1>13. ASSUME Hold(cache, memory)
       PROVE  Hold(cache', memory') /\ StacksKept(memory, memory', lo, hi)
  <2>1. Hold(c1, gone) /\ StacksKept(memory, gone, lo, hi)
    BY <1>13, FreedHold DEF b, StacksKept
  <2>2. Stored(gone, memory', copy)
    <3> SUFFICES ASSUME NEW k \in 0..HunkSize - 1
                 PROVE  IF k \in copy.at..End(copy) - 1 THEN memory'[k] = copy.user
                                                      ELSE memory'[k] = gone[k]
      BY DEF Stored
    <3>1. CASE k \in copy.at..End(copy) - 1
      <4>1. b.at + (k - copy.at) \in b.at..End(b) - 1
        BY SMTT(30), <3>1, <1>1, <1>7
      <4>2. memory[b.at + (k - copy.at)] = b.user
        BY <4>1, <1>13 DEF Hold, b
      <4> QED BY <3>1, <4>2, <1>3, <1>7
    <3>2. CASE k \notin copy.at..End(copy) - 1
      BY <3>2, <1>3
    <3> QED BY <3>1, <3>2
  <2>3. Hold(cache', memory') /\ StacksKept(gone, memory', lo, hi)
    <3> HIDE DEF gone, c1, d1, p1
    <3>1. Hold(With(c1, p1, copy), memory') /\ StacksKept(gone, memory', lo, hi)
      BY <1>9, <1>10, <2>1, <2>2, LinkedHold
    <3> QED BY <3>1, <1>11
  <2> QED BY <2>1, <2>3 DEF StacksKept
<1>14. \A v \in Users : data'[v] # NULL <=> data[v] # NULL
  <2>1. data[b.user] = b.at
    BY <1>1 DEF Lead, b
  <2>2. b.at # NULL /\ copy.at # NULL
    BY <1>1, <1>7 DEF NULL
  <2> QED BY <2>1, <2>2, <1>11
<1> QED BY <1>1, <1>12, <1>13, <1>14 DEF b

LEMMA CacheMoveStep ==
    ASSUME NEW lo \in Nat, NEW hi \in Nat, hi <= HunkSize, Layout(cache, data, lo, hi),
           NEW i \in 1..Len(cache), HunkTop <= hi, hunkHigh \in 0..HunkSize, Cache_Move(i)
    PROVE  /\ Layout(cache', data', lo, hi)
           /\ Hold(cache, memory) => Hold(cache', memory') /\ StacksKept(memory, memory', lo, hi)
<1>1. CASE Fitting(cache[i].size, TRUE) = {}
  BY <1>1, FreeStep DEF Cache_Move
<1>2. CASE Fitting(cache[i].size, TRUE) # {}
  BY <1>2, MoveStep DEF Cache_Move
<1> QED BY <1>1, <1>2

-----------------------------------------------------------------------------
\* The order of use.

UseLists ==
    /\ lru \in Seq(Users) /\ used \in Seq(Users) /\ moved \subseteq Users
    /\ ListsAgree

\* A user whose block is freed leaves both lists.
LEMMA FreedUse ==
    ASSUME UseLists, NEW u \in Users,
           lru' = Unlinked(lru, u), used' = Unlinked(used, u), moved' = moved \ {u},
           \A v \in Users : data'[v] = IF v = u THEN NULL ELSE data[v]
    PROVE  UseLists'
<1>1. /\ Distinct(lru) /\ Distinct(used)
      /\ \A v \in Users : (data[v] # NULL <=> Holds(lru, v)) /\ (data[v] # NULL <=> Holds(used, v))
  BY DEF UseLists, ListsAgree, HoldsCached, Distinct
<1>2. /\ lru' \in Seq(Users) /\ Distinct(lru')
      /\ \A v : Holds(lru', v) <=> v # u /\ Holds(lru, v)
      /\ \A v, w : Before(lru', v, w) <=> v # u /\ w # u /\ Before(lru, v, w)
  BY <1>1, UnlinkedList DEF UseLists
<1>3. /\ used' \in Seq(Users) /\ Distinct(used')
      /\ \A v : Holds(used', v) <=> v # u /\ Holds(used, v)
      /\ \A v, w : Before(used', v, w) <=> v # u /\ w # u /\ Before(used, v, w)
  BY <1>1, UnlinkedList DEF UseLists
<1>4. HoldsCached(lru)' /\ HoldsCached(used)'
  BY <1>1, <1>2, <1>3 DEF HoldsCached, Distinct
<1>5. \A v, w \in Users : Before(lru', v, w) /\ v \notin moved' => Before(used', v, w)
  BY <1>2, <1>3 DEF UseLists, ListsAgree
<1> QED BY <1>2, <1>3, <1>4, <1>5 DEF UseLists, ListsAgree

\* A block that is moved counts as just used.
LEMMA MovedUse ==
    ASSUME UseLists, NEW u \in Users, data[u] # NULL,
           lru' = MadeFirst(lru, u), used' = used, moved' = moved \cup {u},
           \A v \in Users : data'[v] # NULL <=> data[v] # NULL
    PROVE  UseLists'
<1>1. /\ Distinct(lru) /\ Distinct(used)
      /\ \A v \in Users : (data[v] # NULL <=> Holds(lru, v)) /\ (data[v] # NULL <=> Holds(used, v))
  BY DEF UseLists, ListsAgree, HoldsCached, Distinct
<1>2. /\ lru' \in Seq(Users) /\ Distinct(lru')
      /\ \A v : Holds(lru', v) <=> v = u \/ Holds(lru, v)
      /\ \A v, w : v # u => (Before(lru', v, w) <=> w # u /\ Before(lru, v, w))
  BY <1>1, MadeFirstList DEF UseLists
<1>3. HoldsCached(lru)' /\ HoldsCached(used)'
  BY <1>1, <1>2 DEF HoldsCached, Distinct
<1>4. \A v, w \in Users : Before(lru', v, w) /\ v \notin moved' => Before(used', v, w)
  BY <1>2 DEF UseLists, ListsAgree
<1>5. used' \in Seq(Users) /\ moved' \subseteq Users
  BY DEF UseLists
<1> QED BY <1>2, <1>3, <1>4, <1>5 DEF UseLists, ListsAgree

\* Its user asks for a block: he is first in both lists.
LEMMA AskedUse ==
    ASSUME UseLists, NEW u \in Users,
           lru' = MadeFirst(lru, u), used' = MadeFirst(used, u),
           moved' \subseteq moved, moved \ {u} \subseteq moved',
           \A v \in Users : data'[v] # NULL <=> v = u \/ data[v] # NULL
    PROVE  UseLists'
<1>1. /\ Distinct(lru) /\ Distinct(used)
      /\ \A v \in Users : (data[v] # NULL <=> Holds(lru, v)) /\ (data[v] # NULL <=> Holds(used, v))
  BY DEF UseLists, ListsAgree, HoldsCached, Distinct
<1>2. /\ lru' \in Seq(Users) /\ Distinct(lru')
      /\ \A v : Holds(lru', v) <=> v = u \/ Holds(lru, v)
      /\ \A v, w : v # u => (Before(lru', v, w) <=> w # u /\ Before(lru, v, w))
      /\ \A w : Before(lru', u, w) <=> w # u /\ Holds(lru, w)
  BY <1>1, MadeFirstList DEF UseLists
<1>3. /\ used' \in Seq(Users) /\ Distinct(used')
      /\ \A v : Holds(used', v) <=> v = u \/ Holds(used, v)
      /\ \A v, w : v # u => (Before(used', v, w) <=> w # u /\ Before(used, v, w))
      /\ \A w : Before(used', u, w) <=> w # u /\ Holds(used, w)
  BY <1>1, MadeFirstList DEF UseLists
<1>4. HoldsCached(lru)' /\ HoldsCached(used)'
  BY <1>1, <1>2, <1>3 DEF HoldsCached, Distinct
<1>5. ASSUME NEW v \in Users, NEW w \in Users, Before(lru', v, w), v \notin moved'
      PROVE  Before(used', v, w)
  <2>1. CASE v = u
    BY <2>1, <1>1, <1>2, <1>3, <1>5
  <2>2. CASE v # u
    <3>1. v \notin moved /\ w # u /\ Before(lru, v, w)
      BY <2>2, <1>2, <1>5
    <3> QED BY <3>1, <2>2, <1>3 DEF UseLists, ListsAgree
  <2> QED BY <2>1, <2>2
<1>6. moved' \subseteq Users
  BY DEF UseLists
<1> QED BY <1>2, <1>3, <1>4, <1>5, <1>6 DEF UseLists, ListsAgree

LEMMA SameUse ==
    ASSUME UseLists, UNCHANGED <<lru, data, uses>>
    PROVE  UseLists'
BY DEF UseLists, ListsAgree, HoldsCached, Holds, Before, uses

\* Cache_Free and Cache_Move of block i.
LEMMA FreeBlockUse ==
    ASSUME UseLists, NEW lo \in Nat, NEW hi \in Nat, hi <= HunkSize,
           Layout(cache, data, lo, hi), NEW i \in 1..Len(cache), FreeBlock(i)
    PROVE  UseLists'
<1>1. /\ cache[i].user \in Users
      /\ \A v \in Users : data'[v] = IF v = cache[i].user THEN NULL ELSE data[v]
  BY FreeStep
<1>2. /\ lru' = Unlinked(lru, cache[i].user) /\ used' = Unlinked(used, cache[i].user)
      /\ moved' = moved \ {cache[i].user}
  BY DEF FreeBlock
<1> QED BY <1>1, <1>2, FreedUse

LEMMA CacheMoveUse ==
    ASSUME UseLists, NEW lo \in Nat, NEW hi \in Nat, hi <= HunkSize,
           Layout(cache, data, lo, hi), NEW i \in 1..Len(cache),
           HunkTop <= hi, hunkHigh \in 0..HunkSize, Cache_Move(i)
    PROVE  UseLists'
<1> DEFINE u == cache[i].user
<1>1. CASE Fitting(cache[i].size, TRUE) = {}
  BY <1>1, FreeBlockUse DEF Cache_Move
<1>2. CASE Fitting(cache[i].size, TRUE) # {}
  <2>1. MoveTo(i, Cache_TryAlloc(cache[i].size, TRUE))
    BY <1>2 DEF Cache_Move
  <2>2. u \in Users /\ \A v \in Users : data'[v] # NULL <=> data[v] # NULL
    BY <1>2, <2>1, MoveStep
  <2>3. lru' = MadeFirst(lru, u) /\ moved' = moved \cup {u} /\ used' = used
    BY <2>1 DEF MoveTo
  <2>4. data[u] # NULL
    <3>1. data[u] = cache[i].at /\ cache \in Seq(Blocks)
      BY DEF Layout, Lead
    <3>2. cache[i].at \in Nat
      BY <3>1, InBlocks
    <3> QED BY <3>1, <3>2 DEF NULL
  <2> QED BY <2>2, <2>3, <2>4, MovedUse
<1> QED BY <1>1, <1>2

-----------------------------------------------------------------------------
\* The inductive invariant, cut into the stacks, the cache, the order of use and
\* the contents.

HunkInv == CacheInv /\ ListsAgree /\ Intact /\ ExitsOnlyWhenTooLarge

Stacks ==
    /\ hunkLow \in 0..HunkSize /\ hunkHigh \in 0..HunkSize
    /\ tempActive \in BOOLEAN /\ tempMark \in 0..HunkSize
    /\ call \in Calls
    /\ StacksApart

Cached ==
    /\ Layout(cache, data, LowEdge, HighEdge)
    /\ call.op = "alloc" => data[call.user] = NULL

StacksHold(m, lo, hi, active, mark) ==
    /\ \A k \in 0..lo - 1 : m[k] = "low"
    /\ \A k \in hi..HunkSize - 1 :
            m[k] = IF active /\ k < HunkSize - mark THEN "temp" ELSE "high"

Contents ==
    Hold(cache, memory) /\ StacksHold(memory, LowEdge, HighEdge, tempActive, tempMark)

Parts == Stacks /\ Cached /\ UseLists /\ Contents /\ ExitsOnlyWhenTooLarge

LEMMA InvParts == HunkInv <=> Parts
BY DEF HunkInv, CacheInv, TypeOK, Apart, Pointers, Intact, Parts, Stacks, Cached, Layout,
       Blocks, Sorted, Inside, Lead, UseLists, Contents, Hold, StacksHold

LEMMA InvPartsNext == HunkInv' <=> Parts'
BY DEF HunkInv, CacheInv, TypeOK, Apart, Pointers, Intact, Parts, Stacks, Cached, Layout,
       Blocks, Sorted, Inside, Lead, UseLists, Contents, Hold, StacksHold

LEMMA CallTypes ==
    ASSUME call \in Calls
    PROVE  /\ call.op \in {"none", "low", "high", "alloc", "exited"}
           /\ call.op = "low" => call.size \in HunkSizes /\ call.size \in Nat \ {0}
           /\ call.op = "high" =>
                /\ call \in [op : {"high"}, size : HunkSizes, owner : {"high", "temp"},
                             prev : 0..HunkSize \cup {NULL}]
                /\ call.size \in HunkSizes /\ call.size \in Nat \ {0}
                /\ call.owner \in {"high", "temp"}
           /\ call.op = "alloc" =>
                /\ call \in [op : {"alloc", "exited"}, user : Users, size : CacheSizes]
                /\ call.user \in Users /\ call.size \in CacheSizes /\ call.size \in Nat \ {0}
<1>1. HunkSizes \subseteq Nat \ {0} /\ CacheSizes \subseteq Nat \ {0}
  BY SizeAssumption
<1>2. CASE call = Idle
  BY <1>2 DEF Idle
<1>3. CASE call \in [op : {"exited"}]
  BY <1>3
<1>4. CASE call \in [op : {"low"}, size : HunkSizes]
  BY <1>1, <1>4
<1>5. CASE call \in [op : {"high"}, size : HunkSizes, owner : {"high", "temp"},
                     prev : 0..HunkSize \cup {NULL}]
  BY <1>1, <1>5
<1>6. CASE call \in [op : {"alloc", "exited"}, user : Users, size : CacheSizes]
  BY <1>1, <1>6
<1> QED BY <1>2, <1>3, <1>4, <1>5, <1>6 DEF Calls

LEMMA Edges ==
    ASSUME Stacks
    PROVE  /\ HunkSize \in Nat /\ hunkLow \in Nat /\ hunkHigh \in Nat /\ HunkTop \in Nat
           /\ LowEdge \in Nat /\ HighEdge \in Nat
           /\ LowEdge <= hunkLow /\ hunkLow <= HunkTop /\ HunkTop <= HighEdge
           /\ HighEdge <= HunkSize
           /\ call.op # "low" => LowEdge = hunkLow
           /\ call.op # "high" => HighEdge = HunkTop
<1>1. /\ HunkSize \in Nat /\ hunkLow \in Nat /\ hunkHigh \in Nat /\ HunkTop \in Nat
  BY SizeAssumption DEF Stacks, HunkTop
<1>2. /\ LowEdge \in Int /\ LowEdge <= hunkLow
      /\ call.op # "low" => LowEdge = hunkLow
  BY <1>1, CallTypes DEF Stacks, LowEdge
<1>3. /\ HighEdge \in Int /\ HunkTop <= HighEdge
      /\ call.op # "high" => HighEdge = HunkTop
  BY <1>1, CallTypes DEF Stacks, HighEdge
<1>4. LowEdge >= 0 /\ hunkLow <= HunkTop /\ HighEdge <= HunkSize
  BY DEF Stacks, StacksApart
<1> QED BY <1>1, <1>2, <1>3, <1>4

LEMMA EdgeTypes == Stacks => LowEdge \in Nat /\ HighEdge \in Nat
BY Edges

LEMMA EdgeTypesNext == Stacks' => (LowEdge \in Nat /\ HighEdge \in Nat)'
BY EdgeTypes, PTL

LEMMA IdleFacts ==
    ASSUME call = Idle
    PROVE  call.op = "none" /\ LowEdge = hunkLow /\ HighEdge = HunkTop
BY DEF Idle, LowEdge, HighEdge

\* The edges may move away from the blocks, and up to them.
LEMMA Widened ==
    ASSUME NEW c, NEW d, NEW lo \in Int, NEW hi \in Int, Layout(c, d, lo, hi),
           NEW lo2 \in Int, NEW hi2 \in Int,
           lo2 <= lo \/ \A i \in 1..Len(c) : lo2 <= c[i].at,
           hi <= hi2 \/ \A i \in 1..Len(c) : End(c[i]) <= hi2
    PROVE  Layout(c, d, lo2, hi2)
<1>1. \A i \in 1..Len(c) : c[i].at \in Nat /\ End(c[i]) \in Nat
  BY InBlocks DEF Layout
<1>2. Inside(c, lo2, hi2)
  BY <1>1 DEF Layout, Inside
<1> QED BY <1>2 DEF Layout

\* What is written outside the edges leaves the blocks as they are.
LEMMA FilledOutside ==
    ASSUME NEW c, NEW d, NEW lo \in Nat, NEW hi \in Nat, hi <= HunkSize,
           Layout(c, d, lo, hi), NEW m, Hold(c, m),
           NEW from \in Int, NEW to \in Int, NEW owner, to <= lo \/ hi <= from
    PROVE  Hold(c, Fill(m, from, to, owner))
<1> SUFFICES ASSUME NEW i \in 1..Len(c), NEW k \in c[i].at..End(c[i]) - 1
             PROVE  Fill(m, from, to, owner)[k] = c[i].user
  BY DEF Hold
<1>1. /\ c[i].at \in Nat /\ End(c[i]) \in Nat /\ lo <= c[i].at /\ End(c[i]) <= hi
  BY InBlocks DEF Layout, Inside
<1>2. HunkSize \in Nat
  BY SizeAssumption
<1>3. k \in 0..HunkSize - 1 /\ k \notin from..to - 1
  BY <1>1, <1>2
<1>4. m[k] = c[i].user
  BY DEF Hold
<1> QED BY <1>3, <1>4 DEF Fill

LEMMA KeptHold ==
    ASSUME NEW m, NEW f, NEW lo, NEW hi, NEW active, NEW mark,
           StacksKept(m, f, lo, hi), StacksHold(m, lo, hi, active, mark)
    PROVE  StacksHold(f, lo, hi, active, mark)
BY DEF StacksKept, StacksHold

\* A step that leaves the cache and the order of use alone.
LEMMA CacheSame ==
    ASSUME Parts, UNCHANGED <<cache, lru, data, uses>>, Stacks',
           LowEdge' <= LowEdge \/ \A i \in 1..Len(cache) : LowEdge' <= cache[i].at,
           HighEdge <= HighEdge' \/ \A i \in 1..Len(cache) : End(cache[i]) <= HighEdge'
    PROVE  UseLists' /\ Layout(cache', data', LowEdge', HighEdge')
<1>1. UseLists'
  BY SameUse DEF Parts, uses
<1>2. LowEdge \in Int /\ HighEdge \in Int
  BY Edges DEF Parts
<1>3. LowEdge' \in Int /\ HighEdge' \in Int
  BY EdgeTypesNext
<1> QED BY <1>1, <1>2, <1>3, Widened DEF Parts, Cached

-----------------------------------------------------------------------------
\* The low side of the hunk.

LEMMA AllocNameStep ==
    ASSUME Parts, NEW n \in HunkSizes, Hunk_AllocName(n)
    PROVE  Parts'
<1>1. /\ call.op = "none" /\ LowEdge = hunkLow /\ HighEdge = HunkTop /\ Stacks
      /\ n \in Nat \ {0}
  BY IdleFacts, SizeAssumption DEF Hunk_AllocName, Parts
<1>2. /\ HunkSize \in Nat /\ hunkLow \in Nat /\ hunkHigh \in Nat /\ HunkTop \in Nat
      /\ hunkLow <= HunkTop /\ HunkTop <= HunkSize
  BY <1>1, Edges
<1>3. /\ UNCHANGED <<hunkHigh, tempActive, tempMark, cache, lru, data, memory, uses>>
      /\ HunkTop' = HunkTop
  BY DEF Hunk_AllocName, hunk, HunkTop
<1>4. /\ hunkLow' \in Nat /\ hunkLow' <= HunkTop /\ call' \in Calls
      /\ call'.op \in {"exited", "low"} /\ "user" \notin DOMAIN call'
      /\ LowEdge' = hunkLow
  <2>1. CASE HunkTop - hunkLow < n
    <3>1. call' = [op |-> "exited"] /\ hunkLow' = hunkLow
      BY <2>1 DEF Hunk_AllocName, hunk
    <3> QED BY <3>1, <1>2 DEF Calls, LowEdge
  <2>2. CASE ~(HunkTop - hunkLow < n)
    <3>1. call' = [op |-> "low", size |-> n] /\ hunkLow' = hunkLow + n
      BY <2>2 DEF Hunk_AllocName
    <3>2. hunkLow' \in Nat /\ hunkLow' <= HunkTop /\ hunkLow' - n = hunkLow
      BY <3>1, <2>2, <1>1, <1>2
    <3>3. LowEdge' = hunkLow
      BY <3>1, <3>2 DEF LowEdge
    <3> QED BY <3>1, <3>2, <3>3 DEF Calls
  <2> QED BY <2>1, <2>2
<1>5. HighEdge' = HunkTop
  BY <1>3, <1>4 DEF HighEdge
<1>6. Stacks'
  <2>1. hunkLow' \in 0..HunkSize
    BY <1>2, <1>4
  <2>2. StacksApart'
    BY <1>1, <1>2, <1>3, <1>4, <1>5 DEF Stacks, StacksApart
  <2> QED BY <1>1, <1>3, <1>4, <2>1, <2>2 DEF Stacks
<1>7. UseLists' /\ Layout(cache', data', LowEdge', HighEdge')
  BY <1>1, <1>2, <1>3, <1>4, <1>5, <1>6, CacheSame
<1>8. Cached' /\ ExitsOnlyWhenTooLarge'
  BY <1>4, <1>7 DEF Cached, ExitsOnlyWhenTooLarge
<1>9. Contents'
  BY <1>1, <1>3, <1>4, <1>5 DEF Parts, Contents
<1> QED BY <1>6, <1>7, <1>8, <1>9 DEF Parts

LEMMA FreeLowStep ==
    ASSUME Parts, Cache_FreeLow
    PROVE  Parts'
<1>1. /\ call.op = "low" /\ cache # <<>> /\ Cache_Move(1)
      /\ UNCHANGED <<hunkLow, hunkHigh, tempActive, tempMark, call>>
      /\ Layout(cache, data, LowEdge, HighEdge) /\ Stacks
  BY DEF Cache_FreeLow, InWayOfLow, hunk, Parts, Cached
<1>2. 1 \in 1..Len(cache)
  <2>1. cache \in Seq(Blocks)
    BY <1>1 DEF Layout
  <2> QED BY <1>1, <2>1, EmptySeq
<1>3. /\ LowEdge \in Nat /\ HighEdge \in Nat /\ HighEdge <= HunkSize /\ HunkTop <= HighEdge
      /\ hunkHigh \in 0..HunkSize
  BY <1>1, Edges DEF Stacks
<1>4. /\ Layout(cache', data', LowEdge, HighEdge)
      /\ Hold(cache', memory') /\ StacksKept(memory, memory', LowEdge, HighEdge)
  BY <1>1, <1>2, <1>3, CacheMoveStep DEF Parts, Contents
<1>5. LowEdge' = LowEdge /\ HighEdge' = HighEdge
  BY <1>1 DEF LowEdge, HighEdge, HunkTop
<1>6. Stacks'
  BY <1>1, <1>5 DEF Stacks, StacksApart, HunkTop
<1>7. UseLists'
  BY <1>1, <1>2, <1>3, CacheMoveUse DEF Parts
<1>8. Cached' /\ ExitsOnlyWhenTooLarge'
  BY <1>1, <1>4, <1>5 DEF Cached, ExitsOnlyWhenTooLarge
<1>9. Contents'
  BY <1>1, <1>4, <1>5, KeptHold DEF Parts, Contents
<1> QED BY <1>6, <1>7, <1>8, <1>9 DEF Parts

LEMMA LowAllocatedStep ==
    ASSUME Parts, LowAllocated
    PROVE  Parts'
<1>1. /\ call.op = "low" /\ ~InWayOfLow /\ call' = Idle
      /\ UNCHANGED <<hunkLow, hunkHigh, tempActive, tempMark, cache, lru, data, uses>>
      /\ memory' = Fill(memory, hunkLow - call.size, hunkLow, "low")
      /\ Layout(cache, data, LowEdge, HighEdge) /\ Stacks
  BY DEF LowAllocated, hunk, Parts, Cached
<1>2. /\ LowEdge \in Nat /\ HighEdge \in Nat /\ hunkLow \in Nat /\ HunkTop \in Nat
      /\ LowEdge <= hunkLow /\ hunkLow <= HunkTop /\ HighEdge = HunkTop
      /\ HunkTop <= HunkSize /\ HunkSize \in Nat
      /\ LowEdge = hunkLow - call.size
  BY <1>1, Edges DEF LowEdge
<1>3. /\ call'.op = "none" /\ LowEdge' = hunkLow /\ HighEdge' = HunkTop
  BY <1>1 DEF Idle, LowEdge, HighEdge, HunkTop
<1>4. \A i \in 1..Len(cache) : hunkLow <= cache[i].at
  <2> SUFFICES ASSUME NEW i \in 1..Len(cache) PROVE hunkLow <= cache[i].at
    OBVIOUS
  <2>1. cache \in Seq(Blocks) /\ Sorted(cache)
    BY <1>1 DEF Layout
  <2>2. cache # <<>> /\ 1 \in 1..Len(cache) /\ 1 <= i
    BY <2>1, EmptySeq, InBlocks
  <2>3. ~(cache[1].at < hunkLow)
    BY <1>1, <2>2 DEF InWayOfLow
  <2>4. cache[1].at <= cache[i].at /\ cache[1].at \in Nat /\ cache[i].at \in Nat
    BY <2>1, <2>2, SortedEnds, InBlocks
  <2> QED BY <1>2, <2>3, <2>4
<1>5. Stacks'
  <2>1. call' \in Calls
    BY <1>1 DEF Calls
  <2>2. StacksApart'
    BY <1>1, <1>2, <1>3 DEF Stacks, StacksApart, HunkTop
  <2> QED BY <1>1, <2>1, <2>2 DEF Stacks
<1>6. UseLists' /\ Layout(cache', data', LowEdge', HighEdge')
  BY <1>1, <1>2, <1>3, <1>4, <1>5, CacheSame
<1>7. Cached' /\ ExitsOnlyWhenTooLarge'
  BY <1>3, <1>6 DEF Cached, ExitsOnlyWhenTooLarge
<1>8. Hold(cache', memory')
  <2>1. Layout(cache, data, hunkLow, HunkTop)
    BY <1>1, <1>3, <1>6
  <2> QED BY <1>1, <1>2, <2>1, FilledOutside DEF Parts, Contents
<1>9. StacksHold(memory', hunkLow, HunkTop, tempActive, tempMark)
  <2>1. \A k \in 0..HunkSize - 1 :
            memory'[k] = IF k \in LowEdge..hunkLow - 1 THEN "low" ELSE memory[k]
    BY <1>1, <1>2 DEF Fill
  <2>2. StacksHold(memory, LowEdge, HunkTop, tempActive, tempMark)
    BY <1>2 DEF Parts, Contents
  <2>3. ASSUME NEW k \in 0..hunkLow - 1 PROVE memory'[k] = "low"
    <3>1. k \in 0..HunkSize - 1 /\ (k \in LowEdge..hunkLow - 1 \/ k \in 0..LowEdge - 1)
      BY <1>2
    <3> QED BY <3>1, <2>1, <2>2 DEF StacksHold
  <2>4. ASSUME NEW k \in HunkTop..HunkSize - 1 PROVE memory'[k] = memory[k]
    <3>1. k \in 0..HunkSize - 1 /\ k \notin LowEdge..hunkLow - 1
      BY <1>2
    <3> QED BY <3>1, <2>1
  <2> QED BY <2>2, <2>3, <2>4 DEF StacksHold
<1>10. Contents'
  BY <1>1, <1>3, <1>8, <1>9 DEF Contents
<1> QED BY <1>5, <1>6, <1>7, <1>10 DEF Parts

LEMMA FreeToLowMarkStep ==
    ASSUME Parts, NEW mark \in 0..hunkLow, Hunk_FreeToLowMark(mark)
    PROVE  Parts'
<1>1. /\ call.op = "none" /\ LowEdge = hunkLow /\ HighEdge = HunkTop /\ Stacks
      /\ hunkLow' = mark /\ memory' = Fill(memory, mark, hunkLow, "free")
      /\ UNCHANGED <<hunkHigh, tempActive, tempMark, cache, lru, data, call, uses>>
      /\ Layout(cache, data, LowEdge, HighEdge)
  BY IdleFacts DEF Hunk_FreeToLowMark, Parts, Cached
<1>2. /\ HunkSize \in Nat /\ hunkLow \in Nat /\ hunkHigh \in Nat /\ HunkTop \in Nat
      /\ hunkLow <= HunkTop /\ HunkTop <= HunkSize /\ mark \in Nat /\ mark <= hunkLow
  BY <1>1, Edges
<1>3. LowEdge' = mark /\ HighEdge' = HunkTop /\ HunkTop' = HunkTop
  BY <1>1 DEF LowEdge, HighEdge, HunkTop
<1>4. Stacks'
  <2>1. hunkLow' \in 0..HunkSize
    BY <1>1, <1>2
  <2>2. StacksApart'
    BY <1>1, <1>2, <1>3 DEF Stacks, StacksApart
  <2> QED BY <1>1, <2>1, <2>2 DEF Stacks
<1>5. UseLists' /\ Layout(cache', data', LowEdge', HighEdge')
  BY <1>1, <1>2, <1>3, <1>4, CacheSame
<1>6. Cached' /\ ExitsOnlyWhenTooLarge'
  BY <1>1, <1>5 DEF Cached, ExitsOnlyWhenTooLarge
<1>7. Hold(cache', memory')
  BY <1>1, <1>2, FilledOutside DEF Parts, Contents
<1>8. StacksHold(memory', mark, HunkTop, tempActive, tempMark)
  <2>1. \A k \in 0..HunkSize - 1 : k \notin mark..hunkLow - 1 => memory'[k] = memory[k]
    BY <1>1 DEF Fill
  <2>2. StacksHold(memory, hunkLow, HunkTop, tempActive, tempMark)
    BY <1>1 DEF Parts, Contents
  <2>3. ASSUME NEW k \in 0..mark - 1 PROVE memory'[k] = "low"
    <3>1. k \in 0..HunkSize - 1 /\ k \notin mark..hunkLow - 1 /\ k \in 0..hunkLow - 1
      BY <1>2
    <3> QED BY <3>1, <2>1, <2>2 DEF StacksHold
  <2>4. ASSUME NEW k \in HunkTop..HunkSize - 1 PROVE memory'[k] = memory[k]
    <3>1. k \in 0..HunkSize - 1 /\ k \notin mark..hunkLow - 1
      BY <1>2
    <3> QED BY <3>1, <2>1
  <2> QED BY <2>2, <2>3, <2>4 DEF StacksHold
<1>9. Contents'
  BY <1>1, <1>3, <1>7, <1>8 DEF Contents
<1> QED BY <1>4, <1>5, <1>6, <1>9 DEF Parts

-----------------------------------------------------------------------------
\* The high side and the temporary buffer.

LEMMA WithoutTemp ==
    ASSUME Parts, call.op = "none"
    PROVE  /\ HunkSize \in Nat /\ hunkLow \in Nat /\ hunkHigh \in Nat /\ HunkTop \in Nat
           /\ hunkLow <= HunkTop /\ HunkTop <= HunkSize /\ HunkTop = HunkSize - hunkHigh
           /\ LowEdge = hunkLow /\ HighEdge = HunkTop /\ Stacks
           /\ HighWithoutTemp \in Nat /\ HighWithoutTemp <= hunkHigh
           /\ \A k \in HunkSize - HighWithoutTemp..HunkSize - 1 : memory[k] = "high"
<1>1. /\ HunkSize \in Nat /\ hunkLow \in Nat /\ hunkHigh \in Nat /\ HunkTop \in Nat
      /\ hunkLow <= HunkTop /\ HunkTop <= HunkSize /\ HunkTop = HunkSize - hunkHigh
      /\ LowEdge = hunkLow /\ HighEdge = HunkTop /\ Stacks
  BY Edges DEF Parts, HunkTop
<1>2. /\ tempActive \in BOOLEAN /\ tempMark \in Nat /\ (tempActive => tempMark <= hunkHigh)
  BY <1>1 DEF Stacks, StacksApart
<1>3. HighWithoutTemp \in Nat /\ HighWithoutTemp <= hunkHigh
  BY <1>1, <1>2 DEF HighWithoutTemp
<1>4. ASSUME NEW k \in HunkSize - HighWithoutTemp..HunkSize - 1 PROVE memory[k] = "high"
  <2>1. StacksHold(memory, hunkLow, HunkTop, tempActive, tempMark)
    BY <1>1 DEF Parts, Contents
  <2>2. k \in HunkTop..HunkSize - 1
    BY <1>1, <1>3
  <2>3. ~(tempActive /\ k < HunkSize - tempMark)
    BY <1>1, <1>2 DEF HighWithoutTemp
  <2> QED BY <2>1, <2>2, <2>3 DEF StacksHold
<1> QED BY <1>1, <1>3, <1>4

\* What is left when the high side is freed down to a mark.
LEMMA GivenBack ==
    ASSUME Parts, call.op = "none", NEW mark \in Nat, mark <= HighWithoutTemp,
           memory' = Fill(memory, HunkTop, HunkSize - mark, "free"),
           NEW active, NEW temp, active => temp = mark
    PROVE  /\ Hold(cache, memory')
           /\ StacksHold(memory', hunkLow, HunkSize - mark, active, temp)
<1>1. /\ HunkSize \in Nat /\ hunkLow \in Nat /\ hunkHigh \in Nat /\ HunkTop \in Nat
      /\ hunkLow <= HunkTop /\ HunkTop <= HunkSize /\ HunkTop = HunkSize - hunkHigh
      /\ LowEdge = hunkLow /\ HighEdge = HunkTop
      /\ HighWithoutTemp \in Nat /\ HighWithoutTemp <= hunkHigh
      /\ \A k \in HunkSize - HighWithoutTemp..HunkSize - 1 : memory[k] = "high"
  BY WithoutTemp
<1>2. Layout(cache, data, hunkLow, HunkTop) /\ Hold(cache, memory)
      /\ StacksHold(memory, hunkLow, HunkTop, tempActive, tempMark)
  BY <1>1 DEF Parts, Cached, Contents
<1>3. HunkSize - mark \in Int
  BY <1>1
<1>4. Hold(cache, memory')
  BY <1>1, <1>2, <1>3, FilledOutside
<1>5. \A k \in 0..HunkSize - 1 : k \notin HunkTop..HunkSize - mark - 1 => memory'[k] = memory[k]
  BY DEF Fill
<1>6. ASSUME NEW k \in 0..hunkLow - 1 PROVE memory'[k] = "low"
  <2>1. k \in 0..HunkSize - 1 /\ k \notin HunkTop..HunkSize - mark - 1
    BY <1>1
  <2> QED BY <2>1, <1>2, <1>5 DEF StacksHold
<1>7. ASSUME NEW k \in HunkSize - mark..HunkSize - 1
      PROVE  memory'[k] = "high" /\ ~(k < HunkSize - mark)
  <2>1. /\ k \in 0..HunkSize - 1 /\ k \notin HunkTop..HunkSize - mark - 1
        /\ k \in HunkSize - HighWithoutTemp..HunkSize - 1 /\ ~(k < HunkSize - mark)
    BY <1>1
  <2> QED BY <2>1, <1>1, <1>5
<1> QED BY <1>4, <1>6, <1>7 DEF StacksHold

LEMMA HighMarkStep ==
    ASSUME Parts, NEW mark \in Nat, mark <= HighWithoutTemp, call.op = "none", call \in Calls,
           hunkHigh' = mark, tempActive' = FALSE,
           memory' = Fill(memory, HunkTop, HunkSize - mark, "free"),
           UNCHANGED <<hunkLow, tempMark, cache, lru, data, call, uses>>
    PROVE  Parts'
<1>1. /\ HunkSize \in Nat /\ hunkLow \in Nat /\ hunkHigh \in Nat /\ HunkTop \in Nat
      /\ hunkLow <= HunkTop /\ HunkTop <= HunkSize /\ HunkTop = HunkSize - hunkHigh
      /\ LowEdge = hunkLow /\ HighEdge = HunkTop /\ Stacks
      /\ HighWithoutTemp \in Nat /\ HighWithoutTemp <= hunkHigh
  BY WithoutTemp
<1>2. LowEdge' = hunkLow /\ HighEdge' = HunkSize - mark /\ HunkTop' = HunkSize - mark
  BY DEF LowEdge, HighEdge, HunkTop
<1>3. HunkTop <= HunkSize - mark /\ mark \in 0..HunkSize
  BY <1>1
<1>4. Stacks'
  <2>1. StacksApart'
    BY <1>1, <1>2, <1>3 DEF StacksApart
  <2>2. call' \in Calls /\ hunkHigh' \in 0..HunkSize /\ tempActive' \in BOOLEAN
    BY <1>3
  <2>3. hunkLow' \in 0..HunkSize /\ tempMark' \in 0..HunkSize
    BY <1>1 DEF Stacks
  <2> QED BY <2>1, <2>2, <2>3 DEF Stacks
<1>5. UseLists' /\ Layout(cache', data', LowEdge', HighEdge')
  BY <1>1, <1>2, <1>3, <1>4, CacheSame
<1>6. Cached' /\ ExitsOnlyWhenTooLarge'
  BY <1>5 DEF Cached, ExitsOnlyWhenTooLarge
<1>7. Hold(cache, memory') /\ StacksHold(memory', hunkLow, HunkSize - mark, FALSE, tempMark)
  BY GivenBack
<1>8. Contents'
  BY <1>2, <1>7 DEF Contents
<1> QED BY <1>4, <1>5, <1>6, <1>8 DEF Parts

LEMMA HighAllocStep ==
    ASSUME Parts, NEW n \in HunkSizes, NEW owner \in {"high", "temp"}, HighAlloc(n, owner)
    PROVE  Parts'
<1> DEFINE mark == HighWithoutTemp
           fits == HunkSize - mark - hunkLow >= n
<1>1. call.op = "none" /\ n \in Nat \ {0}
  BY IdleFacts, SizeAssumption DEF HighAlloc
<1>2. /\ HunkSize \in Nat /\ hunkLow \in Nat /\ hunkHigh \in Nat /\ HunkTop \in Nat
      /\ hunkLow <= HunkTop /\ HunkTop <= HunkSize /\ HunkTop = HunkSize - hunkHigh
      /\ LowEdge = hunkLow /\ HighEdge = HunkTop /\ Stacks
      /\ mark \in Nat /\ mark <= hunkHigh
  BY <1>1, WithoutTemp
<1>3. /\ hunkHigh' = IF fits THEN mark + n ELSE mark
      /\ memory' = Fill(memory, HunkTop, HunkSize - mark, "free")
      /\ call' = IF fits THEN [op |-> "high", size |-> n, owner |-> owner, prev |-> NULL]
                         ELSE Idle
      /\ tempMark' = IF owner = "temp" THEN mark ELSE tempMark
      /\ tempActive' = (owner = "temp" /\ ~fits)
      /\ UNCHANGED <<hunkLow, cache, lru, data, uses>>
  BY DEF HighAlloc, MemoryWithoutTemp
<1> HIDE DEF mark
<1>4. /\ call' \in Calls /\ call'.op \in {"high", "none"} /\ LowEdge' = hunkLow
      /\ HighEdge' = HunkSize - mark /\ hunkHigh' \in Nat /\ hunkLow <= HunkSize - hunkHigh'
      /\ mark <= hunkHigh'
      /\ call'.op = "high" =>
            ~tempActive' /\ (call'.owner = "temp" => tempMark' = hunkHigh' - call'.size)
  <2>1. CASE fits
    <3>1. /\ call' = [op |-> "high", size |-> n, owner |-> owner, prev |-> NULL]
          /\ hunkHigh' = mark + n /\ ~tempActive'
      BY <2>1, <1>3
    <3>2. call' \in Calls
      BY <3>1 DEF Calls
    <3>3. hunkHigh' \in Nat /\ hunkLow <= HunkSize - hunkHigh' /\ mark <= hunkHigh'
      BY <2>1, <3>1, <1>1, <1>2
    <3>4. HighEdge' = HunkSize - (mark + n) + n
      BY <3>1 DEF HighEdge, HunkTop
    <3>5. HighEdge' = HunkSize - mark /\ mark = hunkHigh' - n
      BY <3>1, <3>4, <1>1, <1>2
    <3>6. LowEdge' = hunkLow
      BY <3>1, <1>3 DEF LowEdge
    <3> QED BY <3>1, <3>2, <3>3, <3>5, <3>6, <1>3
  <2>2. CASE ~fits
    <3>1. call' = Idle /\ hunkHigh' = mark
      BY <2>2, <1>3
    <3>2. call' \in Calls /\ call'.op = "none"
      BY <3>1 DEF Calls, Idle
    <3>3. HighEdge' = HunkSize - mark /\ LowEdge' = hunkLow
      BY <3>1, <3>2, <1>3 DEF HighEdge, LowEdge, HunkTop
    <3> QED BY <3>1, <3>2, <3>3, <1>2
  <2> QED BY <2>1, <2>2
<1>5. Stacks'
  <2>1. /\ hunkHigh' \in 0..HunkSize /\ mark \in 0..HunkSize
        /\ hunkLow' <= HunkTop' /\ HighEdge' <= HunkSize /\ LowEdge' >= 0
    BY <1>2, <1>3, <1>4 DEF HunkTop
  <2>2. tempMark' \in 0..HunkSize /\ tempActive' \in BOOLEAN
    BY <2>1, <1>2, <1>3 DEF Stacks
  <2>3. tempActive' => tempMark' <= hunkHigh'
    BY <1>2, <1>3, <1>4
  <2>4. StacksApart'
    BY <2>1, <2>3, <1>4 DEF StacksApart
  <2> QED BY <2>1, <2>2, <2>4, <1>2, <1>3, <1>4 DEF Stacks
<1>6. UseLists' /\ Layout(cache', data', LowEdge', HighEdge')
  <2>1. HighEdge <= HighEdge'
    BY <1>2, <1>4
  <2> QED BY <2>1, <1>2, <1>3, <1>4, <1>5, CacheSame
<1>7. Cached' /\ ExitsOnlyWhenTooLarge'
  BY <1>4, <1>6 DEF Cached, ExitsOnlyWhenTooLarge
<1>8. Hold(cache, memory') /\ StacksHold(memory', hunkLow, HunkSize - mark, tempActive', tempMark')
  <2>1. mark \in Nat /\ mark <= HighWithoutTemp
    BY <1>2 DEF mark
  <2>2. tempActive' => tempMark' = mark
    BY <1>3
  <2> QED BY <2>1, <2>2, <1>1, <1>3, GivenBack
<1>9. Contents'
  BY <1>3, <1>4, <1>8 DEF Contents
<1> QED BY <1>5, <1>6, <1>7, <1>9 DEF Parts

LEMMA FreeHighStep ==
    ASSUME Parts, Cache_FreeHigh
    PROVE  Parts'
<1> DEFINE i == Len(cache)
<1>1. /\ call.op = "high" /\ cache # <<>>
      /\ UNCHANGED <<hunkLow, hunkHigh, tempActive, tempMark>>
      /\ \/ FreeBlock(i) /\ call' = call
         \/ Cache_Move(i) /\ call' = [call EXCEPT !.prev = cache[i].at]
      /\ Layout(cache, data, LowEdge, HighEdge) /\ Stacks
  BY DEF Cache_FreeHigh, InWayOfHigh, LastBlock, hunk, Parts, Cached
<1>2. i \in 1..Len(cache) /\ cache[i].at \in 0..HunkSize
  <2>1. cache \in Seq(Blocks)
    BY <1>1 DEF Layout
  <2> QED BY <1>1, <2>1, EmptySeq, InBlocks
<1>3. /\ LowEdge \in Nat /\ HighEdge \in Nat /\ HighEdge <= HunkSize /\ HunkTop <= HighEdge
      /\ hunkHigh \in 0..HunkSize
  BY <1>1, Edges DEF Stacks
<1>4. call' \in Calls /\ call'.op = "high" /\ call'.size = call.size /\ call'.owner = call.owner
  <2>1. call \in [op : {"high"}, size : HunkSizes, owner : {"high", "temp"},
                  prev : 0..HunkSize \cup {NULL}]
    BY <1>1, CallTypes DEF Stacks
  <2>2. call' \in [op : {"high"}, size : HunkSizes, owner : {"high", "temp"},
                   prev : 0..HunkSize \cup {NULL}]
    BY <1>1, <1>2, <2>1
  <2>3. call'.size = call.size /\ call'.owner = call.owner
    BY <1>1, <2>1
  <2> QED BY <2>2, <2>3 DEF Calls
<1> HIDE DEF i
<1>5. /\ Layout(cache', data', LowEdge, HighEdge)
      /\ Hold(cache', memory') /\ StacksKept(memory, memory', LowEdge, HighEdge)
  BY <1>1, <1>2, <1>3, CacheMoveStep, FreeStep DEF Parts, Contents
<1>6. LowEdge' = LowEdge /\ HighEdge' = HighEdge
  BY <1>1, <1>4 DEF LowEdge, HighEdge, HunkTop
<1>7. Stacks'
  BY <1>1, <1>4, <1>6 DEF Stacks, StacksApart, HunkTop
<1>8. UseLists'
  BY <1>1, <1>2, <1>3, CacheMoveUse, FreeBlockUse DEF Parts
<1>9. Cached' /\ ExitsOnlyWhenTooLarge'
  BY <1>4, <1>5, <1>6 DEF Cached, ExitsOnlyWhenTooLarge
<1>10. Contents'
  BY <1>1, <1>5, <1>6, KeptHold DEF Parts, Contents
<1> QED BY <1>7, <1>8, <1>9, <1>10 DEF Parts

LEMMA HighAllocatedStep ==
    ASSUME Parts, HighAllocated
    PROVE  Parts'
<1>1. /\ call.op = "high" /\ ~InWayOfHigh /\ call' = Idle
      /\ UNCHANGED <<hunkLow, hunkHigh, tempMark, cache, lru, data, uses>>
      /\ memory' = Fill(memory, HunkTop, HunkTop + call.size, call.owner)
      /\ tempActive' = (call.owner = "temp")
      /\ Layout(cache, data, LowEdge, HighEdge) /\ Stacks
  BY DEF HighAllocated, Parts, Cached
<1>2. /\ LowEdge = hunkLow /\ HighEdge \in Nat /\ hunkLow \in Nat /\ HunkTop \in Nat
      /\ hunkLow <= HunkTop /\ HunkTop <= HighEdge /\ hunkHigh \in Nat
      /\ HighEdge <= HunkSize /\ HunkSize \in Nat
      /\ HighEdge = HunkTop + call.size /\ HunkTop = HunkSize - hunkHigh
      /\ call.size \in Nat \ {0} /\ call.owner \in {"high", "temp"}
      /\ ~tempActive /\ (call.owner = "temp" => tempMark = hunkHigh - call.size)
      /\ tempMark \in Nat
  BY <1>1, Edges, CallTypes DEF HighEdge, Stacks, StacksApart, HunkTop
<1>3. /\ call'.op = "none" /\ LowEdge' = hunkLow /\ HighEdge' = HunkTop /\ HunkTop' = HunkTop
  BY <1>1 DEF Idle, LowEdge, HighEdge, HunkTop
<1>4. \A i \in 1..Len(cache) : End(cache[i]) <= HunkTop
  <2> SUFFICES ASSUME NEW i \in 1..Len(cache) PROVE End(cache[i]) <= HunkTop
    OBVIOUS
  <2>1. cache \in Seq(Blocks) /\ Sorted(cache)
    BY <1>1 DEF Layout
  <2>2. cache # <<>> /\ Len(cache) \in 1..Len(cache) /\ i <= Len(cache)
    BY <2>1, EmptySeq, InBlocks
  <2>3. ~(End(cache[Len(cache)]) > HunkTop)
    BY <1>1, <2>2 DEF InWayOfHigh, LastBlock
  <2>4. /\ End(cache[i]) <= End(cache[Len(cache)])
        /\ End(cache[i]) \in Nat /\ End(cache[Len(cache)]) \in Nat
    BY <2>1, <2>2, SortedEnds, InBlocks
  <2> QED BY <1>2, <2>3, <2>4
<1>5. Stacks'
  <2>1. call' \in Calls
    BY <1>1 DEF Calls
  <2>2. ASSUME tempActive' PROVE tempMark' <= hunkHigh'
    <3>1. call.owner = "temp"
      BY <1>1, <2>2
    <3>2. tempMark = hunkHigh - call.size
      BY <1>2, <3>1
    <3> QED BY <1>1, <1>2, <3>2
  <2>3. StacksApart'
    BY <1>1, <1>2, <1>3, <2>2 DEF StacksApart
  <2> QED BY <1>1, <2>1, <2>3 DEF Stacks
<1>6. UseLists' /\ Layout(cache', data', LowEdge', HighEdge')
  <2>1. LowEdge' <= LowEdge
    BY <1>2, <1>3
  <2> QED BY <2>1, <1>1, <1>3, <1>4, <1>5, CacheSame
<1>7. Cached' /\ ExitsOnlyWhenTooLarge'
  BY <1>3, <1>6 DEF Cached, ExitsOnlyWhenTooLarge
<1>8. Hold(cache', memory')
  <2>1. Layout(cache, data, hunkLow, HunkTop)
    BY <1>1, <1>3, <1>6
  <2>2. HunkTop + call.size \in Int
    BY <1>2
  <2>3. HunkTop <= HunkSize
    BY <1>2
  <2> QED BY <1>1, <1>2, <2>1, <2>2, <2>3, FilledOutside DEF Parts, Contents
<1>9. StacksHold(memory', hunkLow, HunkTop, tempActive', tempMark)
  <2>1. \A k \in 0..HunkSize - 1 :
            memory'[k] = IF k \in HunkTop..HighEdge - 1 THEN call.owner ELSE memory[k]
    BY <1>1, <1>2 DEF Fill
  <2>2. StacksHold(memory, hunkLow, HighEdge, FALSE, tempMark)
    BY <1>2 DEF Parts, Contents, Stacks
  <2>3. ASSUME NEW k \in 0..hunkLow - 1 PROVE memory'[k] = "low"
    <3>1. k \in 0..HunkSize - 1 /\ k \notin HunkTop..HighEdge - 1
      BY <1>2
    <3> QED BY <3>1, <2>1, <2>2 DEF StacksHold
  <2>4. ASSUME NEW k \in HunkTop..HunkSize - 1
        PROVE  memory'[k] = IF tempActive' /\ k < HunkSize - tempMark THEN "temp" ELSE "high"
    <3>1. k \in 0..HunkSize - 1
      BY <1>2
    <3>2. CASE k < HighEdge
      <4>1. memory'[k] = call.owner
        BY <1>2, <2>1, <3>1, <3>2
      <4>2. call.owner = "temp" => k < HunkSize - tempMark
        BY <1>2, <3>2
      <4> QED BY <4>1, <4>2, <1>1, <1>2
    <3>3. CASE ~(k < HighEdge)
      <4>1. k \in HighEdge..HunkSize - 1 /\ k \notin HunkTop..HighEdge - 1
        BY <1>2, <3>3
      <4>2. memory'[k] = "high"
        BY <4>1, <2>1, <2>2, <3>1 DEF StacksHold
      <4>3. call.owner = "temp" => ~(k < HunkSize - tempMark)
        BY <1>2, <3>3
      <4> QED BY <4>2, <4>3, <1>1
    <3> QED BY <3>2, <3>3
  <2> QED BY <2>3, <2>4 DEF StacksHold
<1>10. Contents'
  BY <1>1, <1>3, <1>8, <1>9 DEF Contents
<1> QED BY <1>5, <1>6, <1>7, <1>10 DEF Parts
LEMMA Hunk_HighMarkStep ==
    ASSUME Parts, Hunk_HighMark
    PROVE  Parts'
<1>1. call.op = "none" /\ call \in Calls /\ tempMark \in Nat
  BY IdleFacts, SizeAssumption DEF Hunk_HighMark, Parts, Stacks
<1>2. HighWithoutTemp = tempMark
  BY DEF Hunk_HighMark, HighWithoutTemp
<1>3. tempMark <= HighWithoutTemp
  BY <1>1, <1>2
<1>4. /\ hunkHigh' = tempMark /\ tempActive' = FALSE
      /\ memory' = Fill(memory, HunkTop, HunkSize - tempMark, "free")
      /\ UNCHANGED <<hunkLow, tempMark, cache, lru, data, call, uses>>
  BY <1>2 DEF Hunk_HighMark, MemoryWithoutTemp
<1> QED BY <1>1, <1>3, <1>4, HighMarkStep

LEMMA FreeToHighMarkStep ==
    ASSUME Parts, NEW mark \in 0..hunkHigh, Hunk_FreeToHighMark(mark)
    PROVE  Parts'
<1>1. call.op = "none" /\ call \in Calls /\ mark \in Nat /\ mark <= HighWithoutTemp
  BY IdleFacts DEF Hunk_FreeToHighMark, Parts, Stacks
<1>2. /\ hunkHigh' = mark /\ tempActive' = FALSE
      /\ memory' = Fill(memory, HunkTop, HunkSize - mark, "free")
      /\ UNCHANGED <<hunkLow, tempMark, cache, lru, data, call, uses>>
  BY DEF Hunk_FreeToHighMark
<1> QED BY <1>1, <1>2, HighMarkStep

-----------------------------------------------------------------------------
\* The cache for its users.

\* The pointer of a user is set exactly while the cache holds a block of his.
LEMMA HasBlock ==
    ASSUME Parts, NEW u \in Users, data[u] # NULL
    PROVE  IndexOf(u) \in 1..Len(cache) /\ cache[IndexOf(u)].user = u
<1>1. \E i \in 1..Len(cache) : cache[i].user = u
  BY DEF Parts, Cached, Layout, Lead
<1> QED BY <1>1 DEF IndexOf

LEMMA CacheAllocStep ==
    ASSUME Parts, NEW u \in Users, NEW n \in CacheSizes, Cache_Alloc(u, n)
    PROVE  Parts'
<1>1. /\ call.op = "none" /\ LowEdge = hunkLow /\ HighEdge = HunkTop /\ Stacks
      /\ data[u] = NULL /\ call' = [op |-> "alloc", user |-> u, size |-> n]
      /\ UNCHANGED <<hunkLow, hunkHigh, tempActive, tempMark, cache, lru, data, memory, uses>>
  BY IdleFacts DEF Cache_Alloc, Parts, hunk
<1>2. call' \in Calls /\ call'.op = "alloc" /\ call'.user = u
  BY <1>1 DEF Calls
<1>3. LowEdge' = LowEdge /\ HighEdge' = HighEdge /\ HunkTop' = HunkTop
  BY <1>1, <1>2 DEF LowEdge, HighEdge, HunkTop
<1>4. Stacks'
  <2>1. StacksApart'
    BY <1>1, <1>2, <1>3 DEF Stacks, StacksApart
  <2> QED BY <1>1, <1>2, <2>1 DEF Stacks
<1>5. UseLists' /\ Layout(cache', data', LowEdge', HighEdge')
  <2>1. LowEdge' <= LowEdge /\ HighEdge <= HighEdge'
    BY <1>1, <1>3, Edges
  <2> QED BY <2>1, <1>1, <1>4, CacheSame
<1>6. Cached' /\ ExitsOnlyWhenTooLarge'
  BY <1>1, <1>2, <1>5 DEF Cached, ExitsOnlyWhenTooLarge
<1>7. Contents'
  BY <1>1, <1>3 DEF Parts, Contents
<1> QED BY <1>4, <1>5, <1>6, <1>7 DEF Parts

\* A step of the cache while the stacks rest: what is left to show is what it
\* does to the blocks and to the order of use.
LEMMA StacksRest ==
    ASSUME Parts, UNCHANGED <<hunkLow, hunkHigh, tempActive, tempMark>>,
           call.op \notin {"low", "high"}, call' \in Calls,
           call' = call \/ call'.op = "none",
           Layout(cache', data', hunkLow, HunkTop), UseLists',
           call'.op = "alloc" => data'[call'.user] = NULL,
           Hold(cache', memory'), StacksKept(memory, memory', hunkLow, HunkTop)
    PROVE  Parts'
<1>1. /\ LowEdge = hunkLow /\ HighEdge = HunkTop /\ Stacks
      /\ call'.op \notin {"low", "high"}
  BY Edges DEF Parts
<1>2. LowEdge' = hunkLow /\ HighEdge' = HunkTop /\ HunkTop' = HunkTop
  BY <1>1 DEF LowEdge, HighEdge, HunkTop
<1>3. Stacks'
  <2>1. StacksApart'
    BY <1>1, <1>2 DEF Stacks, StacksApart
  <2> QED BY <1>1, <2>1 DEF Stacks
<1>4. Cached'
  BY <1>2 DEF Cached
<1>5. Contents'
  BY <1>1, <1>2, KeptHold DEF Parts, Contents
<1>6. ExitsOnlyWhenTooLarge'
  BY <1>2 DEF Parts, ExitsOnlyWhenTooLarge
<1> QED BY <1>3, <1>4, <1>5, <1>6 DEF Parts

LEMMA CacheAllocatedStep ==
    ASSUME Parts, CacheAllocated
    PROVE  Parts'
<1> DEFINE place == Cache_TryAlloc(call.size, FALSE)
           u == call.user
           b == Block(u, PlaceStart(place), call.size)
<1>1. /\ call.op = "alloc" /\ Fitting(call.size, FALSE) # {}
      /\ cache' = With(cache, place, b) /\ lru' = MadeFirst(lru, u)
      /\ used' = MadeFirst(used, u) /\ moved' = moved
      /\ data' = [data EXCEPT ![u] = b.at]
      /\ memory' = Fill(memory, b.at, End(b), u) /\ call' = Idle
      /\ UNCHANGED <<hunkLow, hunkHigh, tempActive, tempMark>>
  BY DEF CacheAllocated, hunk
<1>2. /\ LowEdge = hunkLow /\ HighEdge = HunkTop /\ hunkLow \in Nat /\ HunkTop \in Nat
      /\ hunkLow <= HunkTop /\ HunkTop <= HunkSize /\ HunkSize \in Nat
      /\ u \in Users /\ call.size \in CacheSizes /\ call.size \in Nat \ {0}
  BY <1>1, Edges, CallTypes DEF Parts, Stacks
<1>3. /\ Layout(cache, data, hunkLow, HunkTop) /\ Hold(cache, memory) /\ UseLists
      /\ data[u] = NULL /\ cache \in Seq(Blocks) /\ Inside(cache, hunkLow, HunkTop)
      /\ data \in [Users -> 0..HunkSize \cup {NULL}]
  BY <1>1, <1>2 DEF Parts, Cached, Contents, Layout, Lead
<1>4. /\ place \in 1..Len(cache) + 1 /\ PlaceEnd(place) - PlaceStart(place) >= call.size
      /\ Len(cache) \in Nat
  BY <1>1, <1>3, TryAllocFits, InBlocks DEF Fitting
<1> HIDE DEF place
<1>5. /\ PlaceStart(place) \in Nat /\ hunkLow <= PlaceStart(place)
      /\ place # 1 => End(cache[place - 1]) = PlaceStart(place)
  <2>1. CASE place = 1
    BY <2>1, <1>2 DEF PlaceStart
  <2>2. CASE place # 1
    <3>1. place - 1 \in 1..Len(cache) /\ PlaceStart(place) = End(cache[place - 1])
      BY <2>2, <1>4 DEF PlaceStart
    <3>2. /\ End(cache[place - 1]) \in Nat /\ cache[place - 1].at \in Nat
          /\ cache[place - 1].at < End(cache[place - 1]) /\ hunkLow <= cache[place - 1].at
      BY <3>1, <1>3, InBlocks DEF Inside
    <3> QED BY <3>1, <3>2, <1>2
  <2> QED BY <2>1, <2>2
<1>6. /\ PlaceEnd(place) \in Nat /\ PlaceEnd(place) <= HunkTop
      /\ place # Len(cache) + 1 => PlaceEnd(place) = cache[place].at
  <2>1. CASE place = Len(cache) + 1
    BY <2>1, <1>2 DEF PlaceEnd
  <2>2. CASE place # Len(cache) + 1
    <3>1. place \in 1..Len(cache) /\ PlaceEnd(place) = cache[place].at
      BY <2>2, <1>4 DEF PlaceEnd
    <3>2. /\ End(cache[place]) \in Nat /\ cache[place].at \in Nat
          /\ cache[place].at < End(cache[place]) /\ End(cache[place]) <= HunkTop
      BY <3>1, <1>3, InBlocks DEF Inside
    <3> QED BY <3>1, <3>2, <1>2
  <2> QED BY <2>1, <2>2
<1>7. /\ PlaceStart(place) \in 0..HunkSize
      /\ PlaceStart(place) + call.size <= PlaceEnd(place)
      /\ PlaceStart(place) + call.size \in Nat
  BY <1>2, <1>4, <1>5, <1>6
<1>8. /\ b \in Blocks /\ b.user = u /\ b.at = PlaceStart(place)
      /\ b.size = call.size /\ End(b) = PlaceStart(place) + call.size
  BY <1>2, <1>7, NewBlock
<1> HIDE DEF b, u
<1>9. Fits(cache, place, b, hunkLow, HunkTop)
  BY SMTT(30), <1>2, <1>4, <1>5, <1>6, <1>7, <1>8 DEF Fits
<1>10. Layout(cache', data', hunkLow, HunkTop)
  BY <1>1, <1>2, <1>3, <1>8, <1>9, LinkedLayout
<1>11. Stored(memory, memory', b)
  BY <1>1, <1>8 DEF Stored, Fill
<1>12. Hold(cache', memory') /\ StacksKept(memory, memory', hunkLow, HunkTop)
  BY <1>1, <1>2, <1>3, <1>9, <1>11, LinkedHold
<1>13. UseLists'
  <2>1. b.at # NULL
    BY <1>7, <1>8 DEF NULL
  <2>2. \A v \in Users : data'[v] # NULL <=> v = u \/ data[v] # NULL
    BY <1>1, <1>2, <1>3, <2>1
  <2> QED BY <1>1, <1>2, <1>3, <2>2, AskedUse
<1>14. call' \in Calls /\ call'.op = "none"
  BY <1>1 DEF Calls, Idle
<1> QED BY <1>1, <1>10, <1>12, <1>13, <1>14, StacksRest

\* Cache_Free, by its user or to make room.
LEMMA FreedStep ==
    ASSUME Parts, NEW i \in 1..Len(cache), FreeBlock(i), call.op \notin {"low", "high"},
           UNCHANGED <<hunk, call>>
    PROVE  Parts'
<1>1. /\ LowEdge = hunkLow /\ HighEdge = HunkTop /\ hunkLow \in Nat /\ HunkTop \in Nat
      /\ HunkTop <= HunkSize
  BY Edges DEF Parts
<1>2. /\ Layout(cache, data, hunkLow, HunkTop) /\ Hold(cache, memory) /\ call \in Calls
      /\ call.op = "alloc" => data[call.user] = NULL
  BY <1>1 DEF Parts, Cached, Contents, Stacks
<1>3. /\ Layout(cache', data', hunkLow, HunkTop)
      /\ Hold(cache', memory') /\ StacksKept(memory, memory', hunkLow, HunkTop)
      /\ \A v \in Users : data'[v] = IF v = cache[i].user THEN NULL ELSE data[v]
  BY <1>1, <1>2, FreeStep
<1>4. UseLists'
  BY <1>1, <1>2, FreeBlockUse DEF Parts
<1>5. call' = call /\ UNCHANGED <<hunkLow, hunkHigh, tempActive, tempMark>>
  BY DEF hunk
<1>6. ASSUME call'.op = "alloc" PROVE data'[call'.user] = NULL
  <2>1. call.user \in Users /\ data[call.user] = NULL
    BY <1>2, <1>5, <1>6, CallTypes
  <2> QED BY <2>1, <1>3, <1>5
<1> QED BY <1>2, <1>3, <1>4, <1>5, <1>6, StacksRest

\* The end of the list for LRU flushing is the user of a block, as long as there
\* is a block.
LEMMA LeastRecentCached ==
    ASSUME Parts, cache # <<>>
    PROVE  /\ LeastRecent \in Users /\ data[LeastRecent] # NULL
           /\ Len(lru) \in 1..Len(lru)
<1>1. cache \in Seq(Blocks) /\ Lead(cache, data)
  BY DEF Parts, Cached, Layout
<1>2. 1 \in 1..Len(cache)
  BY <1>1, EmptySeq, InBlocks
<1>3. cache[1].user \in Users /\ data[cache[1].user] # NULL
  <2>1. data[cache[1].user] = cache[1].at /\ cache[1].at \in Nat /\ cache[1].user \in Users
    BY <1>1, <1>2, InBlocks DEF Lead
  <2> QED BY <2>1 DEF NULL
<1>4. lru \in Seq(Users) /\ HoldsCached(lru)
  BY DEF Parts, UseLists, ListsAgree
<1>5. \E j \in 1..Len(lru) : lru[j] = cache[1].user
  BY <1>3, <1>4 DEF HoldsCached, Holds
<1>6. Len(lru) \in 1..Len(lru)
  <2>1. Len(lru) \in Nat
    BY <1>4, LenProperties
  <2> QED BY <2>1, <1>5
<1>7. LeastRecent \in Users
  BY <1>4, <1>6, ElementOfSeq DEF LeastRecent
<1>8. data[LeastRecent] # NULL
  BY <1>4, <1>6, <1>7 DEF HoldsCached, Holds, LeastRecent
<1> QED BY <1>6, <1>7, <1>8

LEMMA CacheEvictStep ==
    ASSUME Parts, CacheEvict
    PROVE  Parts'
<1>1. IndexOf(LeastRecent) \in 1..Len(cache)
  BY LeastRecentCached, HasBlock DEF CacheEvict
<1>2. call.op \notin {"low", "high"}
  BY DEF CacheEvict
<1> QED BY <1>1, <1>2, FreedStep DEF CacheEvict

LEMMA CacheTooLargeStep ==
    ASSUME Parts, CacheTooLarge
    PROVE  Parts'
<1>1. /\ call.op = "alloc" /\ Fitting(call.size, FALSE) = {} /\ cache = <<>>
      /\ call' = [call EXCEPT !.op = "exited"]
      /\ UNCHANGED <<hunkLow, hunkHigh, tempActive, tempMark, cache, lru, data, memory, uses>>
      /\ Stacks
  BY DEF CacheTooLarge, hunk, Parts
<1>2. call \in [op : {"alloc", "exited"}, user : Users, size : CacheSizes]
  BY <1>1, CallTypes DEF Stacks
<1>3. call' \in Calls /\ call'.op = "exited" /\ call'.size = call.size
  <2>1. /\ call' \in [op : {"alloc", "exited"}, user : Users, size : CacheSizes]
        /\ call'.op = "exited" /\ call'.size = call.size
    BY <1>1, <1>2
  <2> QED BY <2>1 DEF Calls
<1>4. call.size > HunkTop - hunkLow
  <2>1. Len(cache) = 0 /\ PlaceEnd(1) = HunkTop /\ PlaceStart(1) = hunkLow
    BY <1>1 DEF PlaceEnd, PlaceStart
  <2>2. ~(PlaceEnd(1) - PlaceStart(1) >= call.size)
    BY <1>1, <2>1 DEF Fitting
  <2>3. HunkTop \in Nat /\ hunkLow \in Nat /\ call.size \in Nat
    BY <1>1, Edges, CallTypes DEF Stacks
  <2> QED BY <2>1, <2>2, <2>3
<1>5. LowEdge' = LowEdge /\ HighEdge' = HighEdge /\ HunkTop' = HunkTop
  BY <1>1, <1>3 DEF LowEdge, HighEdge, HunkTop
<1>6. Stacks'
  <2>1. StacksApart'
    BY <1>1, <1>3, <1>5 DEF Stacks, StacksApart
  <2> QED BY <1>1, <1>3, <2>1 DEF Stacks
<1>7. UseLists' /\ Layout(cache', data', LowEdge', HighEdge')
  <2>1. LowEdge' <= LowEdge /\ HighEdge <= HighEdge'
    BY <1>1, <1>5, Edges
  <2> QED BY <2>1, <1>1, <1>6, CacheSame
<1>8. Cached'
  BY <1>3, <1>7 DEF Cached
<1>9. ExitsOnlyWhenTooLarge'
  BY <1>1, <1>3, <1>4, <1>5 DEF ExitsOnlyWhenTooLarge
<1>10. Contents'
  BY <1>1, <1>5 DEF Parts, Contents
<1> QED BY <1>6, <1>7, <1>8, <1>9, <1>10 DEF Parts

LEMMA CacheCheckStep ==
    ASSUME Parts, NEW u \in Users, Cache_Check(u)
    PROVE  Parts'
<1>1. /\ call.op = "none" /\ call' = call /\ LowEdge = hunkLow /\ HighEdge = HunkTop
      /\ UNCHANGED <<hunkLow, hunkHigh, tempActive, tempMark, cache, data, memory>>
      /\ data[u] # NULL /\ lru' = MadeFirst(lru, u) /\ used' = MadeFirst(used, u)
      /\ moved' = moved \ {u} /\ call \in Calls
  BY IdleFacts DEF Cache_Check, hunk, Parts, Stacks
<1>2. UseLists'
  <2>1. \A v \in Users : data'[v] # NULL <=> v = u \/ data[v] # NULL
    BY <1>1
  <2>2. moved' \subseteq moved /\ moved \ {u} \subseteq moved'
    BY <1>1
  <2> QED BY <1>1, <2>1, <2>2, AskedUse DEF Parts
<1>3. Layout(cache', data', hunkLow, HunkTop) /\ Hold(cache', memory')
  BY <1>1 DEF Parts, Cached, Contents
<1>4. StacksKept(memory, memory', hunkLow, HunkTop)
  BY <1>1 DEF StacksKept
<1> QED BY <1>1, <1>2, <1>3, <1>4, StacksRest

LEMMA CacheFreeStep ==
    ASSUME Parts, NEW u \in Users, Cache_Free(u)
    PROVE  Parts'
<1>1. IndexOf(u) \in 1..Len(cache)
  BY HasBlock DEF Cache_Free
<1>2. call.op = "none"
  BY IdleFacts DEF Cache_Free
<1> QED BY <1>1, <1>2, FreedStep DEF Cache_Free

LEMMA NothingCached ==
    ASSUME NEW lo, NEW hi, NEW d, d = [u \in Users |-> NULL]
    PROVE  Layout(<<>>, d, lo, hi) /\ \A m : Hold(<<>>, m)
<1>1. Len(<<>>) = 0 /\ <<>> \in Seq(Blocks)
  OBVIOUS
<1> QED BY <1>1 DEF Layout, Sorted, Inside, Lead, Hold

LEMMA NobodyUses ==
    ASSUME NEW d, d = [u \in Users |-> NULL]
    PROVE  /\ <<>> \in Seq(Users)
           /\ \A i, j \in 1..Len(<<>>) : i # j => <<>>[i] # <<>>[j]
           /\ \A u \in Users : d[u] # NULL <=> Holds(<<>>, u)
           /\ \A u, v : ~Before(<<>>, u, v)
<1>1. Len(<<>>) = 0 /\ <<>> \in Seq(Users)
  OBVIOUS
<1> QED BY <1>1 DEF Holds, Before

LEMMA CacheFlushStep ==
    ASSUME Parts, Cache_Flush
    PROVE  Parts'
<1>1. /\ call.op = "none" /\ call' = call /\ LowEdge = hunkLow /\ HighEdge = HunkTop
      /\ UNCHANGED <<hunkLow, hunkHigh, tempActive, tempMark>>
      /\ cache' = <<>> /\ lru' = <<>> /\ used' = <<>> /\ moved' = {}
      /\ data' = [u \in Users |-> NULL]
      /\ memory' = [i \in 0..HunkSize - 1 |->
                        IF memory[i] \in Users THEN "free" ELSE memory[i]]
      /\ call \in Calls
  BY IdleFacts DEF Cache_Flush, hunk, Parts, Stacks
<1>2. UseLists'
  BY <1>1, NobodyUses DEF UseLists, ListsAgree, HoldsCached
<1>3. Layout(cache', data', hunkLow, HunkTop) /\ Hold(cache', memory')
  BY <1>1, NothingCached
<1>4. StacksKept(memory, memory', hunkLow, HunkTop)
  <2>1. /\ hunkLow \in Nat /\ HunkTop \in Nat /\ hunkLow <= HunkTop /\ HunkTop <= HunkSize
        /\ HunkSize \in Nat
    BY Edges DEF Parts
  <2>2. StacksHold(memory, hunkLow, HunkTop, tempActive, tempMark)
    BY <1>1 DEF Parts, Contents
  <2>3. ASSUME NEW k \in 0..HunkSize - 1, memory[k] \in {"low", "high", "temp"}
        PROVE  memory'[k] = memory[k]
    BY <1>1, <2>3, UserAssumption
  <2>4. ASSUME NEW k \in 0..hunkLow - 1 PROVE memory'[k] = memory[k]
    BY <2>1, <2>2, <2>3 DEF StacksHold
  <2>5. ASSUME NEW k \in HunkTop..HunkSize - 1 PROVE memory'[k] = memory[k]
    <3>1. k \in 0..HunkSize - 1
      BY <2>1
    <3> QED BY <3>1, <2>2, <2>3 DEF StacksHold
  <2> QED BY <2>4, <2>5 DEF StacksKept
<1> QED BY <1>1, <1>2, <1>3, <1>4, StacksRest

-----------------------------------------------------------------------------
\* The invariant.

LEMMA InitParts == Init => Parts
<1> SUFFICES ASSUME Init PROVE Parts
  OBVIOUS
<1>1. /\ hunkLow = 0 /\ hunkHigh = 0 /\ tempActive = FALSE /\ tempMark = 0
      /\ cache = <<>> /\ lru = <<>> /\ used = <<>> /\ moved = {}
      /\ data = [u \in Users |-> NULL] /\ call = Idle
  BY DEF Init
<1>2. HunkSize \in Nat /\ HunkTop = HunkSize
  BY <1>1, SizeAssumption DEF HunkTop
<1>3. call.op = "none" /\ LowEdge = 0 /\ HighEdge = HunkSize
  BY <1>1, <1>2, IdleFacts
<1>4. Stacks
  <2>1. call \in Calls
    BY <1>1 DEF Calls
  <2>2. StacksApart
    BY <1>1, <1>2, <1>3 DEF StacksApart
  <2>3. hunkLow \in 0..HunkSize /\ hunkHigh \in 0..HunkSize /\ tempMark \in 0..HunkSize
    BY <1>1, <1>2
  <2>4. tempActive \in BOOLEAN
    BY <1>1
  <2> QED BY <2>1, <2>2, <2>3, <2>4 DEF Stacks
<1>5. Cached
  BY <1>1, <1>3, NothingCached DEF Cached
<1>6. UseLists
  BY <1>1, NobodyUses DEF UseLists, ListsAgree, HoldsCached
<1>7. Contents
  BY <1>1, <1>2, <1>3, NothingCached DEF Contents, StacksHold
<1>8. ExitsOnlyWhenTooLarge
  BY <1>3 DEF ExitsOnlyWhenTooLarge
<1> QED BY <1>4, <1>5, <1>6, <1>7, <1>8 DEF Parts

LEMMA NextParts == Parts /\ [Next]_vars => Parts'
<1> SUFFICES ASSUME Parts, [Next]_vars PROVE Parts'
  OBVIOUS
<1>1. CASE Loop
  BY <1>1, FreeLowStep, LowAllocatedStep, FreeHighStep, HighAllocatedStep,
     CacheAllocatedStep, CacheEvictStep, CacheTooLargeStep DEF Loop
<1>2. CASE \E n \in HunkSizes :
                Hunk_AllocName(n) \/ Hunk_HighAllocName(n) \/ Hunk_TempAlloc(n)
  BY <1>2, AllocNameStep, HighAllocStep DEF Hunk_HighAllocName, Hunk_TempAlloc
<1>3. CASE \E mark \in 0..hunkLow : Hunk_FreeToLowMark(mark)
  BY <1>3, FreeToLowMarkStep
<1>4. CASE \E mark \in 0..hunkHigh : Hunk_FreeToHighMark(mark)
  BY <1>4, FreeToHighMarkStep
<1>5. CASE Hunk_HighMark
  BY <1>5, Hunk_HighMarkStep
<1>6. CASE \E u \in Users :
                \/ \E n \in CacheSizes : Cache_Alloc(u, n)
                \/ Cache_Check(u)
                \/ Cache_Free(u)
  BY <1>6, CacheAllocStep, CacheCheckStep, CacheFreeStep
<1>7. CASE Cache_Flush
  BY <1>7, CacheFlushStep
<1>8. CASE UNCHANGED vars
  <2>1. UNCHANGED <<hunkLow, hunkHigh, tempActive, tempMark, cache, lru, data, call,
                    memory, used, moved>>
    BY <1>8 DEF vars
  <2>2. LowEdge' = LowEdge /\ HighEdge' = HighEdge /\ HunkTop' = HunkTop
    BY <2>1 DEF LowEdge, HighEdge, HunkTop
  <2>3. Stacks'
    BY <2>1, <2>2 DEF Parts, Stacks, StacksApart
  <2>4. UseLists'
    BY <2>1, SameUse DEF Parts, uses
  <2>5. Cached' /\ Contents' /\ ExitsOnlyWhenTooLarge'
    BY <2>1, <2>2 DEF Parts, Cached, Contents, ExitsOnlyWhenTooLarge
  <2> QED BY <2>3, <2>4, <2>5 DEF Parts
<1> QED BY <1>1, <1>2, <1>3, <1>4, <1>5, <1>6, <1>7, <1>8 DEF Next

\* The invariant that TLC checks as four holds of every hunk, every set of users
\* and all sizes: zone.c 346 to 916.
THEOREM HunkInvariant == Spec => []HunkInv
<1>1. Init => HunkInv
  BY InitParts, InvParts
<1>2. HunkInv /\ [Next]_vars => HunkInv'
  BY NextParts, InvParts, InvPartsNext
<1> QED BY <1>1, <1>2, PTL DEF Spec

\* The two stacks, the temporary buffer and the blocks of the cache never overlap,
\* at no turn of the loops that move blocks out of the way, and every pointer of
\* a user leads to its own block (Hunk_AllocName, Hunk_HighAllocName,
\* Cache_TryAlloc, Cache_Move).
THEOREM HunkLayout == Spec => []CacheInv
<1>1. HunkInv => CacheInv
  BY DEF HunkInv
<1> QED BY <1>1, HunkInvariant, PTL

\* The list for LRU flushing holds the users that have a block, each once, in the
\* order of use except for those that Cache_Move put in front.
THEOREM LruListAgrees == Spec => []ListsAgree
<1>1. HunkInv => ListsAgree
  BY DEF HunkInv
<1> QED BY <1>1, HunkInvariant, PTL

\* Nobody's contents are overwritten, whatever moves and grows: the copy of
\* Cache_Move, the memset of the stacks and the new blocks hit only what is free.
THEOREM ContentsKept == Spec => []Intact
<1>1. HunkInv => Intact
  BY DEF HunkInv
<1> QED BY <1>1, HunkInvariant, PTL

\* Cache_Alloc gives up only on a request that an empty cache could not hold.
THEOREM GivesUpOnlyWhenTooLarge == Spec => []ExitsOnlyWhenTooLarge
<1>1. HunkInv => ExitsOnlyWhenTooLarge
  BY DEF HunkInv
<1> QED BY <1>1, HunkInvariant, PTL
\* While Cache_Alloc makes room, only Cache_Free of the end of the list for LRU
\* flushing takes a block from its user.
LEMMA EvictedIsLeastRecent ==
    ASSUME Parts, [Next]_vars, call.op = "alloc",
           NEW u \in Users, data[u] # NULL, data'[u] = NULL
    PROVE  u = LeastRecent /\ Len(lru) \in 1..Len(lru)
<1>1. CASE CacheEvict
  <2>1. FreeBlock(IndexOf(LeastRecent)) /\ cache # <<>>
    BY <1>1 DEF CacheEvict
  <2>2. /\ LeastRecent \in Users /\ data[LeastRecent] # NULL
        /\ Len(lru) \in 1..Len(lru)
    BY <2>1, LeastRecentCached
  <2>3. cache[IndexOf(LeastRecent)].user = LeastRecent
    BY <2>2, HasBlock
  <2>4. data' = [data EXCEPT ![LeastRecent] = NULL]
    BY <2>1, <2>3 DEF FreeBlock
  <2> QED BY <2>2, <2>4
<1>2. CASE CacheAllocated
  <2>1. \E at : data' = [data EXCEPT ![call.user] = at]
    BY <1>2 DEF CacheAllocated
  <2>2. data[call.user] = NULL /\ DOMAIN data = Users
    BY DEF Parts, Cached, Layout, Lead
  <2>3. u # call.user
    BY <2>2
  <2>4. data'[u] = data[u]
    BY <2>1, <2>2, <2>3
  <2> QED BY <2>4
<1>3. CASE UNCHANGED data
  BY <1>3
<1>4. CacheEvict \/ CacheAllocated \/ UNCHANGED data
  <2>1. call # Idle /\ call.op \notin {"none", "low", "high"}
    BY DEF Idle
  <2>2. CASE Loop
    BY <2>1, <2>2 DEF Loop, Cache_FreeLow, LowAllocated, Cache_FreeHigh, HighAllocated,
                      CacheTooLarge
  <2>3. CASE ~Loop
    BY <2>1, <2>3 DEF Next, Hunk_AllocName, Hunk_HighAllocName, Hunk_TempAlloc, HighAlloc,
                      Hunk_FreeToLowMark, Hunk_FreeToHighMark, Hunk_HighMark, Cache_Alloc,
                      Cache_Check, Cache_Free, Cache_Flush, vars
  <2> QED BY <2>2, <2>3
<1> QED BY <1>1, <1>2, <1>3, <1>4

\* Cache_Alloc throws out the least recently used block: every other block that
\* Cache_Move has not put in front was used after it.
THEOREM LeastRecentlyUsedGoes == Spec => EvictsLeastRecentlyUsed
<1>1. ASSUME HunkInv, [Next]_vars, call.op = "alloc",
             NEW u \in Users, NEW v \in Users, data[u] # NULL, data'[u] = NULL,
             data[v] # NULL, v # u, v \notin moved
      PROVE  Before(used, v, u)
  <2>1. Parts
    BY <1>1, InvParts
  <2>2. u = lru[Len(lru)] /\ Len(lru) \in 1..Len(lru)
    BY <1>1, <2>1, EvictedIsLeastRecent DEF LeastRecent
  <2>3. PICK i \in 1..Len(lru) : lru[i] = v
    BY <1>1, <2>1 DEF Parts, UseLists, ListsAgree, HoldsCached, Holds
  <2>4. Len(lru) \in Nat
    BY <2>1, LenProperties DEF Parts, UseLists
  <2>5. i < Len(lru)
    BY <1>1, <2>2, <2>3, <2>4
  <2>6. Before(lru, v, u)
    BY <2>2, <2>3, <2>5 DEF Before
  <2> QED BY <1>1, <2>1, <2>6 DEF Parts, UseLists, ListsAgree
<1>2. HunkInv /\ [Next]_vars =>
        [call.op = "alloc" =>
            \A u, v \in Users :
                (/\ data[u] # NULL /\ data'[u] = NULL
                 /\ data[v] # NULL /\ v # u /\ v \notin moved) => Before(used, v, u)]_vars
  BY <1>1
<1> QED BY <1>2, HunkInvariant, PTL DEF Spec, EvictsLeastRecentlyUsed
=============================================================================
