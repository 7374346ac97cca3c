----------------------------- MODULE ZoneProofs -----------------------------
(***************************************************************************)
(* Proofs about Zone.tla, for every size of the zone and every requests.   *)
(* First what splitting and joining blocks does to the list, then that     *)
(* every action preserves ZoneInv, then what follows from it.              *)
(***************************************************************************)
EXTENDS Zone, TLAPS

\* The same blocks are in use, with the same sizes.
SameUsed(blk, blk2) ==
    /\ \A x \in DOMAIN blk : blk[x].tag # 0 =>
          x \in DOMAIN blk2 /\ blk2[x].tag # 0 /\ blk2[x].size = blk[x].size
    /\ \A x \in DOMAIN blk2 : blk2[x].tag # 0 =>
          x \in DOMAIN blk /\ blk[x].tag # 0

\* No two free blocks in a row, but for those that S begins.
MergedBut(blk, S) ==
    \A x \in DOMAIN blk \ S : blk[x].tag = 0 => blk[blk[x].next].tag # 0

\* The list j is blk with c joined into b.
JoinedAs(blk, b, c, j) ==
    /\ b # c
    /\ DOMAIN j = DOMAIN blk \ {c}
    /\ \A x \in DOMAIN blk \ {c} :
         /\ j[x].tag = blk[x].tag
         /\ x # b => j[x].size = blk[x].size /\ j[x].next = blk[x].next
    /\ j[b].next = blk[c].next

-----------------------------------------------------------------------------
\* What the blocks of a list are made of.
LEMMA ListTypes ==
    ASSUME NEW blk, IsList(blk)
    PROVE  /\ DOMAIN blk \subseteq Nat
           /\ \A x \in DOMAIN blk :
                /\ blk[x] \in Memblock
                /\ blk[x].size \in Nat /\ blk[x].tag \in {0, 1}
                /\ blk[x].next \in Nat /\ blk[x].prev \in Nat
<1>1. DOMAIN blk \subseteq Nat
  BY SizesAssumption DEF IsList, Head, First
<1>2. \A x \in DOMAIN blk : blk[x] \in Memblock
  <2> DEFINE D == DOMAIN blk
  <2>1. blk \in [D -> Memblock]
    BY DEF IsList
  <2> HIDE DEF D
  <2>2. \A x \in D : blk[x] \in Memblock
    BY <2>1
  <2> QED BY <2>2 DEF D
<1> QED BY <1>1, <1>2 DEF Memblock

\* Joining a block with the one after it keeps the list a tiling of the zone, and
\* changes nothing but the two blocks (Z_Free, both merges).
LEMMA JoinKeepsList ==
    ASSUME NEW blk, IsList(blk), Tiled(blk),
           NEW b \in DOMAIN blk \ {Head}, NEW c, c = blk[b].next, c # Head
    PROVE  /\ JoinedAs(blk, b, c, Join(blk, b, c))
           /\ IsList(Join(blk, b, c))
           /\ Tiled(Join(blk, b, c))
<1> DEFINE D == DOMAIN blk
           j == Join(blk, b, c)
           n == blk[c].next
           Same(x) == /\ j[x].size = blk[x].size /\ j[x].tag = blk[x].tag
                      /\ j[x].next = blk[x].next
<1>1. /\ D \subseteq Nat /\ b \in D /\ c \in D /\ n \in D
      /\ \A x \in D : /\ blk[x] \in Memblock
                      /\ blk[x].size \in Nat /\ blk[x].tag \in {0, 1}
                      /\ blk[x].next \in Nat /\ blk[x].prev \in Nat
  BY ListTypes DEF Tiled
<1>2. c = b + blk[b].size /\ b < c /\ blk[b].size > 0 /\ blk[c].size > 0
  <2>1. b # Head /\ blk[b].size > 0 /\ c = After(blk, b)
    BY DEF Tiled
  <2>2. c = b + blk[b].size
    BY <2>1 DEF After
  <2>3. blk[c].size > 0
    BY <1>1 DEF Tiled
  <2> QED BY <1>1, <2>1, <2>2, <2>3
<1>3. n # c /\ n # b /\ blk[n].prev = c /\ blk[c].prev = b
  <2>1. n = After(blk, c) /\ blk[n].prev = c /\ blk[c].prev = b
    BY <1>1 DEF Tiled
  <2>2. n = Head \/ n = c + blk[c].size
    BY <2>1 DEF After
  <2>3. n # c
    BY <2>2, <1>1, <1>2
  <2>4. n # b
    BY <2>2, <1>1, <1>2
  <2> QED BY <2>1, <2>3, <2>4
<1>4. DOMAIN j = D \ {c}
  BY DEF Join
<1>5. j[b] = [blk[b] EXCEPT !.size = @ + blk[c].size, !.next = n]
  BY <1>1, <1>2 DEF Join
<1>6. /\ j[b].size = blk[b].size + blk[c].size /\ j[b].next = n
      /\ j[b].tag = blk[b].tag /\ j[b].prev = blk[b].prev
  BY <1>1, <1>5 DEF Memblock
<1>7. j[n] = [blk[n] EXCEPT !.prev = b]
  BY <1>1, <1>3 DEF Join
<1>8. Same(n) /\ j[n].prev = b
  BY <1>1, <1>7 DEF Memblock
<1>9. \A x \in D \ {b, c, n} : j[x] = blk[x]
  BY DEF Join
<1>10. \A x \in D \ {b, c} : Same(x)
  BY <1>8, <1>9
<1>11. \A x \in D \ {c, n} : j[x].prev = blk[x].prev
  BY <1>6, <1>9
<1>12. \A x \in D \ {c} : j[x] \in Memblock
  <2>1. j[b] \in Memblock
    <3> HIDE DEF j, n, D
    <3> DEFINE r == blk[b]
               s == r.size + blk[c].size
    <3>1. r \in Memblock /\ s \in Nat /\ n \in Nat
      BY <1>1
    <3> HIDE DEF r, s
    <3>2. [r EXCEPT !.size = s, !.next = n] \in Memblock
      BY <3>1 DEF Memblock
    <3> QED BY <3>2, <1>5 DEF r, s
  <2>2. j[n] \in Memblock
    BY <1>1, <1>7 DEF Memblock
  <2> QED BY <2>1, <2>2, <1>1, <1>9
<1>13. IsList(j)
  <2>1. Head \in DOMAIN j /\ First \in DOMAIN j
    BY <1>1, <1>2, <1>4, SizesAssumption DEF IsList, Head, First
  <2>2. DOMAIN j \subseteq {Head} \cup First .. (ZoneSize - 1)
    BY <1>4 DEF IsList
  <2> DEFINE E == D \ {c}
  <2>3. j = [x \in E |-> j[x]]
    BY DEF Join
  <2>4. j \in [DOMAIN j -> Memblock]
    <3>1. \A x \in E : j[x] \in Memblock
      BY <1>12
    <3> HIDE DEF E, j
    <3>2. j \in [E -> Memblock]
      BY <2>3, <3>1
    <3> QED BY <3>2, <1>4 DEF E
  <2> QED BY <2>1, <2>2, <2>4 DEF IsList
<1>14. ASSUME NEW x \in D \ {c}
       PROVE  /\ x # Head => j[x].size > 0 /\ x + j[x].size <= ZoneSize
              /\ j[x].next = After(j, x)
              /\ j[x].next \in D \ {c} /\ j[x].prev \in D \ {c}
              /\ j[j[x].next].prev = x
              /\ j[j[x].prev].next = x
  <2>1. /\ x # Head => blk[x].size > 0 /\ x + blk[x].size <= ZoneSize
        /\ blk[x].next = After(blk, x)
        /\ blk[x].next \in D /\ blk[x].prev \in D
        /\ blk[blk[x].next].prev = x
        /\ blk[blk[x].prev].next = x
    BY DEF Tiled
  <2>2. CASE x = b
    <3>1. c + blk[c].size <= ZoneSize /\ n = After(blk, c)
      BY <1>1 DEF Tiled
    <3>2. j[x].size > 0 /\ x + j[x].size <= ZoneSize
      BY <2>2, <3>1, <1>1, <1>2, <1>6
    <3>3. j[x].next = After(j, x)
      BY <2>2, <3>1, <1>1, <1>2, <1>6 DEF After
    <3>4. blk[b].prev # c /\ blk[b].prev # b
      BY <2>1, <2>2, <1>2, <1>3
    <3>5. j[j[x].prev].next = x
      BY <2>1, <2>2, <3>4, <1>6, <1>10
    <3> QED BY <2>1, <2>2, <3>2, <3>3, <3>4, <3>5, <1>1, <1>3, <1>6, <1>8
  <2>3. CASE x = n
    <3>1. blk[n].next # c /\ blk[n].next # n
      BY <2>1, <2>3, <1>3
    <3>2. j[j[x].next].prev = x
      BY SMTT(30), <2>1, <2>3, <3>1, <1>8, <1>11
    <3> QED BY <2>1, <2>3, <3>1, <3>2, <1>1, <1>3, <1>6, <1>8 DEF After
  <2>4. CASE x # b /\ x # n
    <3>1. blk[x].next # c /\ blk[x].next # n
      BY <2>1, <2>4, <1>3
    <3>2. blk[x].prev # c /\ blk[x].prev # b
      BY <2>1, <2>4, <1>3
    <3>3. j[j[x].next].prev = x
      BY <2>1, <2>4, <3>1, <1>10, <1>11
    <3>4. j[j[x].prev].next = x
      BY <2>1, <2>4, <3>2, <1>10, <1>11
    <3> QED BY <2>1, <2>4, <3>1, <3>2, <3>3, <3>4, <1>10, <1>11 DEF After
  <2> QED BY <2>2, <2>3, <2>4
<1>15. ASSUME NEW x \in D \ {c, Head}, NEW y \in D \ {c, Head}, x < y
       PROVE  x + j[x].size <= y
  <2>1. \A u, v \in D \ {Head} : u < v => u + blk[u].size <= v
    BY DEF Tiled
  <2>2. CASE x = b
    <3>1. y > c
      BY <1>15, <2>1, <2>2, <1>1, <1>2
    <3>2. c + blk[c].size <= y
      BY <2>1, <3>1, <1>1
    <3> QED BY <2>2, <3>2, <1>1, <1>2, <1>6
  <2> QED BY <1>15, <2>1, <2>2, <1>10
<1>16. Head # b /\ Head # c /\ j[Head].tag = 1 /\ j[Head].size = 0
  <2>1. Head \in D /\ blk[Head].tag = 1 /\ blk[Head].size = 0
    BY DEF Tiled, IsList
  <2>2. Same(Head)
    BY <2>1, <1>10
  <2> QED BY <2>1, <2>2
<1>17. Tiled(j)
  BY <1>4, <1>14, <1>15, <1>16 DEF Tiled
<1>18. JoinedAs(blk, b, c, j)
  <2> HIDE DEF j
  <2> QED BY <1>1, <1>2, <1>4, <1>6, <1>10 DEF JoinedAs
<1> QED
  BY <1>13, <1>17, <1>18

-----------------------------------------------------------------------------
\* Changing the tag of a block changes nothing else.
LEMMA MarkKeepsList ==
    ASSUME NEW blk, IsList(blk), Tiled(blk),
           NEW b \in DOMAIN blk \ {Head}, NEW t \in {0, 1}
    PROVE  LET j == [blk EXCEPT ![b].tag = t]
           IN  /\ DOMAIN j = DOMAIN blk
               /\ \A x \in DOMAIN blk : /\ j[x].size = blk[x].size
                                        /\ j[x].next = blk[x].next
                                        /\ j[x].prev = blk[x].prev
                                        /\ x # b => j[x].tag = blk[x].tag
               /\ j[b].tag = t
               /\ IsList(j) /\ Tiled(j)
<1> DEFINE D == DOMAIN blk
           j == [blk EXCEPT ![b].tag = t]
<1>1. /\ D \subseteq Nat
      /\ \A x \in D : /\ blk[x] \in Memblock
                      /\ blk[x].size \in Nat /\ blk[x].tag \in {0, 1}
                      /\ blk[x].next \in Nat /\ blk[x].prev \in Nat
  BY ListTypes
<1>2. DOMAIN j = D
  OBVIOUS
<1>3. j[b] = [blk[b] EXCEPT !.tag = t] /\ \A x \in D \ {b} : j[x] = blk[x]
  OBVIOUS
<1>4. /\ j[b].size = blk[b].size /\ j[b].next = blk[b].next
      /\ j[b].prev = blk[b].prev /\ j[b].tag = t
      /\ j[b] \in Memblock
  <2> DEFINE r == blk[b]
  <2>1. r \in Memblock
    BY <1>1
  <2> HIDE DEF r, j
  <2>2. [r EXCEPT !.tag = t] \in Memblock
    BY <2>1 DEF Memblock
  <2> QED BY <2>1, <2>2, <1>3 DEF r, Memblock
<1>5. \A x \in D : /\ j[x].size = blk[x].size
                   /\ j[x].next = blk[x].next
                   /\ j[x].prev = blk[x].prev
                   /\ x # b => j[x].tag = blk[x].tag
                   /\ j[x] \in Memblock
  BY <1>1, <1>3, <1>4
<1>6. IsList(j)
  <2>1. j = [x \in D |-> j[x]]
    OBVIOUS
  <2> HIDE DEF j, D
  <2>2. j \in [D -> Memblock]
    BY <2>1, <1>5
  <2> QED BY <2>2, <1>2 DEF IsList, D
<1>7. Tiled(j)
  <2>1. Head \in D /\ j[Head].tag = 1 /\ j[Head].size = 0
    <3>1. Head \in D /\ Head # b /\ blk[Head].tag = 1 /\ blk[Head].size = 0
      BY DEF IsList, Tiled
    <3> QED BY <3>1, <1>5
  <2>2. ASSUME NEW x \in D
        PROVE  /\ x # Head => j[x].size > 0 /\ x + j[x].size <= ZoneSize
               /\ j[x].next = After(j, x)
               /\ j[x].next \in D /\ j[x].prev \in D
               /\ j[j[x].next].prev = x
               /\ j[j[x].prev].next = x
    <3>1. /\ x # Head => blk[x].size > 0 /\ x + blk[x].size <= ZoneSize
          /\ blk[x].next = After(blk, x)
          /\ blk[x].next \in D /\ blk[x].prev \in D
          /\ blk[blk[x].next].prev = x
          /\ blk[blk[x].prev].next = x
      BY DEF Tiled
    <3>2. After(j, x) = After(blk, x)
      BY <1>5 DEF After
    <3> HIDE DEF j, D
    <3> QED BY <3>1, <3>2, <1>5
  <2>3. ASSUME NEW x \in D \ {Head}, NEW y \in D \ {Head}, x < y
        PROVE  x + j[x].size <= y
    <3>1. \A u, v \in D \ {Head} : u < v => u + blk[u].size <= v
      BY DEF Tiled
    <3> QED BY <2>3, <3>1, <1>5
  <2> HIDE DEF j, D
  <2> QED BY <2>1, <2>2, <2>3, <1>2 DEF Tiled
<1> HIDE DEF j, D
<1>8. /\ DOMAIN j = D
      /\ \A x \in D : /\ j[x].size = blk[x].size
                      /\ j[x].next = blk[x].next
                      /\ j[x].prev = blk[x].prev
                      /\ x # b => j[x].tag = blk[x].tag
      /\ j[b].tag = t
      /\ IsList(j) /\ Tiled(j)
  BY <1>2, <1>4, <1>5, <1>6, <1>7
<1> QED BY <1>8 DEF j, D

\* Splitting a block keeps the list a tiling; the rest is a free block
\* (Z_TagMalloc, "there will be a free fragment after the allocated block").
LEMMA SplitKeepsList ==
    ASSUME NEW blk, IsList(blk), Tiled(blk), NEW b \in DOMAIN blk \ {Head},
           NEW size \in Nat, 0 < size, size < blk[b].size
    PROVE  LET j == Split(blk, b, size)
           IN  /\ DOMAIN j = DOMAIN blk \cup {b + size}
               /\ b + size \notin DOMAIN blk
               /\ \A x \in DOMAIN blk \ {b} : /\ j[x].size = blk[x].size
                                              /\ j[x].next = blk[x].next
                                              /\ j[x].tag = blk[x].tag
               /\ j[b].tag = 1 /\ j[b].size = size /\ j[b].next = b + size
               /\ j[b + size].tag = 0 /\ j[b + size].next = blk[b].next
               /\ IsList(j) /\ Tiled(j)
<1> DEFINE D == DOMAIN blk
           j == Split(blk, b, size)
           n == blk[b].next
           new == b + size
<1>1. /\ D \subseteq Nat /\ n \in D
      /\ \A x \in D : /\ blk[x] \in Memblock
                      /\ blk[x].size \in Nat /\ blk[x].tag \in {0, 1}
                      /\ blk[x].next \in Nat /\ blk[x].prev \in Nat
  BY ListTypes DEF Tiled
<1>2. \A u, v \in D \ {Head} : u < v => u + blk[u].size <= v
  BY DEF Tiled
<1>3. /\ b # Head /\ b + blk[b].size <= ZoneSize
      /\ n = Head \/ n = b + blk[b].size
  BY DEF Tiled, After
<1>4. new \notin D /\ new # Head /\ new \in Nat /\ b < new /\ new < ZoneSize
  BY <1>1, <1>2, <1>3, SizesAssumption DEF Head
<1>5. n # b /\ blk[n].prev = b
  <2>1. blk[n].prev = b
    BY DEF Tiled
  <2> QED BY <2>1, <1>1, <1>3
<1>6. DOMAIN j = D \cup {new}
  BY DEF Split
<1>7. j[new] = [size |-> blk[b].size - size, tag |-> 0, next |-> n, prev |-> b]
  BY DEF Split
<1>8. j[b] = [size |-> size, tag |-> 1, next |-> new, prev |-> blk[b].prev]
  BY <1>4 DEF Split
<1>9. j[n] = [blk[n] EXCEPT !.prev = new]
  BY <1>1, <1>4, <1>5 DEF Split
<1>10. \A x \in D \ {b, n} : j[x] = blk[x]
  BY <1>4 DEF Split
<1> HIDE DEF j
<1>11. /\ j[n].size = blk[n].size /\ j[n].tag = blk[n].tag
       /\ j[n].next = blk[n].next /\ j[n].prev = new /\ j[n] \in Memblock
  <2> DEFINE r == blk[n]
  <2>1. r \in Memblock /\ new \in Nat
    BY <1>1, <1>4
  <2> HIDE DEF r, new
  <2>2. [r EXCEPT !.prev = new] \in Memblock
    BY <2>1 DEF Memblock
  <2> QED BY <2>1, <2>2, <1>9 DEF r, Memblock
<1>12. \A x \in D \ {b} : /\ j[x].size = blk[x].size
                          /\ j[x].next = blk[x].next
                          /\ j[x].tag = blk[x].tag
                          /\ j[x] \in Memblock
  BY <1>1, <1>10, <1>11
<1>13. \A x \in D \ {n} : j[x].prev = blk[x].prev
  BY <1>8, <1>10
<1>14. j[new] \in Memblock /\ j[b] \in Memblock
  <2>1. blk[b].size - size \in Nat /\ blk[b].prev \in Nat
    BY <1>1
  <2> QED BY <2>1, <1>1, <1>4, <1>7, <1>8 DEF Memblock
<1>15. IsList(j)
  <2>1. Head \in DOMAIN j /\ First \in DOMAIN j
    BY <1>6 DEF IsList
  <2>2. DOMAIN j \subseteq {Head} \cup First .. (ZoneSize - 1)
    <3>1. b >= First
      BY <1>1, <1>3 DEF IsList
    <3>2. new \in First .. (ZoneSize - 1)
      BY <3>1, <1>1, <1>4, SizesAssumption DEF First
    <3> QED BY <3>2, <1>6 DEF IsList
  <2>3. \A x \in D \cup {new} : j[x] \in Memblock
    BY <1>12, <1>14
  <2>4. j = [x \in D \cup {new} |-> j[x]]
    BY DEF j, Split
  <2> DEFINE E == D \cup {new}
  <2> HIDE DEF E
  <2>5. j \in [E -> Memblock]
    BY <2>3, <2>4 DEF E
  <2> QED BY <2>1, <2>2, <2>5, <1>6 DEF E, IsList
<1>16. ASSUME NEW x \in D \cup {new}
       PROVE  /\ x # Head => j[x].size > 0 /\ x + j[x].size <= ZoneSize
              /\ j[x].next = After(j, x)
              /\ j[x].next \in D \cup {new} /\ j[x].prev \in D \cup {new}
              /\ j[j[x].next].prev = x
              /\ j[j[x].prev].next = x
  <2>1. \A y \in D :
          /\ y # Head => blk[y].size > 0 /\ y + blk[y].size <= ZoneSize
          /\ blk[y].next = After(blk, y)
          /\ blk[y].next \in D /\ blk[y].prev \in D
          /\ blk[blk[y].next].prev = y
          /\ blk[blk[y].prev].next = y
    BY DEF Tiled
  <2>2. CASE x = new
    <3>1. n = After(blk, b)
      BY <2>1
    <3>2. j[x].next = After(j, x)
      BY <2>2, <3>1, <1>1, <1>3, <1>4, <1>7 DEF After
    <3> QED BY <2>2, <3>2, <1>1, <1>3, <1>4, <1>7, <1>8, <1>11
  <2>3. CASE x = b
    <3>1. j[x].next = After(j, x)
      BY <2>3, <1>3, <1>4, <1>8, SizesAssumption DEF After
    <3>2. /\ blk[b].prev \in D /\ blk[b].prev # b
          /\ blk[blk[b].prev].next = b
      BY <2>1, <1>5
    <3>3. j[blk[b].prev].next = b
      BY <3>2, <1>12
    <3>4. j[x].prev = blk[b].prev
      BY <2>3, <1>8
    <3>5. j[x].next = new /\ j[new].prev = b
      BY <2>3, <1>7, <1>8
    <3>6. j[x].size > 0 /\ x + j[x].size <= ZoneSize
      BY <2>3, <1>1, <1>4, <1>8, SizesAssumption
    <3> HIDE DEF new
    <3> QED BY <2>3, <3>1, <3>2, <3>3, <3>4, <3>5, <3>6
  <2>4. CASE x = n
    <3>1. /\ blk[n].next \in D /\ blk[n].next # n
          /\ blk[blk[n].next].prev = n
      BY <2>1, <1>1, <1>5
    <3>2. j[blk[n].next].prev = n
      BY <3>1, <1>13
    <3>3. After(j, n) = After(blk, n) /\ blk[n].next = After(blk, n)
      BY <2>1, <1>1, <1>11 DEF After
    <3>4. n # Head => blk[n].size > 0 /\ n + blk[n].size <= ZoneSize
      BY <2>1, <1>1
    <3> QED BY <2>4, <3>1, <3>2, <3>3, <3>4, <1>1, <1>7, <1>11
  <2>5. CASE x \in D /\ x # b /\ x # n
    <3>1. /\ x # Head => blk[x].size > 0 /\ x + blk[x].size <= ZoneSize
          /\ blk[x].next = After(blk, x)
          /\ blk[x].next \in D /\ blk[x].next # n
          /\ blk[x].prev \in D /\ blk[x].prev # b
          /\ blk[blk[x].next].prev = x
          /\ blk[blk[x].prev].next = x
      BY <2>1, <2>5, <1>5
    <3>2. /\ j[x].next = blk[x].next /\ j[x].prev = blk[x].prev
          /\ j[x].size = blk[x].size
      BY <2>5, <1>12, <1>13
    <3>3. After(j, x) = After(blk, x)
      BY <3>2 DEF After
    <3>4. j[blk[x].next].prev = x
      BY <3>1, <1>13
    <3>5. j[blk[x].prev].next = x
      BY <3>1, <1>12
    <3> QED BY <2>5, <3>1, <3>2, <3>3, <3>4, <3>5
  <2> QED BY <2>2, <2>3, <2>4, <2>5
<1>17. ASSUME NEW x \in (D \cup {new}) \ {Head},
              NEW y \in (D \cup {new}) \ {Head}, x < y
       PROVE  x + j[x].size <= y
  <2>1. CASE x = new
    <3>1. y \in D /\ b < y
      BY <2>1, <1>17, <1>1, <1>4
    <3> QED BY <2>1, <3>1, <1>1, <1>2, <1>3, <1>7
  <2>2. CASE x = b
    <3>1. CASE y = new
      BY <2>2, <3>1, <1>1, <1>8
    <3>2. CASE y \in D
      <4>1. b + blk[b].size <= y
        BY <2>2, <3>2, <1>17, <1>2
      <4> QED BY <2>2, <4>1, <3>2, <1>1, <1>8
    <3> QED BY <3>1, <3>2
  <2>3. CASE x \in D /\ x # b
    <3>1. CASE y = new
      <4>1. x < b
        BY <1>17, <2>3, <3>1, <1>1, <1>2, <1>3, <1>4
      <4>2. x + blk[x].size <= b
        BY <4>1, <2>3, <1>2, <1>3
      <4> QED BY <2>3, <3>1, <4>2, <1>1, <1>4, <1>12
    <3>2. CASE y \in D
      BY <1>17, <2>3, <3>2, <1>2, <1>12
    <3> QED BY <3>1, <3>2
  <2> QED BY <2>1, <2>2, <2>3
<1>18. Head \in D /\ j[Head].tag = 1 /\ j[Head].size = 0
  <2>1. Head \in D /\ blk[Head].tag = 1 /\ blk[Head].size = 0
    BY DEF IsList, Tiled
  <2> QED BY <2>1, <1>3, <1>12
<1>19. Tiled(j)
  <2> HIDE DEF D, new
  <2> QED BY <1>6, <1>16, <1>17, <1>18 DEF Tiled
<1>20. /\ DOMAIN j = D \cup {new}
       /\ new \notin D
       /\ \A x \in D \ {b} : /\ j[x].size = blk[x].size
                             /\ j[x].next = blk[x].next
                             /\ j[x].tag = blk[x].tag
       /\ j[b].tag = 1 /\ j[b].size = size /\ j[b].next = new
       /\ j[new].tag = 0 /\ j[new].next = n
       /\ IsList(j) /\ Tiled(j)
  BY <1>4, <1>6, <1>7, <1>8, <1>12, <1>15, <1>19
<1> QED BY <1>20 DEF j

-----------------------------------------------------------------------------
\* Merging a free block into a free one before it leaves the used blocks as they
\* are, the rover at a block, and only the merged block may still meet a free one.
LEMMA MergeWorks ==
    ASSUME NEW blk, IsList(blk), Tiled(blk), NEW r \in DOMAIN blk,
           NEW b \in DOMAIN blk, NEW c, c = blk[b].next,
           blk[b].tag = 0, blk[c].tag = 0, NEW S, MergedBut(blk, S)
    PROVE  LET k == Merge([list |-> blk, rover |-> r], b, c)
           IN  /\ IsList(k.list) /\ Tiled(k.list)
               /\ b \in DOMAIN k.list /\ k.list[b].tag = 0
               /\ k.list[b].next = blk[c].next
               /\ k.list[blk[c].next].tag = blk[blk[c].next].tag
               /\ MergedBut(k.list, S \cup {b})
               /\ SameUsed(blk, k.list)
               /\ k.rover \in DOMAIN k.list
<1> DEFINE D == DOMAIN blk
           j == Join(blk, b, c)
<1>1. b # Head /\ c # Head /\ c \in D
  <2>1. blk[Head].tag = 1
    BY DEF Tiled
  <2>2. \A x \in D : blk[x].next \in D
    BY DEF Tiled
  <2> QED BY <2>1, <2>2
<1>2. /\ DOMAIN j = D \ {c}
      /\ \A x \in D \ {c} :
           /\ j[x].tag = blk[x].tag
           /\ x # b => j[x].size = blk[x].size /\ j[x].next = blk[x].next
      /\ j[b].next = blk[c].next
      /\ b # c
      /\ IsList(j) /\ Tiled(j)
  <2>1. b \in DOMAIN blk \ {Head}
    BY <1>1
  <2>2. IsList(j) /\ Tiled(j) /\ JoinedAs(blk, b, c, j)
    BY <1>1, <2>1, JoinKeepsList
  <2> HIDE DEF j
  <2> QED BY <2>2 DEF JoinedAs
<1>3. blk[c].next \in D /\ blk[c].next # c /\ blk[c].prev = b
  <2>1. blk[c].next \in D /\ blk[c].prev = b /\ blk[blk[c].next].prev = c
    BY <1>1 DEF Tiled
  <2> QED BY <2>1, <1>2
<1>4. \A x \in D \ {b} : blk[x].next # c
  <2>1. \A x \in D : blk[blk[x].next].prev = x
    BY DEF Tiled
  <2> QED BY <2>1, <1>3
<1> HIDE DEF j
<1>5. MergedBut(j, S \cup {b})
  <2> SUFFICES ASSUME NEW x \in D \ {c}, x \notin S, x # b, j[x].tag = 0
               PROVE  j[j[x].next].tag # 0
    BY <1>2 DEF MergedBut
  <2>1. blk[x].tag = 0 /\ j[x].next = blk[x].next
    BY <1>2
  <2>2. blk[blk[x].next].tag # 0
    BY <2>1 DEF MergedBut
  <2>3. blk[x].next \in D /\ blk[x].next # c
    BY <1>4 DEF Tiled
  <2> QED BY <2>1, <2>2, <2>3, <1>2
<1>6. SameUsed(blk, j)
  BY <1>2 DEF SameUsed
<1>7. j[b].tag = 0 /\ j[blk[c].next].tag = blk[blk[c].next].tag
  BY <1>2, <1>3
<1> DEFINE k == Merge([list |-> blk, rover |-> r], b, c)
<1>8. k.list = j /\ k.rover = IF r = c THEN b ELSE r
  BY DEF Merge, j
<1>9. k.rover \in DOMAIN j
  BY <1>2, <1>8
<1> HIDE DEF k
<1>10. /\ IsList(k.list) /\ Tiled(k.list)
       /\ b \in DOMAIN k.list /\ k.list[b].tag = 0
       /\ k.list[b].next = blk[c].next
       /\ k.list[blk[c].next].tag = blk[blk[c].next].tag
       /\ MergedBut(k.list, S \cup {b})
       /\ SameUsed(blk, k.list)
       /\ k.rover \in DOMAIN k.list
  BY <1>2, <1>5, <1>6, <1>7, <1>8, <1>9
<1> QED BY <1>10 DEF k

\* The second merge of Z_Free leaves no two free blocks in a row.
LEMMA MergeNextWorks ==
    ASSUME NEW blk, IsList(blk), Tiled(blk), NEW r \in DOMAIN blk,
           NEW b \in DOMAIN blk, blk[b].tag = 0, MergedBut(blk, {b})
    PROVE  LET k == MergeNext([list |-> blk, rover |-> r], b)
           IN  /\ IsList(k.list) /\ Tiled(k.list) /\ Merged(k.list)
               /\ SameUsed(blk, k.list)
               /\ k.rover \in DOMAIN k.list
<1> DEFINE c == blk[b].next
           h == [list |-> blk, rover |-> r]
           k == MergeNext(h, b)
           m == Merge(h, b, c)
<1>1. CASE blk[c].tag = 0
  <2>1. k = m
    BY <1>1 DEF MergeNext
  <2>2. /\ IsList(m.list) /\ Tiled(m.list)
        /\ m.list[b].next = blk[c].next
        /\ m.list[blk[c].next].tag = blk[blk[c].next].tag
        /\ MergedBut(m.list, {b} \cup {b})
        /\ SameUsed(blk, m.list)
        /\ m.rover \in DOMAIN m.list
    BY <1>1, MergeWorks
  <2>3. c \in DOMAIN blk /\ c # b
    <3>1. c \in DOMAIN blk /\ c = After(blk, b) /\ b # Head /\ blk[b].size > 0
      <4>1. blk[Head].tag = 1
        BY DEF Tiled
      <4>2. b # Head
        BY <4>1
      <4> QED BY <4>2 DEF Tiled
    <3>2. b \in Nat /\ blk[b].size \in Nat
      BY ListTypes
    <3> QED BY <3>1, <3>2 DEF After
  <2>4. blk[blk[c].next].tag # 0
    BY <1>1, <2>3 DEF MergedBut
  <2> HIDE DEF m
  <2>5. Merged(m.list)
    BY <2>2, <2>4 DEF Merged, MergedBut
  <2> QED BY <2>1, <2>2, <2>5
<1>2. CASE blk[c].tag # 0
  <2>1. k = h
    BY <1>2 DEF MergeNext
  <2>2. Merged(blk)
    BY <1>2 DEF Merged, MergedBut
  <2>3. SameUsed(blk, blk)
    BY DEF SameUsed
  <2> QED BY <2>1, <2>2, <2>3
<1> QED BY <1>1, <1>2

\* Z_Free after it marked its block as free: both merges together.
LEMMA ReleaseWorks ==
    ASSUME NEW blk, IsList(blk), Tiled(blk), NEW r \in DOMAIN blk,
           NEW b \in DOMAIN blk, blk[b].tag = 0,
           MergedBut(blk, {b, blk[b].prev})
    PROVE  LET k == Release([list |-> blk, rover |-> r], b)
           IN  /\ IsList(k.list) /\ Tiled(k.list) /\ Merged(k.list)
               /\ SameUsed(blk, k.list)
               /\ k.rover \in DOMAIN k.list
<1> DEFINE a == blk[b].prev
           h == [list |-> blk, rover |-> r]
           k == Release(h, b)
<1>1. a \in DOMAIN blk /\ blk[a].next = b
  BY DEF Tiled
<1>2. CASE blk[a].tag = 0
  <2> DEFINE m == Merge(h, a, b)
             j == m.list
  <2>1. k = MergeNext(m, a)
    BY <1>2 DEF Release
  <2>2. /\ IsList(j) /\ Tiled(j)
        /\ a \in DOMAIN j /\ j[a].tag = 0
        /\ MergedBut(j, {b, a} \cup {a})
        /\ SameUsed(blk, j)
        /\ m.rover \in DOMAIN j
    BY <1>1, <1>2, MergeWorks
  <2>3. b \notin DOMAIN j
    BY DEF Merge, Join
  <2>4. m = [list |-> j, rover |-> m.rover]
    BY DEF Merge
  <2> DEFINE mr == m.rover
             n == MergeNext([list |-> j, rover |-> mr], a)
  <2>5. mr \in DOMAIN j /\ k = n
    BY <2>1, <2>2, <2>4
  <2> HIDE DEF j, m, mr
  <2>6. MergedBut(j, {a})
    BY <2>2, <2>3 DEF MergedBut
  <2>7. /\ IsList(n.list) /\ Tiled(n.list) /\ Merged(n.list)
        /\ SameUsed(j, n.list)
        /\ n.rover \in DOMAIN n.list
    BY <2>2, <2>5, <2>6, MergeNextWorks
  <2> HIDE DEF n
  <2>8. SameUsed(blk, n.list)
    BY <2>2, <2>7 DEF SameUsed
  <2> QED BY <2>5, <2>7, <2>8
<1>3. CASE blk[a].tag # 0
  <2>1. k = MergeNext(h, b)
    BY <1>3 DEF Release
  <2>2. MergedBut(blk, {b})
    BY <1>3 DEF MergedBut
  <2> QED BY <2>1, <2>2, MergeNextWorks
<1> QED BY <1>2, <1>3

-----------------------------------------------------------------------------
\* A block has room for its header, what was asked for and the trash tester.
LEMMA NeededBounds ==
    \A n \in Nat : Needed(n) \in Nat /\ Needed(n) >= n + HeaderSize + 4
<1> SUFFICES ASSUME NEW n \in Nat
             PROVE  Needed(n) \in Nat /\ Needed(n) >= n + HeaderSize + 4
  OBVIOUS
<1> DEFINE m == n + HeaderSize + 4
<1>1. m \in Nat
  BY SizesAssumption
<1>2. Needed(n) = ((m + 7) \div 8) * 8
  BY SizesAssumption DEF Needed
<1> HIDE DEF m
<1>3. ((m + 7) \div 8) * 8 \in Nat /\ ((m + 7) \div 8) * 8 >= m
  BY <1>1
<1> QED BY <1>2, <1>3 DEF m

\* Where blocks lie, from the list alone.
LEMMA BlockPlaces ==
    ASSUME NEW blk, IsList(blk), Tiled(blk)
    PROVE  /\ Head \in DOMAIN blk /\ First \in DOMAIN blk
           /\ \A x \in DOMAIN blk \ {Head} :
                /\ x \in First .. (ZoneSize - 1) /\ x > Head
                /\ blk[x].size > 0 /\ x + blk[x].size <= ZoneSize
           /\ \A x, y \in DOMAIN blk \ {Head} : x < y => x + blk[x].size <= y
           /\ blk[Head].tag = 1
<1>1. First \in Nat /\ First > Head
  BY SizesAssumption DEF First, Head
<1>2. \A x \in DOMAIN blk \ {Head} : x \in First .. (ZoneSize - 1)
  BY DEF IsList
<1>3. \A x \in DOMAIN blk \ {Head} : x > Head
  BY <1>1, <1>2, SizesAssumption DEF Head
<1> QED BY <1>2, <1>3 DEF IsList, Tiled

\* Moving on from c passes c and no other block (the loop of Z_TagMalloc).
LEMMA PassedNext ==
    ASSUME IsList(block), Tiled(block), rover \in Blocks,
           NEW c \in Blocks, block[c].next # rover,
           NEW b \in Blocks, Passed(b, block[c].next)
    PROVE  Passed(b, c) \/ b = c
<1> DEFINE n == block[c].next
<1>1. n = After(block, c)
  BY DEF Tiled, Blocks
<1>2. /\ \A x \in Blocks \ {Head} :
           /\ x \in First .. (ZoneSize - 1) /\ x > Head
           /\ block[x].size > 0 /\ x + block[x].size <= ZoneSize
      /\ \A x, y \in Blocks \ {Head} : x < y => x + block[x].size <= y
  BY BlockPlaces DEF Blocks
<1>3. \A x \in Blocks : x \in Nat /\ block[x].size \in Nat
  BY ListTypes DEF Blocks
<1>4. First \in Nat /\ ZoneSize \in Nat
  BY SizesAssumption DEF First
<1>5. CASE c = Head
  <2>1. n = First
    BY <1>1, <1>5 DEF After
  <2> QED BY <1>2, <1>3, <1>4, <1>5, <2>1 DEF Passed, Head
<1>6. CASE c # Head /\ c + block[c].size = ZoneSize
  <2>1. n = Head
    BY <1>1, <1>6 DEF After
  <2>2. b <= c
    BY <1>2, <1>3, <1>4, <1>6 DEF Head
  <2>3. rover <= c
    BY <1>2, <1>3, <1>4, <1>6 DEF Head
  <2> QED BY <2>1, <2>2, <2>3, <1>3 DEF Passed, Head
<1>7. CASE c # Head /\ c + block[c].size # ZoneSize
  <2>1. n = c + block[c].size
    BY <1>1, <1>7 DEF After
  <2>2. c < n /\ n \in Nat
    BY <2>1, <1>2, <1>3, <1>7
  <2>3. \A x \in Blocks : x <= c \/ x >= n
    BY <2>1, <1>2, <1>3, <1>7 DEF Head
  <2> HIDE DEF n
  <2>4. block[c].next = n
    BY DEF n
  <2> QED BY <2>2, <2>3, <2>4, <1>3 DEF Passed
<1> QED BY <1>5, <1>6, <1>7

\* At the block before the rover everything else was passed: "scaned all the way
\* around the list".
LEMMA PassedAll ==
    ASSUME IsList(block), Tiled(block), rover \in Blocks,
           NEW c \in Blocks, block[c].next = rover, NEW b \in Blocks
    PROVE  Passed(b, c) \/ b = c
<1>1. rover = After(block, c)
  BY DEF Tiled, Blocks
<1>2. /\ \A x \in Blocks \ {Head} :
           /\ x \in First .. (ZoneSize - 1) /\ x > Head
           /\ block[x].size > 0 /\ x + block[x].size <= ZoneSize
      /\ \A x, y \in Blocks \ {Head} : x < y => x + block[x].size <= y
  BY BlockPlaces DEF Blocks
<1>3. \A x \in Blocks : x \in Nat /\ block[x].size \in Nat
  BY ListTypes DEF Blocks
<1>4. First \in Nat /\ First > 0 /\ ZoneSize \in Nat
  BY SizesAssumption DEF First
<1>5. CASE c = Head
  <2>1. rover = First
    BY <1>1, <1>5 DEF After
  <2> QED BY <1>2, <1>3, <1>4, <1>5, <2>1 DEF Passed, Head
<1>6. CASE c # Head /\ c + block[c].size = ZoneSize
  <2>1. rover = Head
    BY <1>1, <1>6 DEF After
  <2>2. b <= c
    BY <1>2, <1>3, <1>4, <1>6 DEF Head
  <2> QED BY <2>1, <2>2, <1>3 DEF Passed, Head
<1>7. CASE c # Head /\ c + block[c].size # ZoneSize
  <2>1. rover = c + block[c].size
    BY <1>1, <1>7 DEF After
  <2>2. c < rover
    BY <2>1, <1>2, <1>3, <1>7
  <2>3. b <= c \/ b >= rover
    BY <2>1, <1>2, <1>3, <1>7 DEF Head
  <2>4. rover \in Nat /\ c \in Nat /\ b \in Nat
    BY <1>3
  <2>5. Passed(b, c) <=> rover <= b \/ b < c
    BY <2>2, <2>4 DEF Passed
  <2> QED BY <2>2, <2>3, <2>4, <2>5
<1> QED BY <1>5, <1>6, <1>7

-----------------------------------------------------------------------------
\* One iteration of the search that does not find a block passes one block that
\* does not fit; and the block the search looks at next is in the list.
LEMMA AdvanceWorks ==
    ASSUME ZoneInv, pc = "scan", ~AllAround(scan)
    PROVE  LET s == Advance(scan)
           IN  /\ s.base \in Blocks /\ s.rover \in Blocks
               /\ s.start = scan.start /\ s.asked = scan.asked
               /\ s \in [base : Nat, rover : Nat, start : Nat, asked : Nat]
               /\ ~Fits(s.base, scan.asked) =>
                    /\ \A b \in Blocks : Passed(b, s.rover) => ~Fits(b, scan.asked)
                    /\ \/ s.rover = s.base
                       \/ block[s.base].tag = 0 /\ s.rover = block[s.base].next
<1> DEFINE s == Advance(scan)
           n == block[scan.rover].next
<1>1. /\ IsList(block) /\ Tiled(block) /\ Merged(block) /\ rover \in Blocks
      /\ scan \in [base : Nat, rover : Nat, start : Nat, asked : Nat]
      /\ Searching
  BY DEF ZoneInv, TypeOK, SearchInv
<1>2. /\ scan.base \in Blocks /\ scan.rover \in Blocks
      /\ scan.start = block[rover].prev /\ scan.rover # scan.start
  BY <1>1 DEF Searching, AllAround
<1>3. \A x \in Blocks : block[x].next \in Blocks /\ block[block[x].next].prev = x
  BY <1>1 DEF Tiled, Blocks
<1>4. n \in Blocks /\ n # rover
  BY <1>2, <1>3
<1>5. \A x \in Blocks : x \in Nat /\ block[x].tag \in {0, 1}
  BY <1>1, ListTypes DEF Blocks
<1>6. s = [scan EXCEPT !.rover = n,
                       !.base = IF block[scan.rover].tag # 0 THEN n ELSE @]
  BY DEF Advance
<1>7. /\ s.rover = n
      /\ s.base = IF block[scan.rover].tag # 0 THEN n ELSE scan.base
      /\ s.start = scan.start /\ s.asked = scan.asked
      /\ s \in [base : Nat, rover : Nat, start : Nat, asked : Nat]
  <2> n \in Nat
    BY <1>4, <1>5
  <2> HIDE DEF s, n
  <2> QED BY <1>1, <1>6
<1> HIDE DEF s, n
<1>8. \A b \in Blocks : Passed(b, n) => Passed(b, scan.rover) \/ b = scan.rover
  BY <1>1, <1>2, <1>4, PassedNext DEF n
<1>9. \A b \in Blocks : Passed(b, scan.rover) => ~Fits(b, scan.asked)
  BY <1>1 DEF Searching
<1>10. ASSUME ~Fits(s.base, scan.asked)
       PROVE  ~Fits(scan.rover, scan.asked)
  <2>1. CASE block[scan.rover].tag # 0
    BY <2>1 DEF Fits
  <2>2. CASE block[scan.rover].tag = 0 /\ scan.rover = scan.base
    BY <2>2, <1>7, <1>10
  <2>3. CASE /\ block[scan.rover].tag = 0 /\ block[scan.base].tag = 0
             /\ scan.rover = block[scan.base].next
    BY <2>3, <1>1, <1>2 DEF Merged, Blocks
  <2> QED BY <2>1, <2>2, <2>3, <1>1 DEF Searching
<1>11. \/ s.rover = s.base
       \/ block[s.base].tag = 0 /\ s.rover = block[s.base].next
  <2>1. CASE block[scan.rover].tag # 0
    BY <2>1, <1>7
  <2>2. CASE block[scan.rover].tag = 0 /\ scan.rover = scan.base
    BY <2>2, <1>7 DEF n
  <2>3. CASE /\ block[scan.rover].tag = 0 /\ block[scan.base].tag = 0
             /\ scan.rover = block[scan.base].next
    BY <2>3, <1>1, <1>2 DEF Merged, Blocks
  <2> QED BY <2>1, <2>2, <2>3, <1>1 DEF Searching
<1>12. s.base \in Blocks
  BY <1>2, <1>4, <1>7
<1>13. ~Fits(s.base, scan.asked) =>
         \A b \in Blocks : Passed(b, s.rover) => ~Fits(b, scan.asked)
  BY <1>7, <1>8, <1>9, <1>10
<1> QED BY <1>4, <1>7, <1>11, <1>12, <1>13 DEF s

\* When the search is all the way around, no free block fits.
LEMMA AllAroundWorks ==
    ASSUME ZoneInv, pc = "scan", AllAround(scan)
    PROVE  \A b \in Blocks : ~Fits(b, scan.asked)
<1>1. /\ IsList(block) /\ Tiled(block) /\ Merged(block) /\ rover \in Blocks
      /\ Searching
  BY DEF ZoneInv, TypeOK, SearchInv
<1> DEFINE c == scan.rover
<1>2. c \in Blocks /\ c = block[rover].prev /\ scan.base \in Blocks
  BY <1>1 DEF Searching, AllAround
<1>3. block[c].next = rover /\ block[rover].next \in Blocks
  BY <1>1, <1>2 DEF Tiled, Blocks
<1>4. c # rover
  <2>1. block[Head].next = First /\ First # Head /\ First \in Blocks /\ Head \in Blocks
    BY <1>1, SizesAssumption DEF Tiled, IsList, After, Blocks, First, Head
  <2>2. \A x \in Blocks \ {Head} : x \in Nat /\ x > Head /\ block[x].size > 0
                                   /\ block[x].size \in Nat
    BY <1>1, BlockPlaces, ListTypes DEF Blocks
  <2>3. block[c].next = After(block, c)
    BY <1>1, <1>2 DEF Tiled, Blocks
  <2>4. CASE c = Head
    BY <2>1, <2>4, <1>3
  <2>5. CASE c # Head
    <3>1. block[c].next = Head \/ block[c].next = c + block[c].size
      BY <2>3, <2>5 DEF After
    <3>2. block[c].next # c
      BY <2>2, <2>5, <3>1, <1>2
    <3> QED BY <3>2, <1>3
  <2> QED BY <2>4, <2>5
<1>5. ~Fits(c, scan.asked)
  <2>1. CASE /\ c = scan.base
             /\ scan.base = rover \/ ~Fits(scan.base, scan.asked)
    BY <2>1, <1>4
  <2>2. CASE block[scan.base].tag = 0 /\ c = block[scan.base].next
    BY <2>2, <1>1, <1>2 DEF Merged, Blocks, Fits
  <2> QED BY <2>1, <2>2, <1>1 DEF Searching
<1>6. \A b \in Blocks : Passed(b, c) \/ b = c
  BY <1>1, <1>2, <1>3, PassedAll
<1> HIDE DEF c
<1>7. \A b \in Blocks : Passed(b, c) => ~Fits(b, scan.asked)
  BY <1>1 DEF Searching, c
<1> QED BY <1>5, <1>6, <1>7

-----------------------------------------------------------------------------
\* The action steps.  The search changes nothing but its locals.
LEMMA SearchPreserves ==
    ASSUME ZoneInv,
           \/ \E n \in Requests : BeginSearch(n)
           \/ KeepSearching
           \/ Refuse
    PROVE  ZoneInv'
<1>1. /\ IsList(block) /\ Tiled(block) /\ Merged(block) /\ rover \in Blocks
      /\ scan \in [base : Nat, rover : Nat, start : Nat, asked : Nat]
      /\ Held
  BY DEF ZoneInv, TypeOK
<1>2. block' = block /\ rover' = rover /\ live' = live
  BY DEF BeginSearch, KeepSearching, Refuse
<1>3. /\ IsList(block)' /\ Tiled(block)' /\ Merged(block)' /\ Held'
      /\ (rover \in Blocks)'
  BY <1>1, <1>2 DEF IsList, Tiled, After, Merged, Held, Blocks
<1>4. \A x \in Blocks : x \in Nat /\ block[x].prev \in Nat
  BY <1>1, ListTypes DEF Blocks
<1>5. CASE \E n \in Requests : BeginSearch(n)
  <2>1. PICK n \in Requests : BeginSearch(n)
    BY <1>5
  <2>2. /\ pc' = "scan"
        /\ scan' = [base |-> rover, rover |-> rover,
                    start |-> block[rover].prev, asked |-> n]
    BY <2>1 DEF BeginSearch
  <2>3. n \in Nat
    BY RequestsAssumption
  <2>4. TypeOK'
    BY <1>1, <1>3, <1>4, <2>2, <2>3 DEF TypeOK
  <2>5. \A b \in Blocks : ~Passed(b, rover)
    BY <1>1, <1>4 DEF Passed
  <2>6. /\ scan'.base = rover /\ scan'.rover = rover
        /\ scan'.start = block[rover].prev /\ scan'.asked = n
    BY <2>2
  <2>7. \A b \in Blocks : ~Passed(b, scan.rover)'
    BY <1>2, <2>5, <2>6 DEF Passed
  <2>8. Searching'
    BY <1>1, <1>2, <2>6, <2>7 DEF Searching, Blocks
  <2> QED BY <1>3, <2>4, <2>8 DEF ZoneInv, SearchInv
<1>6. CASE KeepSearching
  <2> DEFINE s == Advance(scan)
  <2>1. pc = "scan" /\ pc' = "scan" /\ scan' = s /\ ~AllAround(scan)
        /\ ~Fits(s.base, scan.asked)
    BY <1>6 DEF KeepSearching
  <2>2. /\ s.base \in Blocks /\ s.rover \in Blocks
        /\ s.start = scan.start /\ s.asked = scan.asked
        /\ s \in [base : Nat, rover : Nat, start : Nat, asked : Nat]
        /\ \A b \in Blocks : Passed(b, s.rover) => ~Fits(b, scan.asked)
        /\ \/ s.rover = s.base
           \/ block[s.base].tag = 0 /\ s.rover = block[s.base].next
    BY <2>1, AdvanceWorks
  <2> HIDE DEF s
  <2>3. TypeOK'
    BY <1>3, <2>1, <2>2 DEF TypeOK
  <2>4. Searching
    BY <2>1 DEF ZoneInv, SearchInv
  <2>5. \A b \in Blocks : Passed(b, scan.rover)' => ~Fits(b, scan.asked)'
    BY <1>2, <2>1, <2>2 DEF Passed, Fits
  <2>6. ~Fits(scan.base, scan.asked)'
    BY <1>2, <2>1, <2>2 DEF Fits
  <2>7. Searching'
    BY <1>2, <2>1, <2>2, <2>4, <2>5, <2>6 DEF Searching, Blocks
  <2> QED BY <1>3, <2>3, <2>7 DEF ZoneInv, SearchInv
<1>7. CASE Refuse
  <2>1. pc' = "exited" /\ scan' = scan
    BY <1>7 DEF Refuse
  <2> QED BY <1>1, <1>3, <2>1 DEF ZoneInv, TypeOK, SearchInv
<1> QED BY <1>5, <1>6, <1>7

\* An allocated block is marked, or split off a larger one.
LEMMA FoundPreserves ==
    ASSUME ZoneInv, Found
    PROVE  ZoneInv'
<1> DEFINE b == Advance(scan).base
           size == Needed(scan.asked)
           D == DOMAIN block
<1>1. /\ IsList(block) /\ Tiled(block) /\ Merged(block) /\ rover \in D
      /\ Held /\ pc = "scan" /\ Searching
  BY DEF ZoneInv, TypeOK, SearchInv, Found, Blocks
<1>2. b \in D /\ b # Head /\ block[b].tag = 0 /\ block[b].size >= size
  <2>1. b \in D
    BY AdvanceWorks DEF Found, Blocks
  <2>2. Fits(b, scan.asked)
    BY DEF Found
  <2>3. block[Head].tag = 1
    BY <1>1 DEF Tiled
  <2> QED BY <2>1, <2>2, <2>3 DEF Fits
<1>3. scan.asked \in Nat /\ size \in Nat /\ size >= scan.asked + HeaderSize + 4
  BY <1>1, RequestsAssumption, NeededBounds DEF Searching
<1>4. size > 0
  BY <1>3, SizesAssumption
<1>5. \A x \in D : /\ x \in Nat /\ block[x].size \in Nat /\ block[x].tag \in {0, 1}
                   /\ block[x].next \in D
  BY <1>1, ListTypes DEF Tiled
<1>6. block[block[b].next].tag # 0
  BY <1>1, <1>2 DEF Merged
<1> HIDE DEF b, size
<1>7. /\ block' = IF block[b].size - size > MINFRAGMENT
                  THEN Split(block, b, size)
                  ELSE [block EXCEPT ![b].tag = 1]
      /\ rover' = block'[b].next
      /\ live' = [p \in DOMAIN live \cup {Pointer(b)} |->
                    IF p = Pointer(b) THEN scan.asked ELSE live[p]]
      /\ pc' = "idle" /\ scan' = NoSearch
  BY DEF Found, b, size
\* In both cases: what the new list is made of.
<1>8. /\ IsList(block') /\ Tiled(block') /\ Merged(block')
      /\ D \subseteq DOMAIN block'
      /\ \A x \in D \ {b} : block'[x].tag = block[x].tag
                            /\ block'[x].size = block[x].size
      /\ block'[b].tag = 1 /\ block'[b].size >= size /\ block'[b].size \in Nat
      /\ \A x \in DOMAIN block' \ D : block'[x].tag = 0
  <2>1. CASE block[b].size - size > MINFRAGMENT
    <3> DEFINE j == Split(block, b, size)
               new == b + size
    <3>1. size < block[b].size
      BY <2>1, <1>2, <1>3, <1>5, SizesAssumption
    <3>2. b \in D \ {Head}
      BY <1>2
    <3>3. /\ DOMAIN j = D \cup {new}
          /\ new \notin D
          /\ \A x \in D \ {b} : /\ j[x].size = block[x].size
                                /\ j[x].next = block[x].next
                                /\ j[x].tag = block[x].tag
          /\ j[b].tag = 1 /\ j[b].size = size /\ j[b].next = new
          /\ j[new].tag = 0 /\ j[new].next = block[b].next
          /\ IsList(j) /\ Tiled(j)
      BY <3>1, <3>2, <1>1, <1>3, <1>4, SplitKeepsList
    <3> HIDE DEF j, new
    <3>4. Merged(j)
      <4> SUFFICES ASSUME NEW x \in D \cup {new}, j[x].tag = 0
                   PROVE  j[j[x].next].tag # 0
        BY <3>3 DEF Merged
      <4>1. CASE x = new
        BY <4>1, <3>3, <1>2, <1>5, <1>6
      <4>2. CASE x \in D /\ x # b
        <5>1. block[x].tag = 0 /\ j[x].next = block[x].next
          BY <4>2, <3>3
        <5>2. block[block[x].next].tag # 0
          BY <5>1, <4>2, <1>1 DEF Merged
        <5> QED BY <5>1, <5>2, <4>2, <3>3, <1>5
      <4> QED BY <4>1, <4>2, <3>3
    <3>5. block' = j
      BY <2>1, <1>7 DEF j
    <3> QED BY <3>3, <3>4, <3>5, <1>3
  <2>2. CASE ~(block[b].size - size > MINFRAGMENT)
    <3> DEFINE j == [block EXCEPT ![b].tag = 1]
    <3>1. b \in D \ {Head} /\ 1 \in {0, 1}
      BY <1>2
    <3>2. /\ DOMAIN j = D
          /\ \A x \in D : /\ j[x].size = block[x].size
                          /\ j[x].next = block[x].next
                          /\ x # b => j[x].tag = block[x].tag
          /\ j[b].tag = 1
          /\ IsList(j) /\ Tiled(j)
      BY <3>1, <1>1, MarkKeepsList
    <3> HIDE DEF j
    <3>3. Merged(j)
      <4> SUFFICES ASSUME NEW x \in D, j[x].tag = 0
                   PROVE  j[j[x].next].tag # 0
        BY <3>2 DEF Merged
      <4>1. x # b /\ block[x].tag = 0 /\ j[x].next = block[x].next
        BY <3>2
      <4>2. block[block[x].next].tag # 0
        BY <4>1, <1>1 DEF Merged
      <4> QED BY <4>1, <4>2, <3>2, <1>5
    <3>4. block' = j
      BY <2>2, <1>7 DEF j
    <3> QED BY <3>2, <3>3, <3>4, <1>2, <1>5
  <2> QED BY <2>1, <2>2
<1>9. TypeOK'
  <2>1. rover' \in DOMAIN block'
    BY <1>2, <1>7, <1>8 DEF Tiled
  <2>2. NoSearch \in [base : Nat, rover : Nat, start : Nat, asked : Nat]
    BY DEF NoSearch, Head
  <2> QED BY <1>7, <1>8, <2>1, <2>2 DEF TypeOK, Blocks
<1>10. Held'
  <2>1. /\ \A p \in DOMAIN live : p \in Nat /\ p - HeaderSize \in D \ {Head}
        /\ \A x \in D \ {Head} : block[x].tag # 0 <=> Pointer(x) \in DOMAIN live
        /\ \A p \in DOMAIN live :
             /\ live[p] \in Nat
             /\ HeaderSize + live[p] + 4 <= block[p - HeaderSize].size
    BY <1>1 DEF Held, Blocks
  <2>2. /\ Pointer(b) \in Nat /\ Pointer(b) - HeaderSize = b
        /\ Pointer(b) \notin DOMAIN live
    BY <2>1, <1>2, <1>5, SizesAssumption DEF Pointer
  <2>3. DOMAIN live' = DOMAIN live \cup {Pointer(b)}
    BY <1>7
  <2>4. /\ live'[Pointer(b)] = scan.asked
        /\ \A p \in DOMAIN live : live'[p] = live[p]
    BY <1>7, <2>2
  <2>5. ASSUME NEW p \in DOMAIN live'
        PROVE  /\ p \in Nat /\ p - HeaderSize \in DOMAIN block' \ {Head}
               /\ live'[p] \in Nat
               /\ HeaderSize + live'[p] + 4 <= block'[p - HeaderSize].size
    <3>1. CASE p = Pointer(b)
      <4>1. HeaderSize + scan.asked + 4 <= block'[b].size
        BY <1>3, <1>8, SizesAssumption
      <4> QED BY <3>1, <4>1, <2>2, <2>4, <1>2, <1>3, <1>8
    <3>2. CASE p \in DOMAIN live
      <4>1. p - HeaderSize # b
        <5>1. p - HeaderSize = b => p = Pointer(b)
          BY <3>2, <2>1, <1>2, <1>5, SizesAssumption DEF Pointer
        <5> QED BY <5>1, <3>2, <2>2
      <4>2. block'[p - HeaderSize].size = block[p - HeaderSize].size
        BY <3>2, <4>1, <2>1, <1>8
      <4> QED BY <3>2, <4>2, <2>1, <2>4, <1>8
    <3> QED BY <3>1, <3>2, <2>3
  <2>6. ASSUME NEW x \in DOMAIN block' \ {Head}
        PROVE  block'[x].tag # 0 <=> Pointer(x) \in DOMAIN live'
    <3>1. x \in Nat
      BY <1>8, ListTypes
    <3>2. Pointer(x) = Pointer(b) => x = b
      BY <3>1, <1>2, <1>5, SizesAssumption DEF Pointer
    <3>3. CASE x = b
      BY <3>3, <2>3, <1>8
    <3>4. CASE x \in D /\ x # b
      BY <3>4, <3>2, <2>1, <2>3, <1>8
    <3>5. CASE x \notin D
      <4>1. Pointer(x) - HeaderSize = x
        BY <3>1, SizesAssumption DEF Pointer
      <4>2. Pointer(x) \notin DOMAIN live
        BY <3>5, <4>1, <2>1
      <4> QED BY <3>5, <4>2, <3>2, <2>3, <1>2, <1>8
    <3> QED BY <3>3, <3>4, <3>5
  <2> QED BY <2>5, <2>6 DEF Held, Blocks
<1> QED BY <1>7, <1>8, <1>9, <1>10 DEF ZoneInv, SearchInv

\* A freed block is merged with its neighbours; every other block in use stays.
LEMMA FreePreserves ==
    ASSUME ZoneInv, NEW p \in DOMAIN live, Z_Free(p)
    PROVE  ZoneInv'
<1> DEFINE b == p - HeaderSize
           D == DOMAIN block
           marked == [block EXCEPT ![b].tag = 0]
           h == Release([list |-> marked, rover |-> rover], b)
<1>1. /\ IsList(block) /\ Tiled(block) /\ Merged(block) /\ rover \in D
      /\ scan \in [base : Nat, rover : Nat, start : Nat, asked : Nat]
      /\ Held
  BY DEF ZoneInv, TypeOK, Blocks
<1>2. /\ pc = "idle" /\ pc' = pc /\ scan' = scan
      /\ block' = h.list /\ rover' = h.rover
      /\ live' = [q \in DOMAIN live \ {p} |-> live[q]]
  BY DEF Z_Free
<1>3. /\ \A q \in DOMAIN live : q \in Nat /\ q - HeaderSize \in D \ {Head}
      /\ \A x \in D \ {Head} : block[x].tag # 0 <=> Pointer(x) \in DOMAIN live
      /\ \A q \in DOMAIN live :
           /\ live[q] \in Nat
           /\ HeaderSize + live[q] + 4 <= block[q - HeaderSize].size
  BY <1>1 DEF Held, Blocks
<1>4. b \in D \ {Head} /\ p \in Nat
  BY <1>3
<1>5. \A x \in D : x \in Nat /\ block[x].next \in D /\ block[x].prev \in D
                   /\ block[block[x].next].prev = x
  BY <1>1, ListTypes DEF Tiled
<1> HIDE DEF b
<1>6. /\ DOMAIN marked = D
      /\ \A x \in D : /\ marked[x].size = block[x].size
                      /\ marked[x].next = block[x].next
                      /\ marked[x].prev = block[x].prev
                      /\ x # b => marked[x].tag = block[x].tag
      /\ marked[b].tag = 0
      /\ IsList(marked) /\ Tiled(marked)
  <2>1. 0 \in {0, 1}
    OBVIOUS
  <2> QED BY <2>1, <1>1, <1>4, MarkKeepsList
<1> DEFINE S == {b, marked[b].prev}
<1> HIDE DEF marked
<1>7. MergedBut(marked, S)
  <2> SUFFICES ASSUME NEW x \in D \ S, marked[x].tag = 0
               PROVE  marked[marked[x].next].tag # 0
    BY <1>6 DEF MergedBut
  <2>1. x # b /\ x # block[b].prev /\ block[x].tag = 0
    BY <1>4, <1>6
  <2>2. block[block[x].next].tag # 0
    BY <2>1, <1>1 DEF Merged
  <2>3. block[x].next \in D /\ block[x].next # b
    BY <2>1, <1>5
  <2> QED BY <2>2, <2>3, <1>6
<1>8. /\ IsList(h.list) /\ Tiled(h.list) /\ Merged(h.list)
      /\ SameUsed(marked, h.list)
      /\ h.rover \in DOMAIN h.list
  <2>1. rover \in DOMAIN marked /\ b \in DOMAIN marked
    BY <1>1, <1>4, <1>6
  <2> QED BY <2>1, <1>6, <1>7, ReleaseWorks
<1> HIDE DEF h
<1>9. TypeOK'
  BY <1>1, <1>2, <1>8 DEF TypeOK, Blocks
<1>10. Held'
  <2>1. /\ \A x \in D : marked[x].tag # 0 =>
             /\ x \in DOMAIN block' /\ block'[x].tag # 0
             /\ block'[x].size = block[x].size
        /\ \A x \in DOMAIN block' : block'[x].tag # 0 => x \in D /\ marked[x].tag # 0
    BY <1>2, <1>6, <1>8 DEF SameUsed
  <2>2. /\ DOMAIN live' = DOMAIN live \ {p}
        /\ \A q \in DOMAIN live' : live'[q] = live[q]
    BY <1>2
  <2>3. Pointer(b) = p
    BY <1>3, <1>4, SizesAssumption DEF b, Pointer
  <2>4. \A x \in D \ {Head} : x # b => Pointer(x) # p
    <3> SUFFICES ASSUME NEW x \in D, x # b PROVE Pointer(x) # Pointer(b)
      BY <2>3
    <3>1. x \in Nat /\ b \in Nat
      BY <1>4, <1>5
    <3> QED BY <3>1, SizesAssumption DEF Pointer
  <2>5. ASSUME NEW q \in DOMAIN live'
        PROVE  /\ q \in Nat /\ q - HeaderSize \in DOMAIN block' \ {Head}
               /\ live'[q] \in Nat
               /\ HeaderSize + live'[q] + 4 <= block'[q - HeaderSize].size
    <3> DEFINE x == q - HeaderSize
    <3>1. q \in DOMAIN live /\ q # p /\ q \in Nat /\ x \in D \ {Head}
      BY <2>2, <1>3
    <3>2. Pointer(x) = q /\ x # b
      BY <3>1, <1>4, SizesAssumption DEF Pointer, b
    <3> HIDE DEF x
    <3>3. marked[x].tag # 0
      BY <3>1, <3>2, <1>3, <1>6
    <3>4. x \in DOMAIN block' \ {Head} /\ block'[x].size = block[x].size
      BY <3>1, <3>3, <2>1
    <3>5. live'[q] \in Nat /\ HeaderSize + live'[q] + 4 <= block[x].size
      BY <3>1, <2>2, <1>3 DEF x
    <3> QED BY <3>1, <3>4, <3>5 DEF x
  <2>6. ASSUME NEW x \in DOMAIN block' \ {Head}
        PROVE  block'[x].tag # 0 <=> Pointer(x) \in DOMAIN live'
    <3>1. ASSUME block'[x].tag # 0
          PROVE  Pointer(x) \in DOMAIN live'
      <4>1. x \in D /\ x # b /\ block[x].tag # 0
        BY <3>1, <2>1, <1>6
      <4> QED BY <4>1, <2>2, <2>4, <1>3
    <3>2. ASSUME Pointer(x) \in DOMAIN live'
          PROVE  block'[x].tag # 0
      <4>1. x \in Nat
        BY <1>2, <1>8, ListTypes
      <4>2. Pointer(x) - HeaderSize = x
        BY <4>1, SizesAssumption DEF Pointer
      <4>3. x \in D \ {Head} /\ Pointer(x) \in DOMAIN live /\ x # b
        BY <3>2, <4>2, <2>2, <2>3, <1>3
      <4>4. marked[x].tag # 0
        BY <4>3, <1>3, <1>6
      <4> QED BY <4>3, <4>4, <2>1
    <3> QED BY <3>1, <3>2
  <2> QED BY <2>5, <2>6 DEF Held, Blocks
<1> QED BY <1>2, <1>8, <1>9, <1>10 DEF ZoneInv, SearchInv

\* Z_ClearZone makes one free block of the whole zone.
LEMMA InitEstablishes == Init => ZoneInv
<1> SUFFICES ASSUME Init PROVE ZoneInv
  OBVIOUS
<1> DEFINE head == [size |-> 0, tag |-> 1, next |-> First, prev |-> First]
           all == [size |-> ZoneSize - ZoneHeader, tag |-> 0,
                   next |-> Head, prev |-> Head]
<1>1. First \in Nat /\ First # Head /\ First > 0 /\ ZoneSize - ZoneHeader \in Nat
      /\ ZoneSize - ZoneHeader > 0 /\ First + (ZoneSize - ZoneHeader) = ZoneSize
      /\ ZoneSize \in Nat /\ First < ZoneSize
  BY SizesAssumption DEF First, Head
<1>2. /\ DOMAIN block = {Head, First}
      /\ block[Head] = head /\ block[First] = all
  BY <1>1 DEF Init
<1>3. head \in Memblock /\ all \in Memblock
  BY <1>1 DEF Memblock, Head
<1>4. block = [x \in {Head, First} |-> block[x]]
  BY DEF Init
<1>5. IsList(block)
  <2>1. block \in [{Head, First} -> Memblock]
    BY <1>2, <1>3, <1>4
  <2>2. First \in First .. (ZoneSize - 1)
    BY <1>1
  <2> QED BY <2>1, <2>2, <1>2 DEF IsList
<1>6. Tiled(block)
  <2>1. After(block, Head) = First /\ After(block, First) = Head
    BY <1>1, <1>2 DEF After
  <2>2. \A x \in {Head, First} :
          /\ x # Head => block[x].size > 0 /\ x + block[x].size <= ZoneSize
          /\ block[x].next = After(block, x)
          /\ block[x].next \in {Head, First} /\ block[x].prev \in {Head, First}
          /\ block[block[x].next].prev = x
          /\ block[block[x].prev].next = x
    BY <2>1, <1>1, <1>2
  <2>3. \A x, y \in {Head, First} \ {Head} : ~(x < y)
    BY <1>1
  <2> QED BY <2>2, <2>3, <1>2 DEF Tiled
<1>7. Merged(block)
  BY <1>2 DEF Merged
<1>8. Held
  <2>1. DOMAIN live = {}
    BY DEF Init
  <2>2. \A x \in Blocks \ {Head} : block[x].tag = 0
    BY <1>2 DEF Blocks
  <2> QED BY <2>1, <2>2 DEF Held
<1>9. TypeOK
  BY <1>2, <1>5 DEF TypeOK, Init, NoSearch, Blocks, Head
<1> QED BY <1>5, <1>6, <1>7, <1>8, <1>9 DEF ZoneInv, SearchInv, Init

\* One step of the program, or none.
LEMMA StepPreserves == ZoneInv /\ [Next]_vars => ZoneInv'
<1> SUFFICES ASSUME ZoneInv, [Next]_vars PROVE ZoneInv'
  OBVIOUS
<1>1. CASE \E n \in Requests : BeginSearch(n)
  BY <1>1, SearchPreserves
<1>2. CASE KeepSearching
  BY <1>2, SearchPreserves
<1>3. CASE Found
  BY <1>3, FoundPreserves
<1>4. CASE Refuse
  BY <1>4, SearchPreserves
<1>5. CASE \E p \in DOMAIN live : Z_Free(p)
  BY <1>5, FreePreserves
<1>6. CASE UNCHANGED vars
  BY <1>6 DEF vars, ZoneInv, TypeOK, IsList, Tiled, After, Merged, Held, Blocks,
              SearchInv, Searching, Passed, Fits
<1> QED BY <1>1, <1>2, <1>3, <1>4, <1>5, <1>6 DEF Next

-----------------------------------------------------------------------------
\* The blocks always tile the zone, no two free ones meet, the rover is at one of
\* them, and the blocks in use are those that callers hold.
THEOREM ZoneInvariant == Spec => []ZoneInv
<1> QED BY InitEstablishes, StepPreserves, PTL DEF Spec

\* Z_TagMalloc returns NULL only when no free block is large enough.
THEOREM RefusalJustified == Spec => []RefusedOnlyWhenNothingFits
<1>1. Init => RefusedOnlyWhenNothingFits
  BY DEF Init, RefusedOnlyWhenNothingFits
<1>2. ZoneInv /\ RefusedOnlyWhenNothingFits /\ [Next]_vars
        => RefusedOnlyWhenNothingFits'
  <2> SUFFICES ASSUME ZoneInv, RefusedOnlyWhenNothingFits, [Next]_vars,
                      pc' = "exited"
               PROVE  (\A b \in Blocks : ~Fits(b, scan.asked))'
    BY DEF RefusedOnlyWhenNothingFits
  <2>1. CASE Refuse
    <3>1. \A b \in Blocks : ~Fits(b, scan.asked)
      BY <2>1, AllAroundWorks DEF Refuse
    <3> QED BY <2>1, <3>1 DEF Refuse, Fits, Blocks
  <2>2. CASE UNCHANGED vars
    BY <2>2 DEF vars, RefusedOnlyWhenNothingFits, Fits, Blocks
  <2>3. CASE Next /\ ~Refuse
    BY <2>3 DEF Next, BeginSearch, KeepSearching, Found, Z_Free
  <2> QED BY <2>1, <2>2, <2>3
<1> QED BY <1>1, <1>2, ZoneInvariant, PTL DEF Spec

\* Every allocation is memory that nobody else holds, inside the zone, and stays so
\* until it is freed: the allocator implements Heap.
THEOREM HeapRefinement == Spec => ImplementsHeap
<1>1. Init => MemoryOfCallers!Init
  BY DEF Init, MemoryOfCallers!Init
<1>2. ZoneInv /\ [Next]_vars => [MemoryOfCallers!Next]_MemoryOfCallers!vars
  <2> SUFFICES ASSUME ZoneInv, [Next]_vars
               PROVE  [MemoryOfCallers!Next]_MemoryOfCallers!vars
    OBVIOUS
  <2>1. CASE (\E n \in Requests : BeginSearch(n)) \/ KeepSearching
    BY <2>1 DEF BeginSearch, KeepSearching, MemoryOfCallers!vars
  <2>2. CASE Found
    <3> DEFINE b == Advance(scan).base
               p == Pointer(b)
               n == scan.asked
    <3>1. /\ IsList(block) /\ Tiled(block) /\ Held /\ n \in Requests /\ pc = "scan"
      BY <2>2 DEF ZoneInv, TypeOK, SearchInv, Searching, Found
    <3>2. b \in Blocks /\ Fits(b, n)
      BY <2>2, AdvanceWorks DEF Found
    <3>3. live' = [q \in DOMAIN live \cup {p} |-> IF q = p THEN n ELSE live[q]]
          /\ pc' = "idle"
      BY <2>2 DEF Found
    <3> HIDE DEF b
    <3>4. /\ \A x \in Blocks \ {Head} :
               /\ x \in First .. (ZoneSize - 1) /\ x > Head
               /\ block[x].size > 0 /\ x + block[x].size <= ZoneSize
          /\ \A x, y \in Blocks \ {Head} : x < y => x + block[x].size <= y
          /\ block[Head].tag = 1
      BY <3>1, BlockPlaces DEF Blocks
    <3>5. \A x \in Blocks : x \in Nat /\ block[x].size \in Nat
      BY <3>1, ListTypes DEF Blocks
    <3>6. b \in Blocks \ {Head} /\ block[b].tag = 0 /\ block[b].size >= Needed(n)
      BY <3>2, <3>4 DEF Fits
    <3>7. n \in Nat /\ Needed(n) \in Nat /\ Needed(n) >= n + HeaderSize + 4
      BY <3>1, RequestsAssumption, NeededBounds
    <3>8. /\ p \in Nat /\ First \in Nat /\ First <= p /\ p + n < b + block[b].size
          /\ b < p
      BY <3>4, <3>5, <3>6, <3>7, SizesAssumption DEF Pointer, First
    <3>9. p + n <= ZoneSize /\ p \in First .. ZoneSize
      BY <3>4, <3>5, <3>6, <3>7, <3>8, SizesAssumption
    <3>10. p \notin DOMAIN live
      BY <3>1, <3>6 DEF Held
    <3>11. ASSUME NEW q \in DOMAIN live
           PROVE  p + n <= q \/ q + live[q] <= p
      <4> DEFINE c == q - HeaderSize
      <4>1. /\ q \in Nat /\ c \in Blocks \ {Head} /\ live[q] \in Nat
            /\ HeaderSize + live[q] + 4 <= block[c].size
        BY <3>1 DEF Held
      <4>2. c \in Nat /\ block[c].size \in Nat /\ q = Pointer(c) /\ q = c + HeaderSize
        BY <4>1, <3>5, SizesAssumption DEF Pointer
      <4> HIDE DEF c
      <4>3. c # b
        BY <4>2, <3>10
      <4>4. CASE c < b
        <5>1. c + block[c].size <= b
          BY <4>1, <4>4, <3>4, <3>6
        <5>2. q + live[q] <= c + block[c].size
          BY <4>1, <4>2, SizesAssumption
        <5> HIDE DEF p
        <5> QED BY <5>1, <5>2, <4>1, <4>2, <3>5, <3>6, <3>8
      <4>5. CASE b < c
        <5>1. b + block[b].size <= c
          BY <4>1, <4>5, <3>4, <3>6
        <5>2. c <= q
          BY <4>2, SizesAssumption
        <5> HIDE DEF p
        <5> QED BY <5>1, <5>2, <4>1, <4>2, <3>5, <3>6, <3>7, <3>8
      <4> QED BY <4>2, <4>3, <4>4, <4>5, <3>5, <3>6
    <3> HIDE DEF p, n
    <3>12. MemoryOfCallers!Malloc(n, p)
      BY <3>3, <3>8, <3>9, <3>10, <3>11 DEF MemoryOfCallers!Malloc
    <3> QED BY <3>1, <3>3, <3>9, <3>12 DEF MemoryOfCallers!Next
  <2>3. CASE Refuse
    BY <2>3 DEF Refuse, MemoryOfCallers!Next
  <2>4. CASE \E p \in DOMAIN live : Z_Free(p)
    <3>1. PICK p \in DOMAIN live : Z_Free(p)
      BY <2>4
    <3>2. MemoryOfCallers!Free(p) /\ pc = "idle" /\ pc' = "idle"
      BY <3>1 DEF Z_Free, MemoryOfCallers!Free
    <3> QED BY <3>2 DEF MemoryOfCallers!Next
  <2>5. CASE UNCHANGED vars
    BY <2>5 DEF vars, MemoryOfCallers!vars
  <2> QED BY <2>1, <2>2, <2>3, <2>4, <2>5 DEF Next
<1> QED BY <1>1, <1>2, ZoneInvariant, PTL DEF Spec, ImplementsHeap,
           MemoryOfCallers!Spec
=============================================================================
