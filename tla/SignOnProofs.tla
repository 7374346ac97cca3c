---------------------------- MODULE SignOnProofs ----------------------------
(***************************************************************************)
(* Proofs about SignOn.tla.  SignOnInv is the inductive invariant: as long *)
(* as no level change overtakes a stage or an answer, there is one of them *)
(* under way at most, and it is in one place.                              *)
(*                                                                         *)
(* A message is read by a loop, which the model writes as a recursive      *)
(* function of the number of commands read.  That such a function exists   *)
(* and what it keeps is proved by induction, from the well-foundedness of  *)
(* < on the natural numbers.                                               *)
(***************************************************************************)
EXTENDS SignOn, SequenceTheorems, WellFoundedInduction, TLAPS

-----------------------------------------------------------------------------
\* Induction, with a set in the place of a predicate.

LEMMA LessThanWellFounded == IsWellFoundedOn({r \in Nat \X Nat : r[1] < r[2]}, Nat)
<1>1. OpToRel(<, Nat) = {r \in Nat \X Nat : r[1] < r[2]}
  BY DEF OpToRel
<1> QED BY <1>1, NatLessThanWellFounded

LEMMA SetInduction ==
    ASSUME NEW T, 0 \in T, \A n \in Nat : n \in T => n + 1 \in T
    PROVE  Nat \subseteq T
<1> DEFINE R == {r \in Nat \X Nat : r[1] < r[2]}
           B == Nat \ T
<1>1. SUFFICES ASSUME B # {} PROVE FALSE
  OBVIOUS
<1>2. IsWellFoundedOn(R, Nat)
  BY LessThanWellFounded
<1>3. B \subseteq Nat
  OBVIOUS
<1>4. PICK x \in B : \A y \in B : ~(<<y, x>> \in R)
  <2> HIDE DEF R, B
  <2> QED BY <1>1, <1>2, <1>3, WFMin
<1>5. x # 0 /\ x \in Nat
  OBVIOUS
<1>6. x - 1 \in Nat /\ x - 1 < x /\ (x - 1) + 1 = x
  BY <1>5
<1>7. x - 1 \notin B
  BY <1>4, <1>5, <1>6
<1> QED BY <1>6, <1>7

\* The same up to a bound: what holds at first and is kept by each step of a loop
\* holds after all of them.
LEMMA LoopInduction ==
    ASSUME NEW N \in Nat, NEW P, 0 \in P,
           \A i \in 1 .. N : i - 1 \in P => i \in P
    PROVE  0 .. N \subseteq P
<1> DEFINE T == {n \in Nat : n > N \/ n \in P}
<1>1. 0 \in T
  OBVIOUS
<1>2. ASSUME NEW n \in Nat, n \in T PROVE n + 1 \in T
  <2>1. CASE n + 1 > N
    BY <2>1
  <2>2. CASE n + 1 <= N
    <3>1. n + 1 \in 1 .. N /\ n \in P /\ (n + 1) - 1 = n
      BY <1>2, <2>2
    <3> QED BY <3>1
  <2> QED BY <2>1, <2>2
<1>3. Nat \subseteq T
  <2> HIDE DEF T
  <2> QED BY <1>1, <1>2, SetInduction
<1> QED BY <1>3

\* What the states of a loop are, after each of N rounds of step.
Rounds(f, N, s, step) ==
    f = [i \in 0 .. N |-> IF i = 0 THEN s ELSE step[<<i, f[i - 1]>>]]

\* They exist: the recursive function of a loop is what its equation says.
LEMMA RoundsExist ==
    ASSUME NEW S, NEW N \in Nat, NEW s \in S, NEW step \in [(1 .. N) \X S -> S]
    PROVE  \E f \in [0 .. N -> S] : Rounds(f, N, s, step)
<1> DEFINE P == {n \in Nat : n <= N =>
                    \E f \in [0 .. n -> S] : Rounds(f, n, s, step)}
<1>1. 0 \in P
  <2> DEFINE f == [i \in 0 .. 0 |-> s]
  <2>1. f \in [0 .. 0 -> S] /\ Rounds(f, 0, s, step)
    BY DEF Rounds
  <2> QED BY <2>1
<1>2. ASSUME NEW i \in 1 .. N, i - 1 \in P PROVE i \in P
  <2>1. PICK f \in [0 .. i - 1 -> S] : Rounds(f, i - 1, s, step)
    BY <1>2
  <2> DEFINE g == [j \in 0 .. i |-> IF j = i THEN step[<<i, f[i - 1]>>] ELSE f[j]]
  <2>2. i \in Nat /\ i # 0 /\ i - 1 \in 0 .. i - 1 /\ i - 1 # i
    OBVIOUS
  <2>3. g \in [0 .. i -> S]
    <3>1. f[i - 1] \in S
      BY <2>1, <2>2
    <3>2. step[<<i, f[i - 1]>>] \in S
      BY <3>1
    <3>3. \A j \in 0 .. i : j # i => f[j] \in S
      BY <2>1, <2>2
    <3> QED BY <3>2, <3>3
  <2>4. \A j \in 0 .. i : g[j] = IF j = 0 THEN s ELSE step[<<j, g[j - 1]>>]
    <3> TAKE j \in 0 .. i
    <3>1. CASE j = i
      BY <2>2, <3>1
    <3>2. CASE j # i
      <4>1. j \in 0 .. i - 1 /\ g[j] = f[j]
        BY <2>2, <3>2
      <4>2. f[j] = IF j = 0 THEN s ELSE step[<<j, f[j - 1]>>]
        BY <2>1, <4>1 DEF Rounds
      <4>3. j # 0 => j - 1 \in 0 .. i /\ j - 1 # i
        BY <2>2, <3>2
      <4> QED BY <4>1, <4>2, <4>3
    <3> QED BY <3>1, <3>2
  <2>5. Rounds(g, i, s, step)
    <3>1. g = [j \in 0 .. i |-> g[j]]
      OBVIOUS
    <3> HIDE DEF g
    <3> QED BY <2>4, <3>1 DEF Rounds
  <2> QED
    <3> HIDE DEF g
    <3> QED BY <2>2, <2>3, <2>5
<1>3. 0 .. N \subseteq P
  <2> HIDE DEF P
  <2> QED BY <1>1, <1>2, LoopInduction
<1> QED BY <1>3

-----------------------------------------------------------------------------
\* The server reads a message.

Slots == [active : BOOLEAN, level : Levels, spawned : BOOLEAN,
          sendsignon : BOOLEAN, message : Seq(Stages \ {Reconnect})]

Clients == [connected : BOOLEAN, signon : 0..4, message : Seq(Answers),
            stuffed : BOOLEAN, base : Levels \cup {0}, update : Levels \cup {0}]

LEMMA StageTypes ==
    /\ \A n \in 1..3, l \in Levels :
            /\ Stage(n, l) \in Answers /\ Stage(n, l) \in Stages \ {Reconnect}
            /\ Stage(n, l).stage = n /\ Stage(n, l).level = l
    /\ Answers = Stages \ {Reconnect}
    /\ \A a \in Answers : a.stage \in 1..3 /\ a.level \in Levels /\ a = Stage(a.stage, a.level)
    /\ Reconnect.stage = 0
<1>1. \A n, l : Stage(n, l).stage = n /\ Stage(n, l).level = l
  BY DEF Stage
<1>2. Reconnect.stage = 0
  BY DEF Reconnect
<1>3. \A n \in 1..3, l \in Levels : Stage(n, l) # Reconnect
  <2>1. \A n \in 1..3 : n # 0
    OBVIOUS
  <2> QED BY <1>1, <1>2, <2>1
<1>4. \A n \in 1..3, l \in Levels : Stage(n, l) \in Answers
  BY DEF Answers
<1>5. \A a \in Answers : \E n \in 1..3, l \in Levels : a = Stage(n, l)
  BY DEF Answers
<1>6. Answers = Stages \ {Reconnect}
  BY <1>3, <1>5 DEF Answers, Stages
<1> QED BY <1>1, <1>2, <1>4, <1>5, <1>6

\* A command changes neither the level nor that the slot is in use.
LEMMA ExecuteType ==
    ASSUME NEW s \in Slots, NEW a \in Answers
    PROVE  /\ Execute(s, a) \in Slots
           /\ Execute(s, a).level = s.level /\ Execute(s, a).active = s.active
<1>1. a.stage \in 1..3
  BY StageTypes
<1>2. /\ s.level \in Levels /\ s.message \in Seq(Stages \ {Reconnect})
      /\ \A n \in 1..3 : Stage(n, s.level) \in Stages \ {Reconnect}
  BY StageTypes DEF Slots
<1>3. /\ Append(s.message, Stage(2, s.level)) \in Seq(Stages \ {Reconnect})
      /\ <<Stage(3, s.level)>> \in Seq(Stages \ {Reconnect})
  BY <1>2
<1>4. CASE a.stage = 1
  <2>1. Execute(s, a) = Host_PreSpawn(s)
    BY <1>4 DEF Execute
  <2> QED BY <1>3, <2>1 DEF Host_PreSpawn, Slots
<1>5. CASE a.stage = 2
  <2>1. Execute(s, a) = Host_Spawn(s)
    BY <1>5 DEF Execute
  <2> QED BY <1>3, <2>1 DEF Host_Spawn, Slots
<1>6. CASE a.stage = 3
  <2>1. Execute(s, a) = Host_Begin(s)
    BY <1>6 DEF Execute
  <2> QED BY <2>1 DEF Host_Begin, Slots
<1> QED BY <1>1, <1>4, <1>5, <1>6

\* SV_ReadClientMessage executes the commands one after the other.
LEMMA ExecuteAllInTurn ==
    ASSUME NEW s \in Slots, NEW m \in Seq(Answers)
    PROVE  \E f : /\ f[0] = s
                  /\ \A i \in 1 .. Len(m) : f[i] = Execute(f[i - 1], m[i])
                  /\ ExecuteAll(s, m) = f[Len(m)]
<1> DEFINE N == Len(m)
           Loop(f) == f = [i \in 0 .. N |-> IF i = 0 THEN s ELSE Execute(f[i - 1], m[i])]
           step == [p \in (1 .. N) \X Slots |-> Execute(p[2], m[p[1]])]
<1>1. N \in Nat /\ \A i \in 1 .. N : m[i] \in Answers
  BY LenProperties
<1>2. step \in [(1 .. N) \X Slots -> Slots]
  BY <1>1, ExecuteType
<1>3. PICK g \in [0 .. N -> Slots] : Rounds(g, N, s, step)
  <2> HIDE DEF step
  <2> QED BY <1>1, <1>2, RoundsExist
<1>4. Loop(g)
  <2>1. \A i \in 1 .. N : i - 1 \in 0 .. N /\ g[i - 1] \in Slots
    BY <1>1
  <2>2. \A i \in 1 .. N : step[<<i, g[i - 1]>>] = Execute(g[i - 1], m[i])
    BY <2>1
  <2>3. g = [i \in 0 .. N |-> IF i = 0 THEN s ELSE step[<<i, g[i - 1]>>]]
    BY <1>3 DEF Rounds
  <2>4. \A i \in 0 .. N : i # 0 => i \in 1 .. N
    BY <1>1
  <2> QED
    <3> HIDE DEF step
    <3> QED BY <2>2, <2>3, <2>4
<1> DEFINE after == CHOOSE f : Loop(f)
<1>5. Loop(after)
  BY <1>4
<1>6. ExecuteAll(s, m) = after[N]
  BY DEF ExecuteAll
<1>7. after[0] = s /\ \A i \in 1 .. N : after[i] = Execute(after[i - 1], m[i])
  <2> HIDE DEF after
  <2> QED BY <1>1, <1>5
<1> QED
  <2> HIDE DEF after
  <2> QED BY <1>6, <1>7

LEMMA ExecuteAllType ==
    ASSUME NEW s \in Slots, NEW m \in Seq(Answers)
    PROVE  /\ ExecuteAll(s, m) \in Slots
           /\ ExecuteAll(s, m).level = s.level /\ ExecuteAll(s, m).active = s.active
<1> DEFINE Kept == {t \in Slots : t.level = s.level /\ t.active = s.active}
<1>1. PICK f : /\ f[0] = s
               /\ \A i \in 1 .. Len(m) : f[i] = Execute(f[i - 1], m[i])
               /\ ExecuteAll(s, m) = f[Len(m)]
  BY ExecuteAllInTurn
<1>2. Len(m) \in Nat /\ \A i \in 1 .. Len(m) : m[i] \in Answers
  BY LenProperties
<1> DEFINE P == {i \in Nat : f[i] \in Kept}
<1>3. 0 \in P
  BY <1>1
<1>4. ASSUME NEW i \in 1 .. Len(m), i - 1 \in P PROVE i \in P
  <2>1. i \in Nat /\ f[i] = Execute(f[i - 1], m[i]) /\ f[i - 1] \in Kept /\ m[i] \in Answers
    BY <1>1, <1>2, <1>4
  <2>2. Execute(f[i - 1], m[i]) \in Kept
    BY <2>1, ExecuteType
  <2> QED BY <2>1, <2>2
<1>5. Len(m) \in P
  <2>1. 0 .. Len(m) \subseteq P
    <3> HIDE DEF P
    <3> QED BY <1>2, <1>3, <1>4, LoopInduction
  <2> QED BY <1>2, <2>1
<1> QED BY <1>1, <1>5

LEMMA ExecuteOne ==
    ASSUME NEW s \in Slots, NEW a \in Answers
    PROVE  ExecuteAll(s, <<a>>) = Execute(s, a)
<1> DEFINE m == <<a>>
<1>1. m \in Seq(Answers) /\ Len(m) = 1 /\ m[1] = a
  OBVIOUS
<1>2. PICK f : /\ f[0] = s
               /\ \A i \in 1 .. Len(m) : f[i] = Execute(f[i - 1], m[i])
               /\ ExecuteAll(s, m) = f[Len(m)]
  <2> HIDE DEF m
  <2> QED BY <1>1, ExecuteAllInTurn
<1>3. f[1] = Execute(f[0], a)
  <2>1. 1 \in 1 .. 1 /\ 1 - 1 = 0
    OBVIOUS
  <2> HIDE DEF m
  <2> QED BY <1>1, <1>2, <2>1
<1> QED
  <2> HIDE DEF m
  <2>1. ExecuteAll(s, m) = Execute(s, a)
    BY <1>1, <1>2, <1>3
  <2> QED BY <2>1 DEF m

-----------------------------------------------------------------------------
\* The client reads a message.

\* A client that has left with an error has no answer left to send.
Parsing == {c \in Clients : ~c.connected => c.message = <<>>}

\* What a stage makes of the client that it does not refuse.
LEMMA SignonNumType ==
    ASSUME NEW c \in Clients, c.connected, NEW s \in Answers
    PROVE  /\ SignonNum(c, s) \in Parsing
           /\ SignonNum(c, s).update = c.update
           /\ SignonNum(c, s).connected =>
                SignonNum(c, s).signon = s.stage
<1>1. s.stage \in 0..4 /\ c.message \in Seq(Answers) /\ <<>> \in Seq(Answers)
  BY StageTypes DEF Clients
<1>2. Append(c.message, s) \in Seq(Answers)
  BY <1>1
<1>3. CASE s.stage <= c.signon
  <2>1. SignonNum(c, s) = [c EXCEPT !.connected = FALSE, !.signon = 0, !.message = <<>>]
    BY <1>3 DEF SignonNum
  <2>2. 0 \in 0..4 /\ FALSE \in BOOLEAN
    OBVIOUS
  <2>3. SignonNum(c, s) \in Clients
    BY <1>1, <2>1, <2>2 DEF Clients
  <2>4. ~SignonNum(c, s).connected /\ SignonNum(c, s).message = <<>>
    BY <2>1 DEF Clients
  <2>5. SignonNum(c, s).update = c.update
    BY <2>1 DEF Clients
  <2> QED BY <2>3, <2>4, <2>5 DEF Parsing
<1>4. CASE ~(s.stage <= c.signon)
  <2>1. SignonNum(c, s) = [c EXCEPT !.signon = s.stage, !.message = Append(@, s)]
    BY <1>4 DEF SignonNum
  <2>2. SignonNum(c, s) \in Clients /\ SignonNum(c, s).connected = c.connected
    BY <1>1, <1>2, <2>1 DEF Clients
  <2> QED BY <2>1, <2>2 DEF Clients, Parsing
<1> QED BY <1>3, <1>4

LEMMA ClearStateType ==
    ASSUME NEW c \in Clients
    PROVE  /\ CL_ClearState(c) \in Clients
           /\ CL_ClearState(c).connected = c.connected
           /\ CL_ClearState(c).signon = c.signon /\ CL_ClearState(c).update = c.update
           /\ CL_ClearState(c).message = <<>>
<1>1. <<>> \in Seq(Answers) /\ 0 \in Levels \cup {0}
  OBVIOUS
<1>2. CL_ClearState(c) = [c EXCEPT !.message = <<>>, !.base = 0]
  BY DEF CL_ClearState
<1>3. CL_ClearState(c) \in Clients
  BY <1>1, <1>2 DEF Clients
<1> QED BY <1>2, <1>3 DEF Clients

\* What a stage or a reconnect makes of the client.
LEMMA ParseType ==
    ASSUME NEW c \in Parsing, NEW s \in Stages
    PROVE  /\ Parse(c, s) \in Parsing /\ Parse(c, s).update = c.update
           /\ s # Reconnect /\ Parse(c, s).connected => Parse(c, s).signon = s.stage
<1>1. c \in Clients
  BY DEF Parsing
<1>2. s = Reconnect \/ s \in Answers
  BY StageTypes
<1>3. CASE ~c.connected
  BY <1>3 DEF Parse
<1>4. CASE c.connected /\ s = Reconnect
  <2>1. Parse(c, s) = [c EXCEPT !.stuffed = TRUE]
    BY <1>4, StageTypes DEF Parse
  <2>2. [c EXCEPT !.stuffed = TRUE] \in Parsing /\ [c EXCEPT !.stuffed = TRUE].update = c.update
    BY <1>1, <1>4 DEF Clients, Parsing
  <2> QED BY <1>4, <2>1, <2>2
<1>5. CASE c.connected /\ s \in Answers
  <2>1. s.stage \in 1..3 /\ s.level \in Levels /\ s # Reconnect
    BY <1>5, StageTypes
  <2>2. PICK d \in Clients : /\ d.connected /\ d.update = c.update
                             /\ Parse(c, s) = SignonNum(d, s)
    <3>1. CASE s.stage = 1
      <4>1. Parse(c, s) = SignonNum(CL_ClearState(c), s)
        BY <1>5, <2>1, <3>1 DEF Parse
      <4>2. /\ CL_ClearState(c) \in Clients /\ CL_ClearState(c).connected
            /\ CL_ClearState(c).update = c.update
        BY <1>1, <1>5, ClearStateType
      <4> QED BY <4>1, <4>2
    <3>2. CASE s.stage = 2
      <4>1. Parse(c, s) = SignonNum([c EXCEPT !.base = s.level], s)
        BY <1>5, <2>1, <3>2 DEF Parse
      <4>2. /\ [c EXCEPT !.base = s.level] \in Clients
            /\ [c EXCEPT !.base = s.level].connected
            /\ [c EXCEPT !.base = s.level].update = c.update
        BY <1>1, <1>5, <2>1 DEF Clients
      <4> QED BY <4>1, <4>2
    <3>3. CASE s.stage = 3
      <4>1. Parse(c, s) = SignonNum(c, s)
        BY <1>5, <2>1, <3>3 DEF Parse
      <4> QED BY <1>1, <1>5, <4>1
    <3> QED BY <2>1, <3>1, <3>2, <3>3
  <2> QED BY <1>5, <2>2, SignonNumType
<1> QED BY <1>2, <1>3, <1>4, <1>5

\* CL_ParseServerMessage takes the stages one after the other.
LEMMA ParseAllInTurn ==
    ASSUME NEW c \in Parsing, NEW m \in Seq(Stages)
    PROVE  \E f \in [0 .. Len(m) -> Parsing] :
                  /\ f[0] = c
                  /\ \A i \in 1 .. Len(m) : f[i] = Parse(f[i - 1], m[i])
                  /\ \A i \in 0 .. Len(m) : f[i].update = c.update
                  /\ ParseAll(c, m) = f[Len(m)]
<1> DEFINE N == Len(m)
           Loop(f) == f = [i \in 0 .. N |-> IF i = 0 THEN c ELSE Parse(f[i - 1], m[i])]
           step == [p \in (1 .. N) \X Parsing |-> Parse(p[2], m[p[1]])]
<1>1. N \in Nat /\ \A i \in 1 .. N : m[i] \in Stages
  BY LenProperties
<1>2. step \in [(1 .. N) \X Parsing -> Parsing]
  BY <1>1, ParseType
<1>3. PICK g \in [0 .. N -> Parsing] : Rounds(g, N, c, step)
  <2> HIDE DEF step
  <2> QED BY <1>1, <1>2, RoundsExist
<1>4. Loop(g)
  <2>1. \A i \in 1 .. N : i - 1 \in 0 .. N /\ g[i - 1] \in Parsing
    BY <1>1
  <2>2. \A i \in 1 .. N : step[<<i, g[i - 1]>>] = Parse(g[i - 1], m[i])
    BY <2>1
  <2>3. g = [i \in 0 .. N |-> IF i = 0 THEN c ELSE step[<<i, g[i - 1]>>]]
    BY <1>3 DEF Rounds
  <2>4. \A i \in 0 .. N : i # 0 => i \in 1 .. N
    BY <1>1
  <2> QED
    <3> HIDE DEF step
    <3> QED BY <2>2, <2>3, <2>4
<1> DEFINE after == CHOOSE f : Loop(f)
<1>5. Loop(after)
  BY <1>4
<1>6. ParseAll(c, m) = after[N]
  BY DEF ParseAll
<1>7. after[0] = c /\ \A i \in 1 .. N : after[i] = Parse(after[i - 1], m[i])
  <2> HIDE DEF after
  <2> QED BY <1>1, <1>5
<1> DEFINE Kept == {d \in Parsing : d.update = c.update}
           P == {i \in Nat : after[i] \in Kept}
<1>8. 0 .. N \subseteq P
  <2> HIDE DEF after
  <2>1. 0 \in P
    BY <1>7
  <2>2. ASSUME NEW i \in 1 .. N, i - 1 \in P PROVE i \in P
    <3>1. /\ i \in Nat /\ after[i] = Parse(after[i - 1], m[i]) /\ m[i] \in Stages
          /\ after[i - 1] \in Kept
      BY <1>1, <1>7, <2>2
    <3>2. Parse(after[i - 1], m[i]) \in Kept
      BY <3>1, ParseType
    <3> QED BY <3>1, <3>2
  <2> HIDE DEF P
  <2> QED BY <1>1, <2>1, <2>2, LoopInduction
<1>9. after \in [0 .. N -> Parsing]
  <2>1. after = [i \in 0 .. N |-> IF i = 0 THEN c ELSE Parse(after[i - 1], m[i])]
    BY <1>5
  <2>2. \A i \in 0 .. N : after[i] \in Parsing
    BY <1>8
  <2> HIDE DEF after
  <2> QED BY <2>1, <2>2
<1> QED
  <2>1. \A i \in 0 .. N : after[i].update = c.update
    BY <1>8
  <2> HIDE DEF after
  <2> QED BY <1>6, <1>7, <1>9, <2>1

LEMMA ParseAllType ==
    ASSUME NEW c \in Parsing, NEW m \in Seq(Stages)
    PROVE  ParseAll(c, m) \in Parsing /\ ParseAll(c, m).update = c.update
<1>1. Len(m) \in 0 .. Len(m)
  BY LenProperties
<1> QED BY <1>1, ParseAllInTurn

LEMMA ParseOne ==
    ASSUME NEW c \in Parsing, NEW s \in Stages
    PROVE  ParseAll(c, <<s>>) = Parse(c, s)
<1> DEFINE m == <<s>>
<1>1. m \in Seq(Stages) /\ Len(m) = 1 /\ m[1] = s
  OBVIOUS
<1>2. PICK f : /\ f[0] = c
               /\ \A i \in 1 .. Len(m) : f[i] = Parse(f[i - 1], m[i])
               /\ ParseAll(c, m) = f[Len(m)]
  <2> HIDE DEF m
  <2> QED BY <1>1, ParseAllInTurn
<1>3. f[1] = Parse(f[0], s)
  <2>1. 1 \in 1 .. 1 /\ 1 - 1 = 0
    OBVIOUS
  <2> HIDE DEF m
  <2> QED BY <1>1, <1>2, <2>1
<1> QED
  <2> HIDE DEF m
  <2>1. ParseAll(c, m) = Parse(c, s)
    BY <1>1, <1>2, <1>3
  <2> QED BY <2>1 DEF m

\* A serverinfo that comes in one message behind stages of an older level finds
\* a client that has just taken one of those: a Host_Error.
LEMMA LateServerinfo ==
    ASSUME NEW c \in Parsing, NEW m \in Seq(Stages), Len(m) > 1,
           m[Len(m)].stage = 1, \A i \in 1 .. Len(m) : m[i] # Reconnect
    PROVE  ~ParseAll(c, m).connected
<1> DEFINE N == Len(m)
<1>1. /\ N \in Nat /\ N - 1 \in 1 .. N /\ N \in 1 .. N /\ N - 2 \in 0 .. N
      /\ (N - 1) - 1 = N - 2
  BY LenProperties
<1>2. PICK f \in [0 .. N -> Parsing] :
            /\ \A i \in 1 .. N : f[i] = Parse(f[i - 1], m[i])
            /\ ParseAll(c, m) = f[N]
  BY ParseAllInTurn
<1>3. /\ f[N - 1] = Parse(f[N - 2], m[N - 1]) /\ f[N] = Parse(f[N - 1], m[N])
      /\ f[N - 2] \in Parsing /\ f[N - 1] \in Parsing
      /\ m[N - 1] \in Answers /\ m[N] \in Answers
  <2>1. \A i \in 1 .. N : m[i] \in Answers
    BY StageTypes
  <2>2. N - 1 \in 0 .. N
    BY <1>1
  <2> QED BY <1>1, <1>2, <2>1, <2>2
<1> DEFINE d == f[N - 1]
<1>4. d \in Clients /\ d \in Parsing
  BY <1>3 DEF Parsing
<1>5. CASE ~d.connected
  <2>1. f[N] = d
    BY <1>3, <1>5 DEF Parse
  <2> QED BY <1>2, <1>5, <2>1
<1>6. CASE d.connected
  <2>1. d.signon >= 1
    <3> DEFINE b == f[N - 2]
               t == m[N - 1]
    <3>1. t.stage \in 1..3 /\ t # Reconnect /\ t \in Stages
      BY <1>3, StageTypes
    <3>2. b \in Parsing /\ d = Parse(b, t)
      BY <1>3
    <3>3. Parse(b, t).connected => Parse(b, t).signon = t.stage
      <4> HIDE DEF b, t, d
      <4> QED BY <3>1, <3>2, ParseType
    <3>4. d.signon = t.stage
      BY <1>6, <3>2, <3>3
    <3> QED BY <3>1, <3>4
  <2>2. f[N] = SignonNum(CL_ClearState(d), m[N])
    <3>1. m[N] # Reconnect
      BY <1>3, StageTypes
    <3>2. f[N] = Parse(d, m[N]) /\ m[N].stage = 1
      BY <1>3
    <3> HIDE DEF d
    <3> QED BY <1>6, <3>1, <3>2 DEF Parse
  <2>3. /\ CL_ClearState(d).signon = d.signon /\ CL_ClearState(d) \in Clients
    <3> HIDE DEF d
    <3> QED BY <1>4, ClearStateType
  <2>4. m[N].stage <= CL_ClearState(d).signon
    BY <2>1, <2>3 DEF Clients
  <2>5. f[N] = [CL_ClearState(d) EXCEPT !.connected = FALSE, !.signon = 0, !.message = <<>>]
    BY <2>2, <2>4 DEF SignonNum
  <2>6. ~f[N].connected
    BY <2>3, <2>5 DEF Clients
  <2> QED BY <1>2, <2>6
<1> QED BY <1>5, <1>6

\* What one stage makes of a client that has nothing to send.
LEMMA TakesStage ==
    ASSUME NEW c \in Clients, c.connected, c.message = <<>>,
           NEW n \in 1..3, NEW l \in Levels
    PROVE  LET d == Parse(c, Stage(n, l)) IN
           /\ n <= c.signon => ~d.connected /\ d.message = <<>>
           /\ n > c.signon =>
                /\ d.connected /\ d.signon = n /\ d.message = <<Stage(n, l)>>
                /\ n = 2 => d.base = l
                /\ n = 3 => d.base = c.base
<1> DEFINE s == Stage(n, l)
           e == IF n = 1 THEN CL_ClearState(c)
                ELSE IF n = 2 THEN [c EXCEPT !.base = l] ELSE c
<1>1. s.stage = n /\ s.level = l /\ s # Reconnect
  BY StageTypes
<1>2. Parse(c, s) = SignonNum(e, s)
  <2>1. CASE n = 1
    <3> HIDE DEF s
    <3> QED BY <1>1, <2>1 DEF Parse
  <2>2. CASE n = 2
    <3> HIDE DEF s
    <3> QED BY <1>1, <2>2 DEF Parse
  <2>3. CASE n = 3
    <3> HIDE DEF s
    <3> QED BY <1>1, <2>3 DEF Parse
  <2> QED BY <2>1, <2>2, <2>3
<1>3. /\ e \in Clients /\ e.connected /\ e.message = <<>> /\ e.signon = c.signon
      /\ n = 2 => e.base = l
      /\ n = 3 => e.base = c.base
  <2>1. CASE n = 1
    BY <2>1, ClearStateType
  <2>2. CASE n = 2
    BY <2>2 DEF Clients
  <2>3. CASE n = 3
    BY <2>3
  <2> QED BY <2>1, <2>2, <2>3
<1> DEFINE d == SignonNum(e, s)
<1>4. CASE n <= c.signon
  <2>1. d = [e EXCEPT !.connected = FALSE, !.signon = 0, !.message = <<>>]
    <3> HIDE DEF e, s
    <3> QED BY <1>1, <1>3, <1>4 DEF SignonNum
  <2>2. ~d.connected /\ d.message = <<>>
    <3> HIDE DEF e, s
    <3> QED BY <1>3, <2>1 DEF Clients
  <2> QED BY <1>2, <1>4, <2>2 DEF Clients
<1>5. CASE ~(n <= c.signon)
  <2>1. d = [e EXCEPT !.signon = n, !.message = Append(@, s)]
    <3> HIDE DEF e, s
    <3> QED BY <1>1, <1>3, <1>5 DEF SignonNum
  <2>2. Append(<<>>, s) = <<s>>
    OBVIOUS
  <2>3. d.connected /\ d.signon = n /\ d.message = <<s>> /\ d.base = e.base
    <3> HIDE DEF e, s
    <3> QED BY <1>3, <2>1, <2>2 DEF Clients
  <2> QED BY <1>2, <1>3, <1>5, <2>3
<1> QED BY <1>4, <1>5

-----------------------------------------------------------------------------
\* The types.

LEMMA ChannelTypes ==
    ASSUME NEW S
    PROVE  /\ Free \in Channel(S) /\ ~Arrived(Free) /\ CanSend(Free)
           /\ Taken \in Channel(S) /\ ~Arrived(Taken) /\ ~CanSend(Taken)
           /\ \A m \in Seq(S) : Carrying(m) \in Channel(S)
           /\ \A m : Carrying(m).message = m /\ Arrived(Carrying(m)) /\ ~CanSend(Carrying(m))
           /\ \A ch \in Channel(S) : /\ Arrived(ch) => ch.message \in Seq(S)
                                     /\ Arrived(ch) => ch = Carrying(ch.message)
<1>1. Free \in Channel(S) /\ ~Arrived(Free) /\ CanSend(Free)
  BY DEF Free, Arrived, CanSend, Channel
<1>2. Taken \in Channel(S) /\ ~Arrived(Taken) /\ ~CanSend(Taken)
  BY DEF Taken, Arrived, CanSend, Channel
<1>3. \A m \in Seq(S) : Carrying(m) \in Channel(S)
  BY DEF Carrying, Channel
<1>4. \A m : Carrying(m).message = m /\ Arrived(Carrying(m)) /\ ~CanSend(Carrying(m))
  BY DEF Carrying, Arrived, CanSend
<1>5. ASSUME NEW ch \in Channel(S), Arrived(ch)
      PROVE  ch.message \in Seq(S) /\ ch = Carrying(ch.message)
  BY <1>5 DEF Channel, Arrived, Carrying
<1> QED BY <1>1, <1>2, <1>3, <1>4, <1>5

LEMMA Types ==
    TypeOK <=> /\ server \in Slots /\ client \in Clients
               /\ phase \in {"commands", "reconnect", "acknowledge", "run", "send"}
               /\ reading \in BOOLEAN /\ overtaken \in BOOLEAN
               /\ down \in Channel(Stages) /\ up \in Channel(Answers)
               /\ updates \subseteq Levels /\ answered \subseteq 1..3
  BY DEF TypeOK, Slots, Clients

LEMMA LevelTypes ==
    /\ 1 \in Levels
    /\ \A l \in Levels : l \in Nat /\ l >= 1 /\ (l < MaxLevel => l + 1 \in Levels)
  BY LevelAssumption DEF Levels

\* What is stuffed is a stage; answers are stages of the level they belong to.
LEMMA SerialTypes ==
    /\ \A l \in Levels : Append(<<>>, Stage(1, l)) = <<Stage(1, l)>>
    /\ \A m \in Seq(Stages \ {Reconnect}) : m \in Seq(Stages)
    /\ \A m \in Seq(Stages \ {Reconnect}), l \in Levels :
            Append(m, Stage(1, l)) \in Seq(Stages \ {Reconnect})
    /\ <<Reconnect>> \in Seq(Stages)
<1>1. \A l \in Levels : Stage(1, l) \in Stages \ {Reconnect}
  BY StageTypes
<1>2. Reconnect \in Stages
  BY DEF Stages
<1>3. ASSUME NEW m \in Seq(Stages \ {Reconnect}) PROVE m \in Seq(Stages)
  BY <1>3
<1> QED BY <1>1, <1>2, <1>3

LEMMA InitType == Init => TypeOK
<1> SUFFICES ASSUME Init PROVE TypeOK
  OBVIOUS
<1>1. Stage(1, 1) \in Stages \ {Reconnect} /\ 1 \in Levels
  BY LevelTypes, StageTypes
<1>2. server \in Slots
  <2>1. <<Stage(1, 1)>> \in Seq(Stages \ {Reconnect})
    BY <1>1
  <2> QED BY <1>1, <2>1 DEF Init, Slots
<1>3. client \in Clients
  <2>1. <<>> \in Seq(Answers) /\ 0 \in 0..4
    OBVIOUS
  <2> QED BY <2>1 DEF Init, Clients
<1>4. down \in Channel(Stages) /\ up \in Channel(Answers)
  BY ChannelTypes DEF Init
<1> QED BY <1>2, <1>3, <1>4, Types DEF Init

-----------------------------------------------------------------------------
\* What SignOnInv says beside the types and the order.
Aside ==
    /\ phase \in {"reconnect", "acknowledge"} => server.active /\ server.level < MaxLevel
    /\ ~server.active => ~client.connected
    /\ \A l \in updates : l <= server.level
    /\ server.level = 1 => ~overtaken

LEMMA SignOnParts == SignOnInv <=> TypeOK /\ Aside /\ (~overtaken => Orderly)
  BY DEF SignOnInv, Aside

\* The messages of the server, which any step replaces by one of its type.
LEMMA SlotUpdates ==
    ASSUME NEW s \in Slots
    PROVE  /\ s.level \in Levels /\ s.active \in BOOLEAN /\ s.spawned \in BOOLEAN
           /\ s.message \in Seq(Stages \ {Reconnect}) /\ s.message \in Seq(Stages)
           /\ \A l \in Levels :
                /\ [s EXCEPT !.level = l] \in Slots /\ [s EXCEPT !.level = l].level = l
                /\ [s EXCEPT !.level = l].message = s.message
                /\ [s EXCEPT !.level = l].active = s.active
                /\ [s EXCEPT !.level = l].spawned = s.spawned
                /\ SV_SendServerinfo(s, l) \in Slots
                /\ SV_SendServerinfo(s, l).level = l
                /\ SV_SendServerinfo(s, l).active = s.active
                /\ SV_SendServerinfo(s, l).spawned = FALSE
                /\ SV_SendServerinfo(s, l).message = Append(s.message, Stage(1, l))
<1>1. /\ s.level \in Levels /\ s.active \in BOOLEAN /\ s.spawned \in BOOLEAN
      /\ s.message \in Seq(Stages \ {Reconnect})
  BY DEF Slots
<1>2. s.message \in Seq(Stages)
  BY <1>1, SerialTypes
<1>3. ASSUME NEW l \in Levels
      PROVE  /\ [s EXCEPT !.level = l] \in Slots /\ [s EXCEPT !.level = l].level = l
             /\ [s EXCEPT !.level = l].message = s.message
             /\ [s EXCEPT !.level = l].active = s.active
             /\ [s EXCEPT !.level = l].spawned = s.spawned
  BY DEF Slots
<1>4. ASSUME NEW l \in Levels
      PROVE  /\ SV_SendServerinfo(s, l) \in Slots
             /\ SV_SendServerinfo(s, l).level = l
             /\ SV_SendServerinfo(s, l).active = s.active
             /\ SV_SendServerinfo(s, l).spawned = FALSE
             /\ SV_SendServerinfo(s, l).message = Append(s.message, Stage(1, l))
  <2>1. Append(s.message, Stage(1, l)) \in Seq(Stages \ {Reconnect})
    BY <1>1, SerialTypes
  <2> QED BY <2>1 DEF SV_SendServerinfo, Slots
<1> QED BY <1>1, <1>2, <1>3, <1>4

LEMMA DropUpdates ==
    ASSUME NEW s \in Slots
    PROVE  LET t == [s EXCEPT !.active = FALSE, !.spawned = FALSE, !.message = <<>>] IN
           /\ t \in Slots /\ t.level = s.level
           /\ ~t.active /\ ~t.spawned /\ t.message = <<>>
<1> DEFINE t == [s EXCEPT !.active = FALSE, !.spawned = FALSE, !.message = <<>>]
<1>1. <<>> \in Seq(Stages \ {Reconnect}) /\ FALSE \in BOOLEAN
  OBVIOUS
<1>2. t \in Slots
  BY <1>1 DEF Slots
<1>3. t.level = s.level /\ t.active = FALSE /\ t.spawned = FALSE /\ t.message = <<>>
  BY DEF Slots
<1> HIDE DEF t
<1>4. t \in Slots /\ t.level = s.level /\ ~t.active /\ ~t.spawned /\ t.message = <<>>
  BY <1>2, <1>3
<1> QED BY <1>4 DEF t

LEMMA SentUpdates ==
    ASSUME NEW s \in Slots
    PROVE  LET t == [s EXCEPT !.message = <<>>, !.sendsignon = FALSE] IN
           /\ t \in Slots /\ t.level = s.level /\ t.active = s.active
           /\ t.spawned = s.spawned /\ t.message = <<>>
<1> DEFINE t == [s EXCEPT !.message = <<>>, !.sendsignon = FALSE]
<1>1. <<>> \in Seq(Stages \ {Reconnect}) /\ FALSE \in BOOLEAN
  OBVIOUS
<1>2. t \in Slots
  BY <1>1 DEF Slots
<1>3. /\ t.level = s.level /\ t.active = s.active
      /\ t.spawned = s.spawned /\ t.message = <<>>
  BY DEF Slots
<1> QED BY <1>2, <1>3

\* ClientFrame, as what it changes.
LEMMA FrameUpdates ==
    ASSUME TypeOK, ClientFrame
    PROVE  /\ client' \in Clients /\ client'.connected
           /\ client'.update = client.update /\ client'.base = client.base
           /\ client'.signon <= client.signon
           /\ \/ /\ client.message # <<>> /\ CanSend(up)
                 /\ up' = Carrying(client.message) /\ client'.message = <<>>
              \/ up' = up /\ client'.message = client.message
           /\ UNCHANGED <<server, phase, down, updates, answered, overtaken>>
           /\ reading' = TRUE
<1> DEFINE c == IF client.stuffed
                THEN [client EXCEPT !.signon = 0, !.stuffed = FALSE]
                ELSE client
<1>1. client \in Clients /\ client.connected
  BY Types DEF ClientFrame
<1>2. /\ c \in Clients /\ c.connected /\ c.message = client.message
      /\ c.update = client.update /\ c.base = client.base /\ c.signon <= client.signon
  <2> DEFINE d == [client EXCEPT !.signon = 0, !.stuffed = FALSE]
  <2>1. 0 \in 0..4 /\ FALSE \in BOOLEAN
    OBVIOUS
  <2>2. d \in Clients
    BY <1>1, <2>1 DEF Clients
  <2>3. /\ d.connected = client.connected /\ d.message = client.message
        /\ d.update = client.update /\ d.base = client.base /\ d.signon = 0
    BY <1>1 DEF Clients
  <2>4. 0 <= client.signon /\ client.signon <= client.signon
    BY <1>1 DEF Clients
  <2> HIDE DEF d
  <2> QED BY <1>1, <2>2, <2>3, <2>4 DEF d
<1>3. /\ reading' = TRUE
      /\ UNCHANGED <<server, phase, down, updates, answered, overtaken>>
      /\ IF c.message # <<>> /\ CanSend(up)
         THEN /\ up' = Carrying(c.message)
              /\ client' = [c EXCEPT !.message = <<>>]
         ELSE /\ client' = c
              /\ UNCHANGED up
  BY DEF ClientFrame
<1> HIDE DEF c
<1>4. CASE c.message # <<>> /\ CanSend(up)
  <2>1. client' = [c EXCEPT !.message = <<>>] /\ up' = Carrying(client.message)
    BY <1>2, <1>3, <1>4
  <2>2. /\ client' \in Clients /\ client'.connected /\ client'.message = <<>>
        /\ client'.update = c.update /\ client'.base = c.base /\ client'.signon = c.signon
    <3>1. <<>> \in Seq(Answers)
      OBVIOUS
    <3>2. client' \in Clients
      BY <1>2, <2>1, <3>1 DEF Clients
    <3>3. /\ client'.connected = c.connected /\ client'.message = <<>>
          /\ client'.update = c.update /\ client'.base = c.base /\ client'.signon = c.signon
      BY <1>2, <2>1 DEF Clients
    <3> QED BY <1>2, <3>2, <3>3
  <2> QED BY <1>2, <1>3, <1>4, <2>1, <2>2
<1>5. CASE ~(c.message # <<>> /\ CanSend(up))
  BY <1>2, <1>3, <1>5
<1> QED BY <1>4, <1>5

LEMMA UpdateUpdates ==
    ASSUME TypeOK, NEW l \in updates, ReadUpdate(l)
    PROVE  /\ client' \in Clients /\ client'.connected = client.connected
           /\ client'.update = l /\ client'.base = client.base
           /\ client'.message = client.message
           /\ client.signon < 3 => client'.signon = client.signon
<1>1. client \in Clients /\ l \in Levels /\ 4 \in 0..4
  BY Types
<1>2. client' = [client EXCEPT !.update = l, !.signon = IF @ = 3 THEN 4 ELSE @]
  BY DEF ReadUpdate
<1>3. client' \in Clients
  BY <1>1, <1>2 DEF Clients
<1>4. /\ client'.connected = client.connected
      /\ client'.update = l /\ client'.base = client.base
      /\ client'.message = client.message
      /\ client'.signon = IF client.signon = 3 THEN 4 ELSE client.signon
  BY <1>1, <1>2 DEF Clients
<1> QED BY <1>3, <1>4

LEMMA ReadUpdates ==
    ASSUME TypeOK, ReadMessage
    PROVE  /\ client \in Parsing /\ down.message \in Seq(Stages)
           /\ client' \in Parsing /\ client' \in Clients
           /\ client'.update = client.update
<1>1. client \in Parsing /\ down.message \in Seq(Stages)
  BY Types, ChannelTypes DEF ReadMessage, Parsing
<1> QED BY <1>1, ParseAllType DEF ReadMessage, Parsing

-----------------------------------------------------------------------------
\* Every step keeps the types and what is aside of the order.

LEMMA TypeStep ==
    ASSUME TypeOK, Aside, [Next]_vars
    PROVE  TypeOK'
<1>1. /\ server \in Slots /\ client \in Clients
      /\ phase \in {"commands", "reconnect", "acknowledge", "run", "send"}
      /\ reading \in BOOLEAN /\ overtaken \in BOOLEAN
      /\ down \in Channel(Stages) /\ up \in Channel(Answers)
      /\ updates \subseteq Levels /\ answered \subseteq 1..3
      /\ server.level \in Levels
  BY Types, SlotUpdates
<1>2. SUFFICES /\ server' \in Slots /\ client' \in Clients
               /\ phase' \in {"commands", "reconnect", "acknowledge", "run", "send"}
               /\ reading' \in BOOLEAN /\ overtaken' \in BOOLEAN
               /\ down' \in Channel(Stages) /\ up' \in Channel(Answers)
               /\ updates' \subseteq Levels /\ answered' \subseteq 1..3
  BY DEF TypeOK, Slots, Clients
<1>3. CASE Changelevel
  <2>1. server' \in Slots
    BY <1>1, <1>3, LevelTypes, SlotUpdates DEF Changelevel
  <2>2. answered' \subseteq 1..3
    BY <1>1, <1>3 DEF Changelevel
  <2>3. phase' \in {"reconnect", "run"}
    BY <1>3 DEF Changelevel
  <2> QED BY <1>1, <1>3, <2>1, <2>2, <2>3 DEF Changelevel
<1>4. CASE SendReconnect
  BY <1>1, <1>4, ChannelTypes, SerialTypes DEF SendReconnect
<1>5. CASE Discard
  BY <1>1, <1>5, ChannelTypes DEF Discard
<1>6. CASE SV_SpawnServer
  <2>1. server.level < MaxLevel
    BY <1>6 DEF SV_SpawnServer, Aside
  <2>2. server' \in Slots
    BY <1>1, <1>6, <2>1, LevelTypes, SlotUpdates DEF SV_SpawnServer
  <2>3. overtaken' \in BOOLEAN
    BY <1>1, <1>6 DEF SV_SpawnServer
  <2> QED BY <1>1, <1>6, <2>2, <2>3 DEF SV_SpawnServer
<1>7. CASE ReadClientMessage
  <2>1. up.message \in Seq(Answers)
    BY <1>1, <1>7, ChannelTypes DEF ReadClientMessage
  <2>2. server' \in Slots
    BY <1>1, <1>7, <2>1, ExecuteAllType DEF ReadClientMessage
  <2>3. \A a \in Range(up.message) : a.stage \in 1..3
    BY <2>1, StageTypes DEF Range
  <2>4. answered' \subseteq 1..3
    BY <1>1, <1>7, <2>3 DEF ReadClientMessage
  <2>5. up' \in Channel(Answers)
    BY <1>7, ChannelTypes DEF ReadClientMessage
  <2> QED BY <1>1, <1>7, <2>2, <2>4, <2>5 DEF ReadClientMessage
<1>8. CASE SV_DropClient
  <2>1. server' \in Slots
    BY <1>1, <1>8, DropUpdates DEF SV_DropClient
  <2> QED BY <1>1, <1>8, <2>1 DEF SV_DropClient
<1>9. CASE SV_SendClientMessages
  <2>1. server' \in Slots
    BY <1>1, <1>9, SentUpdates DEF SV_SendClientMessages
  <2>2. down' \in Channel(Stages)
    <3>1. \/ down' = down
          \/ down' = Carrying(server.message)
      BY <1>9 DEF SV_SendClientMessages
    <3>2. server.message \in Seq(Stages)
      BY <1>1, SlotUpdates
    <3>3. Carrying(server.message) \in Channel(Stages)
      BY <3>2, ChannelTypes
    <3> QED BY <1>1, <3>1, <3>3
  <2>3. updates' \subseteq Levels
    BY <1>1, <1>9 DEF SV_SendClientMessages
  <2> QED BY <1>1, <1>9, <2>1, <2>2, <2>3 DEF SV_SendClientMessages
<1>10. CASE NextPhase
  BY <1>1, <1>10 DEF NextPhase
<1>11. CASE ServerConfirmed
  BY <1>1, <1>11, ChannelTypes DEF ServerConfirmed
<1>12. CASE ClientFrame
  <2>1. client.message \in Seq(Answers)
    BY <1>1 DEF Clients
  <2>2. up' \in Channel(Answers)
    BY <1>1, <1>12, <2>1, FrameUpdates, ChannelTypes
  <2> QED BY <1>1, <1>12, <2>2, FrameUpdates
<1>13. CASE ReadMessage
  <2>1. client' \in Clients
    BY <1>13, ReadUpdates
  <2> QED BY <1>1, <1>13, <2>1, ChannelTypes DEF ReadMessage
<1>14. CASE EndReading
  BY <1>1, <1>14 DEF EndReading
<1>15. CASE ClientConfirmed
  BY <1>1, <1>15, ChannelTypes DEF ClientConfirmed
<1>16. ASSUME NEW l \in updates, ReadUpdate(l)
       PROVE  /\ client' \in Clients
              /\ UNCHANGED <<server, phase, reading, down, up, updates, answered, overtaken>>
  BY <1>16, UpdateUpdates DEF ReadUpdate
<1>17. CASE UNCHANGED vars
  BY <1>1, <1>17 DEF vars
<1> QED
  BY <1>1, <1>3, <1>4, <1>5, <1>6, <1>7, <1>8, <1>9, <1>10, <1>11, <1>12, <1>13, <1>14,
     <1>15, <1>16, <1>17 DEF Next, ServerStep, ClientStep

LEMMA AsideStep ==
    ASSUME TypeOK, Aside, [Next]_vars
    PROVE  Aside'
<1>1. /\ server \in Slots /\ server.level \in Levels /\ updates \subseteq Levels
      /\ server.level \in Nat /\ server.level >= 1
      /\ \A l \in updates : l \in Nat
  BY Types, SlotUpdates, LevelTypes
<1>2. CASE Changelevel
  <2>1. CASE server.active
    BY <1>2, <2>1 DEF Changelevel, Aside
  <2>2. CASE ~server.active
    <3>1. /\ server'.level = server.level + 1 /\ server'.active = server.active
          /\ phase' = "run"
      BY <1>1, <1>2, <2>2, SlotUpdates, LevelTypes DEF Changelevel
    <3>2. UNCHANGED <<client, updates, overtaken>>
      BY <1>2 DEF Changelevel
    <3>3. \A l \in updates : l <= server.level + 1
      BY <1>1 DEF Aside
    <3>4. server.level + 1 # 1
      BY <1>1
    <3> QED BY <2>2, <3>1, <3>2, <3>3, <3>4 DEF Aside
  <2> QED BY <2>1, <2>2
<1>3. CASE SV_SpawnServer
  <2>1. server.active /\ server.level < MaxLevel /\ server.level + 1 \in Levels
    BY <1>1, <1>3, LevelTypes DEF SV_SpawnServer, Aside
  <2>2. server'.level = server.level + 1 /\ server'.active
    BY <1>1, <1>3, <2>1, SlotUpdates DEF SV_SpawnServer
  <2>3. phase' = "run" /\ updates' = updates
    BY <1>3 DEF SV_SpawnServer
  <2>4. \A l \in updates : l <= server.level + 1
    BY <1>1 DEF Aside
  <2>5. server.level + 1 # 1
    BY <1>1
  <2> QED BY <2>2, <2>3, <2>4, <2>5 DEF Aside
<1>4. CASE ReadClientMessage
  <2>1. up.message \in Seq(Answers)
    BY <1>4, Types, ChannelTypes DEF ReadClientMessage
  <2>2. server'.level = server.level /\ server'.active = server.active
    BY <1>1, <1>4, <2>1, ExecuteAllType DEF ReadClientMessage
  <2> QED BY <1>4, <2>2 DEF ReadClientMessage, Aside
<1>5. CASE SV_DropClient
  <2>1. server'.level = server.level
    BY <1>1, <1>5, DropUpdates DEF SV_DropClient
  <2>2. phase' = "run" /\ ~client'.connected /\ UNCHANGED <<updates, overtaken>>
    BY <1>5 DEF SV_DropClient
  <2> QED BY <2>1, <2>2 DEF Aside
<1>6. CASE SV_SendClientMessages
  <2>1. server'.level = server.level /\ server'.active = server.active
    BY <1>1, <1>6, SentUpdates DEF SV_SendClientMessages
  <2>2. \A l \in updates' : l \in updates \/ l = server.level
    BY <1>6 DEF SV_SendClientMessages
  <2>3. phase' = "commands" /\ UNCHANGED <<client, overtaken>>
    BY <1>6 DEF SV_SendClientMessages
  <2>4. \A l \in updates' : l <= server.level
    BY <1>1, <2>2 DEF Aside
  <2> QED BY <2>1, <2>3, <2>4 DEF Aside
<1>7. CASE SendReconnect \/ Discard
  BY <1>7 DEF SendReconnect, Discard, Aside
<1>8. CASE NextPhase
  BY <1>8 DEF NextPhase, Aside
<1>9. CASE ServerConfirmed
  BY <1>9 DEF ServerConfirmed, Aside
<1>10. CASE ClientFrame
  <2>1. client.connected
    BY <1>10 DEF ClientFrame
  <2> QED BY <1>10, <2>1, FrameUpdates DEF Aside
<1>11. CASE ReadMessage
  <2>1. client.connected /\ UNCHANGED <<server, phase, updates, overtaken>>
    BY <1>11 DEF ReadMessage
  <2> QED BY <2>1 DEF Aside
<1>12. CASE EndReading \/ ClientConfirmed
  BY <1>12 DEF EndReading, ClientConfirmed, Aside
<1>13. ASSUME NEW l \in updates, ReadUpdate(l) PROVE Aside'
  <2>1. client.connected /\ UNCHANGED <<server, phase, updates, overtaken>>
    BY <1>13 DEF ReadUpdate
  <2> QED BY <2>1 DEF Aside
<1>14. CASE UNCHANGED vars
  BY <1>14 DEF vars, Aside
<1> QED
  BY <1>2, <1>3, <1>4, <1>5, <1>6, <1>7, <1>8, <1>9, <1>10, <1>11, <1>12, <1>13, <1>14
  DEF Next, ServerStep, ClientStep

-----------------------------------------------------------------------------
\* Every step keeps the order, until a level change overtakes something.

\* The four cases of Orderly, and that BufferOrdered goes with each.
LEMMA OrderlyCases ==
    Orderly <=> /\ BufferOrdered
                /\ \/ GivenUp
                   \/ client.connected /\ SignedOn
                   \/ client.connected /\ Interrupted
                   \/ \E n \in 1..3 : client.connected /\ SigningOn(n)
  BY DEF Orderly

LEMMA NotReconnect ==
    ASSUME NEW m, NEW n, EndsWith(m, n)
    PROVE  m # <<Reconnect>>
<1> SUFFICES ASSUME m = <<Reconnect>> PROVE FALSE
  OBVIOUS
<1>1. Len(m) = 1 /\ m[1] = Reconnect /\ 1 \in 1 .. 1
  OBVIOUS
<1> QED BY <1>1 DEF EndsWith

\* A step that moves no stage and no answer keeps the order.
LEMMA Quiet ==
    ASSUME TypeOK, Orderly,
           server' = server, updates' = updates, answered' = answered,
           client'.connected = client.connected,
           client'.message = client.message, client'.base = client.base,
           client.signon < 3 => client'.signon <= client.signon,
           client.signon \in Nat, client'.signon \in Nat,
           up' # up => ~Arrived(up) /\ ~Arrived(up'),
           down' # down => ~OldStageUnderWay /\ ~OldStageUnderWay',
           phase \in {"reconnect", "acknowledge"} => phase' \in {"reconnect", "acknowledge"}
    PROVE  Orderly'
<1>1. (NoAnswer => NoAnswer') /\ (NoStage => NoStage')
  BY DEF NoAnswer, NoStage, OldStageUnderWay
<1>2. BufferOrdered'
  BY DEF Orderly, BufferOrdered
<1>3. CASE GivenUp
  <2>1. GivenUp'
    BY <1>1, <1>3 DEF GivenUp
  <2> QED BY <1>2, <2>1 DEF Orderly
<1>4. CASE client.connected /\ SignedOn
  <2>1. client'.connected /\ SignedOn'
    BY <1>1, <1>4 DEF SignedOn
  <2> QED BY <1>2, <2>1 DEF Orderly
<1>5. CASE client.connected /\ Interrupted
  <2>1. client'.connected /\ Interrupted'
    BY <1>1, <1>5 DEF Interrupted
  <2> QED BY <1>2, <2>1 DEF Orderly
<1>6. ASSUME NEW n \in 1..3, client.connected /\ SigningOn(n) PROVE Orderly'
  <2>1. ASSUME Offered(n) PROVE Offered(n)'
    <3>1. NoAnswer'
      BY <1>1, <2>1 DEF Offered
    <3>2. \/ EndsWith(server.message, n)' /\ ~OldStageUnderWay'
          \/ server'.message = <<>> /\ Arrived(down)' /\ EndsWith(down.message, n)'
      <4>1. CASE EndsWith(server.message, n) /\ ~OldStageUnderWay
        <5>1. EndsWith(server.message, n)'
          BY <4>1 DEF EndsWith
        <5>2. ~OldStageUnderWay'
          BY <4>1 DEF OldStageUnderWay
        <5> QED BY <5>1, <5>2
      <4>2. CASE server.message = <<>> /\ Arrived(down) /\ EndsWith(down.message, n)
        <5>1. OldStageUnderWay
          BY <4>2, NotReconnect DEF OldStageUnderWay
        <5>2. down' = down
          BY <5>1
        <5>3. EndsWith(down.message, n)'
          BY <4>2, <5>2 DEF EndsWith
        <5> QED BY <4>2, <5>2, <5>3 DEF Arrived
      <4> QED BY <2>1, <4>1, <4>2 DEF Offered
    <3>3. n > 1 \/ server'.level = 1 => client'.signon < n
      BY <2>1 DEF Offered
    <3>4. n > 2 => client'.base = server'.level
      BY <2>1 DEF Offered
    <3> QED BY <3>1, <3>2, <3>3, <3>4 DEF Offered
  <2>2. ASSUME Replied(n) PROVE Replied(n)'
    <3>1. NoStage'
      BY <1>1, <2>2 DEF Replied
    <3>2. \/ client'.message = <<Stage(n, server'.level)>> /\ ~Arrived(up)'
          \/ client'.message = <<>> /\ up' = Carrying(<<Stage(n, server'.level)>>)
      <4>1. CASE client.message = <<Stage(n, server.level)>> /\ ~Arrived(up)
        <5>1. ~Arrived(up)'
          BY <4>1 DEF Arrived
        <5> QED BY <4>1, <5>1
      <4>2. CASE client.message = <<>> /\ up = Carrying(<<Stage(n, server.level)>>)
        <5>1. Arrived(up)
          BY <4>2 DEF Arrived, Carrying
        <5> QED BY <4>2, <5>1
      <4> QED BY <2>2, <4>1, <4>2 DEF Replied
    <3>3. n < 3 => client'.signon <= n
      BY <2>2 DEF Replied
    <3>4. n > 1 => client'.base = server'.level
      BY <2>2 DEF Replied
    <3> QED BY <3>1, <3>2, <3>3, <3>4 DEF Replied
  <2>3. SigningOn(n)'
    BY <1>6, <2>1, <2>2 DEF SigningOn
  <2> QED BY <1>2, <1>6, <2>3 DEF Orderly
<1> QED BY <1>3, <1>4, <1>5, <1>6, OrderlyCases

\* The steps that move none.
LEMMA QuietSteps ==
    ASSUME TypeOK, TypeOK', Orderly,
           \/ Changelevel /\ server.active
           \/ SendReconnect \/ NextPhase \/ ServerConfirmed
           \/ EndReading \/ ClientConfirmed \/ UNCHANGED vars
           \/ \E l \in updates : ReadUpdate(l)
    PROVE  Orderly'
<1>1. client \in Clients /\ client' \in Clients
  BY Types DEF TypeOK, Clients
<1>2. client.signon \in Nat /\ client'.signon \in Nat /\ client.signon <= client.signon
  BY <1>1 DEF Clients
<1>3. CASE \/ Changelevel /\ server.active
           \/ NextPhase \/ EndReading \/ UNCHANGED vars
  <2>1. UNCHANGED <<server, client, up, down, updates, answered>>
    BY <1>3 DEF Changelevel, NextPhase, EndReading, vars
  <2>2. phase \in {"reconnect", "acknowledge"} => phase' \in {"reconnect", "acknowledge"}
    BY <1>3 DEF Changelevel, NextPhase, EndReading, vars
  <2> QED BY <1>2, <2>1, <2>2, Quiet
<1>4. CASE SendReconnect
  <2>1. ~OldStageUnderWay
    BY <1>4 DEF SendReconnect, CanSend, OldStageUnderWay, Arrived
  <2>2. ~OldStageUnderWay'
    BY <1>4 DEF SendReconnect, OldStageUnderWay, Carrying
  <2>3. /\ UNCHANGED <<server, client, up, updates, answered>>
        /\ phase' = "acknowledge"
    BY <1>4 DEF SendReconnect
  <2> QED BY <1>2, <2>1, <2>2, <2>3, Quiet
<1>5. CASE ServerConfirmed
  <2>1. ~OldStageUnderWay /\ ~OldStageUnderWay'
    BY <1>5 DEF ServerConfirmed, OldStageUnderWay, Arrived, Free
  <2>2. UNCHANGED <<server, client, up, updates, answered, phase>>
    BY <1>5 DEF ServerConfirmed
  <2> QED BY <1>2, <2>1, <2>2, Quiet
<1>6. CASE ClientConfirmed
  <2>1. ~Arrived(up) /\ ~Arrived(up)'
    BY <1>6 DEF ClientConfirmed, Arrived, Free
  <2>2. UNCHANGED <<server, client, down, updates, answered, phase>>
    BY <1>6 DEF ClientConfirmed
  <2> QED BY <1>2, <2>1, <2>2, Quiet
<1>7. ASSUME NEW l \in updates, ReadUpdate(l) PROVE Orderly'
  <2>1. UNCHANGED <<server, down, up, updates, answered, phase>>
    BY <1>7 DEF ReadUpdate
  <2>2. /\ client'.connected = client.connected /\ client'.base = client.base
        /\ client'.message = client.message
        /\ client.signon < 3 => client'.signon <= client.signon
    BY <1>2, <1>7, UpdateUpdates
  <2> QED BY <1>2, <2>1, <2>2, Quiet
<1> QED BY <1>3, <1>4, <1>5, <1>6, <1>7

\* A level change without a client.
LEMMA ChangelevelStep ==
    ASSUME TypeOK, Aside, Orderly, Changelevel, ~server.active
    PROVE  Orderly'
<1>1. /\ server \in Slots /\ server.level \in Levels /\ server.level \in Nat
      /\ server.level + 1 \in Levels
  BY Types, SlotUpdates, LevelTypes DEF Changelevel
<1>2. /\ server'.level = server.level + 1 /\ server'.message = server.message
      /\ server'.spawned = server.spawned
      /\ client' = client /\ up' = up
  BY <1>1, SlotUpdates DEF Changelevel
<1>3. GivenUp
  BY DEF Aside, Orderly
<1>4. server.level # 0 /\ server.level + 1 # 1
  BY <1>1, LevelTypes
<1>5. GivenUp'
  BY <1>2, <1>3, <1>4 DEF GivenUp, NoAnswer, Arrived
<1>6. \A i \in 1 .. Len(server.message) : server.message[i].level <= server.level + 1
  <2>1. \A i \in 1 .. Len(server.message) : server.message[i].level \in Nat
    <3>1. server.message \in Seq(Stages \ {Reconnect})
      BY <1>1, SlotUpdates
    <3>2. \A i \in 1 .. Len(server.message) : server.message[i] \in Answers
      BY <3>1, LenProperties, StageTypes
    <3> QED BY <3>2, StageTypes, LevelTypes
  <2> QED BY <1>1, <2>1 DEF Orderly, BufferOrdered
<1>7. BufferOrdered'
  BY <1>2, <1>6 DEF Orderly, BufferOrdered
<1> QED BY <1>5, <1>7 DEF Orderly

\* The server throws an answer away.
LEMMA DiscardStep ==
    ASSUME Orderly, Discard
    PROVE  Orderly'
<1>1. Arrived(up) /\ ~NoAnswer
  BY DEF Discard, NoAnswer
<1>2. PICK n \in 1..3 : client.connected /\ SigningOn(n) /\ Replied(n)
  BY <1>1 DEF Orderly, GivenUp, SignedOn, Interrupted, SigningOn, Offered
<1>3. client.message = <<>> /\ NoStage
  BY <1>1, <1>2 DEF Replied
<1>4. UNCHANGED <<server, client, down, updates, phase>> /\ ~Arrived(up')
  BY ChannelTypes DEF Discard
<1>5. NoStage' /\ NoAnswer'
  BY <1>3, <1>4 DEF NoStage, NoAnswer, OldStageUnderWay
<1>6. client'.connected /\ Interrupted'
  BY <1>2, <1>4, <1>5 DEF Interrupted, SigningOn, Discard
<1>7. BufferOrdered'
  BY <1>4 DEF Orderly, BufferOrdered
<1> QED BY <1>6, <1>7 DEF Orderly

\* A message with a stage of a later level behind it is in order.
LEMMA AppendInOrder ==
    ASSUME NEW m \in Seq(Stages \ {Reconnect}), NEW l \in Levels, NEW k \in Levels, l < k,
           \A i \in 1 .. Len(m) : m[i].level <= l,
           \A i, j \in 1 .. Len(m) : i < j => m[i].level < m[j].level
    PROVE  LET t == Append(m, Stage(1, k)) IN
           /\ t \in Seq(Stages \ {Reconnect}) /\ t # <<>> /\ t[Len(t)] = Stage(1, k)
           /\ \A i \in 1 .. Len(t) : t[i] # Reconnect
           /\ \A i \in 1 .. Len(t) : t[i].level <= k
           /\ \A i, j \in 1 .. Len(t) : i < j => t[i].level < t[j].level
<1> DEFINE t == Append(m, Stage(1, k))
<1>1. /\ t \in Seq(Stages \ {Reconnect}) /\ Len(m) \in Nat /\ Len(t) = Len(m) + 1
      /\ \A i \in 1 .. Len(m) : t[i] = m[i]
      /\ t[Len(m) + 1] = Stage(1, k)
  BY SerialTypes, StageTypes, AppendProperties, LenProperties
<1>2. \A i \in 1 .. Len(m) : m[i] \in Answers /\ m[i].level \in Nat
  BY StageTypes, LevelTypes
<1>3. l \in Nat /\ k \in Nat /\ Stage(1, k).level = k
  BY LevelTypes, StageTypes
<1> HIDE DEF t
<1>4. t # <<>>
  BY <1>1
<1>5. \A i \in 1 .. Len(t) : i \in 1 .. Len(m) \/ i = Len(m) + 1
  BY <1>1
<1>6. \A i \in 1 .. Len(t) : t[i] # Reconnect
  BY <1>1, <1>5, StageTypes
<1>7. \A i \in 1 .. Len(t) : t[i].level <= k
  BY <1>1, <1>2, <1>3, <1>5
<1>8. ASSUME NEW i \in 1 .. Len(t), NEW j \in 1 .. Len(t), i < j
      PROVE  t[i].level < t[j].level
  <2>1. CASE j \in 1 .. Len(m)
    <3>1. i \in 1 .. Len(m)
      BY <1>1, <1>8, <2>1
    <3> QED BY <1>1, <1>8, <2>1, <3>1
  <2>2. CASE j = Len(m) + 1
    <3>1. i \in 1 .. Len(m)
      BY <1>1, <1>8, <2>2
    <3>2. t[i].level <= l /\ t[i].level \in Nat /\ t[j].level = k
      BY <1>1, <1>2, <1>3, <2>2, <3>1
    <3> QED BY <1>3, <3>2
  <2> QED BY <1>5, <2>1, <2>2
<1>9. t[Len(t)] = Stage(1, k)
  BY <1>1
<1> QED BY <1>1, <1>4, <1>6, <1>7, <1>8, <1>9 DEF t

\* A level change that overtakes nothing: the new serverinfo is the only stage of
\* its level, and the client, if it is still there, is to take it.
LEMMA SpawnServerStep ==
    ASSUME TypeOK, Aside, Orderly, SV_SpawnServer, ~overtaken'
    PROVE  Orderly'
<1> DEFINE k == server.level + 1
<1>1. /\ server \in Slots /\ server.level \in Levels /\ server.level \in Nat
      /\ k \in Levels /\ server.level < k /\ k > 1
      /\ server.message \in Seq(Stages \ {Reconnect})
      /\ \A l \in updates : l \in Nat /\ l <= server.level
  <2>1. server.level < MaxLevel
    BY DEF SV_SpawnServer, Aside
  <2>2. server \in Slots /\ server.level \in Levels /\ updates \subseteq Levels
    BY Types, SlotUpdates
  <2>3. server.level \in Nat /\ server.level >= 1 /\ k \in Levels
    BY <2>1, <2>2, LevelTypes
  <2>4. \A l \in updates : l \in Nat /\ l <= server.level
    BY <2>2, LevelTypes DEF Aside
  <2>5. server.level < k /\ k > 1
    BY <2>3
  <2> QED BY <2>2, <2>3, <2>4, <2>5, SlotUpdates
<1>2. /\ ~OldStageUnderWay /\ NoAnswer
      /\ UNCHANGED <<client, down, up, updates>> /\ answered' = {}
  BY DEF SV_SpawnServer, OldAnswerUnderWay, NoAnswer
<1>3. /\ server'.level = k /\ ~server'.spawned
      /\ server'.message = Append(server.message, Stage(1, k))
  BY <1>1, SlotUpdates DEF SV_SpawnServer
<1> HIDE DEF k
<1>4. /\ server'.message # <<>> /\ server'.message[Len(server'.message)] = Stage(1, k)
      /\ \A i \in 1 .. Len(server'.message) : server'.message[i] # Reconnect
      /\ \A i \in 1 .. Len(server'.message) : server'.message[i].level <= k
      /\ \A i, j \in 1 .. Len(server'.message) :
            i < j => server'.message[i].level < server'.message[j].level
  <2> DEFINE m == server.message
  <2>1. /\ \A i \in 1 .. Len(m) : m[i].level <= server.level
        /\ \A i, j \in 1 .. Len(m) : i < j => m[i].level < m[j].level
    BY DEF Orderly, BufferOrdered
  <2>2. m \in Seq(Stages \ {Reconnect})
    BY <1>1
  <2> DEFINE t == Append(m, Stage(1, k))
  <2>3. /\ t # <<>> /\ t[Len(t)] = Stage(1, k)
        /\ \A i \in 1 .. Len(t) : t[i] # Reconnect
        /\ \A i \in 1 .. Len(t) : t[i].level <= k
        /\ \A i, j \in 1 .. Len(t) : i < j => t[i].level < t[j].level
    <3> HIDE DEF m
    <3> QED BY <1>1, <2>1, <2>2, AppendInOrder
  <2>4. server'.message = t
    BY <1>3
  <2> HIDE DEF t, m
  <2> QED BY <2>3, <2>4
<1>5. BufferOrdered'
  BY <1>3, <1>4 DEF BufferOrdered
<1>6. NoAnswer' /\ ~OldStageUnderWay'
  BY <1>2 DEF NoAnswer, OldStageUnderWay
<1>7. k # 1 /\ k \notin updates'
  BY <1>1, <1>2
<1>8. CASE client.connected
  <2>1. EndsWith(server.message, 1)'
    BY <1>1, <1>3, <1>4 DEF EndsWith
  <2>2. Offered(1)'
    BY <1>3, <1>6, <1>7, <2>1 DEF Offered
  <2>3. answered' = 1 .. 1 - 1
    BY <1>2
  <2>4. SigningOn(1)' /\ client'.connected /\ 1 \in 1..3
    BY <1>2, <1>3, <1>7, <1>8, <2>2, <2>3 DEF SigningOn
  <2> QED BY <1>5, <2>4 DEF Orderly
<1>9. CASE ~client.connected
  <2>1. GivenUp'
    BY <1>2, <1>3, <1>6, <1>7, <1>9 DEF GivenUp
  <2> QED BY <1>5, <2>1 DEF Orderly
<1> QED BY <1>8, <1>9

\* A message of the client's is one answer, the one the server waits for.
LEMMA OneAnswer ==
    ASSUME TypeOK, Orderly, Arrived(up)
    PROVE  \E n \in 1..3 : /\ client.connected /\ SigningOn(n) /\ Replied(n)
                           /\ NoStage /\ client.message = <<>>
                           /\ up.message = <<Stage(n, server.level)>>
<1>1. ~NoAnswer
  BY DEF NoAnswer
<1>2. PICK n \in 1..3 : client.connected /\ SigningOn(n) /\ Replied(n)
  BY <1>1 DEF Orderly, GivenUp, SignedOn, Interrupted, SigningOn, Offered
<1>3. /\ NoStage /\ client.message = <<>>
      /\ up = Carrying(<<Stage(n, server.level)>>)
  BY <1>2 DEF Replied
<1> QED BY <1>2, <1>3 DEF Carrying

\* What the three answers make of a slot whose buffer is empty.
LEMMA AnswerExecuted ==
    ASSUME NEW s \in Slots, ~s.spawned, s.message = <<>>, NEW n \in 1..3
    PROVE  LET t == Execute(s, Stage(n, s.level)) IN
           /\ t.level = s.level
           /\ n < 3 => ~t.spawned /\ t.message = <<Stage(n + 1, s.level)>>
           /\ n = 3 => t.spawned /\ t.message = <<>>
<1> DEFINE a == Stage(n, s.level)
           t == Execute(s, a)
<1>1. s.level \in Levels /\ a \in Answers /\ a.stage = n
  BY SlotUpdates, StageTypes
<1>2. t.level = s.level
  BY <1>1, ExecuteType
<1>3. CASE n = 1
  <2>1. t = [s EXCEPT !.message = Append(@, Stage(2, s.level)), !.sendsignon = TRUE]
    BY <1>1, <1>3 DEF Execute, Host_PreSpawn
  <2>2. Append(<<>>, Stage(2, s.level)) = <<Stage(2, s.level)>> /\ n + 1 = 2
    BY <1>3
  <2>3. t.message = <<Stage(2, s.level)>> /\ t.spawned = s.spawned
    BY <2>1, <2>2 DEF Slots
  <2> QED BY <1>2, <1>3, <2>2, <2>3
<1>4. CASE n = 2
  <2>1. t = [s EXCEPT !.message = <<Stage(3, s.level)>>, !.sendsignon = TRUE]
    BY <1>1, <1>4 DEF Execute, Host_Spawn
  <2> DEFINE x == <<Stage(3, s.level)>>
  <2>2. [s EXCEPT !.message = x, !.sendsignon = TRUE].message = x
    <3> HIDE DEF x
    <3> QED BY DEF Slots
  <2>3. [s EXCEPT !.message = x, !.sendsignon = TRUE].spawned = s.spawned
    <3> HIDE DEF x
    <3> QED BY DEF Slots
  <2>4. t.message = x /\ t.spawned = s.spawned
    BY <2>1, <2>2, <2>3
  <2>5. n + 1 = 3
    BY <1>4
  <2> QED BY <1>2, <1>4, <2>4, <2>5
<1>5. CASE n = 3
  <2>1. t = [s EXCEPT !.spawned = TRUE]
    BY <1>1, <1>5 DEF Execute, Host_Begin
  <2>2. t.message = <<>> /\ t.spawned
    BY <2>1 DEF Slots
  <2> QED BY <1>2, <1>5, <2>2
<1> QED BY <1>3, <1>4, <1>5

\* An answer is taken once and offers the next stage, or ends the sign-on.
LEMMA ReadClientStep ==
    ASSUME TypeOK, Orderly, ReadClientMessage
    PROVE  Orderly'
<1>1. PICK n \in 1..3 : /\ client.connected /\ SigningOn(n) /\ Replied(n)
                        /\ NoStage /\ client.message = <<>>
                        /\ up.message = <<Stage(n, server.level)>>
  BY OneAnswer DEF ReadClientMessage
<1> DEFINE l == server.level
           a == Stage(n, l)
<1>2. /\ server \in Slots /\ l \in Levels /\ ~server.spawned /\ server.message = <<>>
      /\ a \in Answers /\ a.stage = n /\ a.level = l
      /\ client.signon \in Nat
  <2>1. client.signon \in Nat
    BY Types DEF Clients
  <2>2. server \in Slots /\ l \in Levels
    BY Types, SlotUpdates
  <2>3. a \in Answers /\ a.stage = n /\ a.level = l
    BY <2>2, StageTypes
  <2>4. ~server.spawned /\ server.message = <<>>
    BY <1>1 DEF SigningOn, NoStage
  <2> QED BY <2>1, <2>2, <2>3, <2>4
<1>3. server' = Execute(server, a)
  <2>1. server' = ExecuteAll(server, <<a>>)
    BY <1>1 DEF ReadClientMessage
  <2> QED BY <1>2, <2>1, ExecuteOne
<1>4. /\ server'.level = l
      /\ n < 3 => ~server'.spawned /\ server'.message = <<Stage(n + 1, l)>>
      /\ n = 3 => server'.spawned /\ server'.message = <<>>
  BY <1>2, <1>3, AnswerExecuted
<1>5. UNCHANGED <<phase, client, down, updates>> /\ ~Arrived(up')
  BY ChannelTypes DEF ReadClientMessage
<1>6. answered' = 1 .. n
  <2>1. Range(<<a>>) = {a}
    BY DEF Range
  <2>2. answered' = answered \cup {b.stage : b \in {c \in {a} : c.level = l}}
    BY <1>1, <2>1 DEF ReadClientMessage
  <2>3. {b.stage : b \in {c \in {a} : c.level = l}} = {n}
    <3> HIDE DEF a
    <3> QED BY <1>2
  <2>4. answered = 1 .. n - 1
    BY <1>1 DEF SigningOn
  <2>5. answered' = 1 .. n - 1 \cup {n}
    BY <2>2, <2>3, <2>4
  <2> QED BY <2>5
<1>7. NoAnswer' /\ ~OldStageUnderWay'
  <2>1. ~OldStageUnderWay
    BY <1>1 DEF NoStage
  <2> QED BY <1>1, <1>5, <2>1 DEF NoAnswer, OldStageUnderWay
<1>8. /\ n < 3 => client.signon <= n
      /\ n > 1 => client.base = l
  BY <1>1 DEF Replied
<1> HIDE DEF l, a
<1>9. CASE n < 3
  <2> DEFINE k == n + 1
             m == <<Stage(k, l)>>
  <2>1. k \in 1..3 /\ k - 1 = n /\ k > 1 /\ (k > 2 => n > 1) /\ client.signon < k
    BY <1>2, <1>8, <1>9
  <2>2. Stage(k, l).level = l /\ Stage(k, l) # Reconnect
    BY <1>2, <2>1, StageTypes
  <2>3. /\ Len(m) = 1 /\ m # <<>> /\ m[1] = Stage(k, l) /\ server'.message = m
        /\ \A i \in 1 .. Len(m) : i = 1
    BY <1>4, <1>9
  <2> HIDE DEF k, m
  <2>4. BufferOrdered'
    <3>1. l \in Nat
      BY <1>2, LevelTypes
    <3>2. \A i \in 1 .. Len(m) : m[i].level <= l
      BY <2>2, <2>3, <3>1
    <3>3. \A i, j \in 1 .. Len(m) : i < j => m[i].level < m[j].level
      BY <2>3
    <3> QED BY <1>4, <2>3, <3>2, <3>3 DEF BufferOrdered
  <2>5. EndsWith(server.message, k)'
    <3>1. m[Len(m)] = Stage(k, l) /\ \A i \in 1 .. Len(m) : m[i] # Reconnect
      BY <2>2, <2>3
    <3>2. ~(Len(m) > 1)
      BY <2>3
    <3> QED BY <1>4, <2>3, <3>1, <3>2 DEF EndsWith
  <2>6. Offered(k)'
    BY <1>4, <1>5, <1>7, <1>8, <2>1, <2>5 DEF Offered
  <2>7. ~server'.spawned /\ server'.level \notin updates'
    BY <1>1, <1>4, <1>5, <1>9 DEF SigningOn, l
  <2>8. SigningOn(k)' /\ client'.connected
    BY <1>1, <1>5, <1>6, <2>1, <2>6, <2>7 DEF SigningOn
  <2> QED BY <2>1, <2>4, <2>8 DEF Orderly
<1>10. CASE n = 3
  <2>1. NoStage' /\ server'.spawned /\ Len(server'.message) = 0
    BY <1>4, <1>7, <1>10 DEF NoStage
  <2>2. client'.base = server'.level
    BY <1>4, <1>5, <1>8, <1>10
  <2>3. BufferOrdered'
    BY <2>1 DEF BufferOrdered
  <2>4. SignedOn' /\ client'.connected
    BY <1>1, <1>5, <1>6, <1>7, <1>10, <2>1, <2>2 DEF SignedOn
  <2> QED BY <2>3, <2>4 DEF Orderly
<1> QED BY <1>9, <1>10

\* The slot of a client that has given up.
LEMMA DropStep ==
    ASSUME TypeOK, Orderly, SV_DropClient
    PROVE  Orderly'
<1>1. /\ server'.level = server.level /\ ~server'.spawned /\ server'.message = <<>>
      /\ UNCHANGED <<client, up>>
  BY Types, DropUpdates DEF SV_DropClient
<1>2. GivenUp
  BY DEF SV_DropClient, Orderly
<1>3. GivenUp'
  BY <1>1, <1>2 DEF GivenUp, NoAnswer, Arrived
<1>4. BufferOrdered'
  <2>1. Len(server'.message) = 0
    BY <1>1
  <2> QED BY <2>1 DEF BufferOrdered
<1> QED BY <1>3, <1>4 DEF Orderly

\* The server's buffer becomes the message to the client, or nothing happens.
LEMMA SendStep ==
    ASSUME TypeOK, Orderly, SV_SendClientMessages
    PROVE  Orderly'
<1>1. /\ phase \notin {"reconnect", "acknowledge"}
      /\ UNCHANGED <<client, up, answered>>
      /\ updates' = IF server.active /\ server.spawned
                    THEN updates \cup {server.level} ELSE updates
  BY DEF SV_SendClientMessages
<1>2. /\ server'.level = server.level /\ server'.spawned = server.spawned
      /\ \/ server'.message = server.message /\ down' = down
         \/ /\ server.message # <<>> /\ server'.message = <<>>
            /\ CanSend(down) /\ down' = Carrying(server.message)
  <2>1. CASE WantsMessage(server) /\ CanSend(down)
    <3>1. server' = [server EXCEPT !.message = <<>>, !.sendsignon = FALSE]
      BY <2>1 DEF SV_SendClientMessages
    <3> QED BY <2>1, <3>1, Types, SentUpdates DEF SV_SendClientMessages, WantsMessage
  <2>2. CASE ~(WantsMessage(server) /\ CanSend(down))
    BY <2>2 DEF SV_SendClientMessages
  <2> QED BY <2>1, <2>2
<1>3. NoAnswer => NoAnswer'
  BY <1>1 DEF NoAnswer, Arrived
<1>4. NoStage => NoStage' /\ down' = down /\ server'.message = server.message
  BY <1>2 DEF NoStage, OldStageUnderWay, Arrived
<1>5. BufferOrdered'
  <2>1. CASE server'.message = server.message
    BY <1>2, <2>1 DEF Orderly, BufferOrdered
  <2>2. CASE server'.message = <<>>
    <3>1. Len(server'.message) = 0
      BY <2>2
    <3> QED BY <3>1 DEF BufferOrdered
  <2> QED BY <1>2, <2>1, <2>2
<1>6. CASE GivenUp
  <2>1. GivenUp'
    BY <1>1, <1>2, <1>3, <1>6 DEF GivenUp
  <2> QED BY <1>5, <2>1 DEF Orderly
<1>7. CASE client.connected /\ SignedOn
  <2>1. client'.connected /\ SignedOn'
    BY <1>1, <1>2, <1>3, <1>4, <1>7 DEF SignedOn
  <2> QED BY <1>5, <2>1 DEF Orderly
<1>8. CASE Interrupted
  BY <1>1, <1>8 DEF Interrupted
<1>9. ASSUME NEW n \in 1..3, client.connected /\ SigningOn(n) PROVE Orderly'
  <2>1. ASSUME Offered(n) PROVE Offered(n)'
    <3>1. CASE server'.message = server.message /\ down' = down
      <4>1. \/ EndsWith(server.message, n)' /\ ~OldStageUnderWay'
            \/ server'.message = <<>> /\ Arrived(down') /\ EndsWith(down.message, n)'
        BY <1>2, <2>1, <3>1 DEF Offered, EndsWith, OldStageUnderWay
      <4> QED BY <1>1, <1>2, <1>3, <2>1, <4>1 DEF Offered
    <3>2. CASE /\ server.message # <<>> /\ server'.message = <<>>
               /\ CanSend(down) /\ down' = Carrying(server.message)
      <4>1. EndsWith(server.message, n)
        BY <2>1, <3>2 DEF Offered
      <4>2. Arrived(down') /\ down'.message = server.message
        BY <3>2, ChannelTypes
      <4>3. EndsWith(down.message, n)'
        BY <1>2, <4>1, <4>2 DEF EndsWith
      <4> QED BY <1>1, <1>2, <1>3, <2>1, <3>2, <4>2, <4>3 DEF Offered
    <3> QED BY <1>2, <3>1, <3>2
  <2>2. ASSUME Replied(n) PROVE Replied(n)'
    BY <1>1, <1>2, <1>4, <2>2 DEF Replied, Arrived
  <2>3. SigningOn(n)' /\ client'.connected
    BY <1>1, <1>2, <1>9, <2>1, <2>2 DEF SigningOn
  <2> QED BY <1>5, <2>3 DEF Orderly
<1> QED BY <1>6, <1>7, <1>8, <1>9, OrderlyCases

\* The client's frame sends the answer it has, or nothing.
LEMMA FrameStep ==
    ASSUME TypeOK, Orderly, ClientFrame
    PROVE  Orderly'
<1>1. client \in Clients /\ client' \in Clients /\ client'.connected = client.connected
  BY Types, FrameUpdates DEF ClientFrame
<1>2. /\ client.signon \in Nat /\ client'.signon \in Nat
      /\ client'.signon <= client.signon
      /\ client'.base = client.base
      /\ UNCHANGED <<server, phase, down, updates, answered>>
  BY <1>1, FrameUpdates DEF Clients
<1>3. CASE up' = up /\ client'.message = client.message
  BY <1>1, <1>2, <1>3, Quiet
<1>4. CASE /\ client.message # <<>> /\ CanSend(up)
           /\ up' = Carrying(client.message) /\ client'.message = <<>>
  <2>1. ~NoAnswer
    BY <1>4 DEF NoAnswer
  <2>2. PICK n \in 1..3 : client.connected /\ SigningOn(n) /\ Replied(n)
    BY <2>1 DEF Orderly, GivenUp, SignedOn, Interrupted, SigningOn, Offered
  <2>3. client.message = <<Stage(n, server.level)>>
    BY <1>4, <2>2 DEF Replied
  <2>4. up' = Carrying(<<Stage(n, server'.level)>>) /\ client'.message = <<>>
    BY <1>2, <1>4, <2>3
  <2>5. NoStage'
    BY <1>2, <2>2 DEF Replied, NoStage, OldStageUnderWay
  <2>6. n < 3 => client'.signon <= n
    BY <1>2, <2>2 DEF Replied
  <2>7. Replied(n)'
    BY <1>2, <2>2, <2>4, <2>5, <2>6 DEF Replied
  <2>8. SigningOn(n)' /\ client'.connected
    BY <1>1, <1>2, <2>2, <2>7 DEF SigningOn
  <2>9. BufferOrdered'
    BY <1>2 DEF Orderly, BufferOrdered
  <2> QED BY <2>8, <2>9 DEF Orderly
<1> QED BY <1>3, <1>4, FrameUpdates

\* A stage is answered, or in a later level refused, when it comes behind stages of
\* an older one or to a client that is still in one.
LEMMA ReadMessageStep ==
    ASSUME TypeOK, TypeOK', Orderly, ReadMessage
    PROVE  Orderly'
<1>1. /\ client \in Clients /\ client' \in Clients /\ client \in Parsing
      /\ client.connected /\ down.message \in Seq(Stages)
      /\ client.signon \in Nat /\ client'.signon \in Nat
  <2>1. /\ client \in Clients /\ client' \in Clients /\ client \in Parsing
        /\ client.connected /\ down.message \in Seq(Stages)
    BY Types, ReadUpdates DEF ReadMessage
  <2> QED BY <2>1 DEF Clients
<1>2. /\ UNCHANGED <<server, phase, up, updates, answered>>
      /\ client' = ParseAll(client, down.message)
      /\ Arrived(down) /\ ~Arrived(down')
  BY ChannelTypes DEF ReadMessage
<1>3. ~OldStageUnderWay'
  BY <1>2 DEF OldStageUnderWay
<1>4. CASE down.message = <<Reconnect>>
  <2>1. client' = Parse(client, Reconnect)
    <3>1. Reconnect \in Stages
      BY DEF Stages
    <3> QED BY <1>1, <1>2, <1>4, <3>1, ParseOne
  <2>2. client' = [client EXCEPT !.stuffed = TRUE]
    BY <1>1, <2>1, StageTypes DEF Parse
  <2>3. /\ client'.connected = client.connected /\ client'.message = client.message
        /\ client'.base = client.base /\ client'.signon = client.signon
    BY <1>1, <2>2 DEF Clients
  <2>4. ~OldStageUnderWay
    BY <1>4 DEF OldStageUnderWay
  <2>5. client.signon <= client.signon
    BY <1>1
  <2> QED BY <1>1, <1>2, <1>3, <2>3, <2>4, <2>5, Quiet
<1>5. CASE down.message # <<Reconnect>>
  <2>1. ~NoStage
    BY <1>2, <1>5 DEF NoStage, OldStageUnderWay
  <2>2. PICK n \in 1..3 : SigningOn(n) /\ Offered(n)
    BY <1>1, <2>1 DEF Orderly, GivenUp, SignedOn, Interrupted, SigningOn, Replied
  <2> DEFINE m == down.message
             l == server.level
  <2>3. server.message = <<>> /\ EndsWith(m, n) /\ NoAnswer
    BY <1>2, <1>5, <2>2 DEF Offered, OldStageUnderWay
  <2>4. NoStage' /\ BufferOrdered'
    BY <1>2, <1>3, <2>3 DEF NoStage, Orderly, BufferOrdered
  <2>5. client.message = <<>> /\ ~Arrived(up') /\ l \in Levels
    BY <1>2, <2>3, Types, SlotUpdates DEF NoAnswer
  <2>6. ~server'.spawned /\ server'.level \notin updates' /\ answered' = 1 .. n - 1
    BY <1>2, <2>2 DEF SigningOn
  <2>7. ASSUME ~client'.connected, server.level # 1 PROVE Orderly'
    <3>1. client'.message = <<>>
      BY <2>7, ReadUpdates DEF Parsing
    <3>2. GivenUp'
      BY <1>2, <2>5, <2>6, <2>7, <3>1 DEF GivenUp, NoAnswer
    <3> QED BY <2>4, <3>2 DEF Orderly
  <2>8. CASE Len(m) > 1
    <3>1. n = 1 /\ l > 1 /\ m[Len(m)] = Stage(1, l) /\ \A i \in 1 .. Len(m) : m[i] # Reconnect
      BY <2>3, <2>8 DEF EndsWith
    <3>2. m[Len(m)].stage = 1 /\ l # 1
      BY <2>5, <3>1, StageTypes, LevelTypes
    <3>3. ~client'.connected
      <4> HIDE DEF m
      <4>1. m \in Seq(Stages) /\ client' = ParseAll(client, m)
        BY <1>1, <1>2 DEF m
      <4> QED BY <1>1, <2>8, <3>1, <3>2, <4>1, LateServerinfo
    <3> QED BY <2>7, <3>2, <3>3
  <2>9. CASE ~(Len(m) > 1)
    <3>1. m = <<Stage(n, l)>>
      <4>1. m # <<>> /\ m[Len(m)] = Stage(n, l) /\ Len(m) \in Nat
        BY <1>1, <2>3, LenProperties DEF EndsWith
      <4>2. Len(m) = 1
        <5> HIDE DEF m
        <5>1. m \in Seq(Stages)
          BY <1>1 DEF m
        <5>2. Len(m) # 0
          BY <4>1, <5>1, EmptySeq
        <5> QED BY SMTT(30), <2>9, <4>1, <5>2
      <4> HIDE DEF l
      <4> QED BY <1>1, <4>1, <4>2
    <3>2. client' = Parse(client, Stage(n, l))
      <4>1. Stage(n, l) \in Stages
        BY <2>5, StageTypes
      <4> QED BY <1>1, <1>2, <3>1, <4>1, ParseOne
    <3>3. /\ n <= client.signon => ~client'.connected
          /\ n > client.signon =>
                /\ client'.connected /\ client'.signon = n
                /\ client'.message = <<Stage(n, l)>>
                /\ n = 2 => client'.base = l
                /\ n = 3 => client'.base = client.base
      <4> HIDE DEF l
      <4> QED BY <1>1, <2>5, <3>2, TakesStage
    <3>4. CASE n <= client.signon
      <4>1. ~(client.signon < n)
        BY <1>1, <3>4
      <4>2. server.level # 1
        BY <2>2, <4>1 DEF Offered
      <4> QED BY <2>7, <3>3, <3>4, <4>2
    <3>5. CASE n > client.signon
      <4>1. n > 1 => client'.base = server'.level
        <5>1. n > 2 => client.base = l
          BY <2>2 DEF Offered
        <5>2. n = 1 \/ n = 2 \/ n = 3
          OBVIOUS
        <5> QED BY <1>2, <3>3, <3>5, <5>1, <5>2
      <4>2. n < 3 => client'.signon <= n
        BY <3>3, <3>5
      <4>3. Replied(n)'
        BY <1>2, <2>4, <2>5, <3>3, <3>5, <4>1, <4>2 DEF Replied
      <4>4. SigningOn(n)' /\ client'.connected
        BY <2>6, <3>3, <3>5, <4>3 DEF SigningOn
      <4> QED BY <2>4, <4>4 DEF Orderly
    <3> QED BY <1>1, <3>4, <3>5
  <2> QED BY <2>8, <2>9
<1> QED BY <1>4, <1>5

LEMMA OrderlyStep ==
    ASSUME TypeOK, TypeOK', Aside, Orderly, ~overtaken', [Next]_vars
    PROVE  Orderly'
<1>1. CASE Changelevel
  BY <1>1, ChangelevelStep, QuietSteps
<1>2. CASE ServerStep
  BY <1>2, QuietSteps, DiscardStep, SpawnServerStep, ReadClientStep, DropStep, SendStep
  DEF ServerStep
<1>3. CASE ClientStep
  BY <1>3, QuietSteps, FrameStep, ReadMessageStep DEF ClientStep
<1>4. CASE UNCHANGED vars
  BY <1>4, QuietSteps
<1> QED BY <1>1, <1>2, <1>3, <1>4 DEF Next

\* The history variable only ever becomes true.
LEMMA OvertakenStays ==
    ASSUME TypeOK, overtaken, [Next]_vars
    PROVE  overtaken'
<1>1. CASE Changelevel
  BY <1>1 DEF Changelevel
<1>2. CASE ServerStep
  BY <1>2 DEF ServerStep, SendReconnect, Discard, SV_SpawnServer, ReadClientMessage,
              SV_DropClient, SV_SendClientMessages, NextPhase, ServerConfirmed
<1>3. CASE ClientStep
  BY <1>3 DEF ClientStep, ClientFrame, ReadMessage, EndReading, ClientConfirmed, ReadUpdate
<1>4. CASE UNCHANGED vars
  BY <1>4 DEF vars
<1> QED BY <1>1, <1>2, <1>3, <1>4 DEF Next

-----------------------------------------------------------------------------
\* The theorems.

\* The server begins with the serverinfo of the first level in its buffer.
LEMMA InitOrder == Init => Aside /\ Orderly
<1> SUFFICES ASSUME Init PROVE Aside /\ Orderly
  OBVIOUS
<1> DEFINE m == <<Stage(1, 1)>>
<1>1. /\ server.active /\ server.level = 1 /\ ~server.spawned /\ server.message = m
      /\ phase = "commands"
      /\ client.connected /\ client.signon = 0 /\ client.message = <<>>
      /\ down = Free /\ up = Free /\ updates = {} /\ answered = {} /\ ~overtaken
  BY DEF Init
<1>2. Aside
  BY <1>1 DEF Aside
<1>3. Stage(1, 1).level = 1 /\ Stage(1, 1) # Reconnect
  BY LevelTypes, StageTypes
<1>4. Len(m) = 1 /\ m # <<>> /\ m[1] = Stage(1, 1) /\ \A i \in 1 .. Len(m) : i = 1
  OBVIOUS
<1> HIDE DEF m
<1>5. ~Arrived(down) /\ ~Arrived(up)
  BY <1>1, ChannelTypes
<1>6. BufferOrdered
  <2>1. \A i \in 1 .. Len(m) : m[i].level <= 1
    BY <1>3, <1>4
  <2>2. \A i, j \in 1 .. Len(m) : i < j => m[i].level < m[j].level
    BY <1>4
  <2> QED BY <1>1, <2>1, <2>2 DEF BufferOrdered
<1>7. EndsWith(server.message, 1)
  <2>1. m[Len(m)] = Stage(1, 1) /\ \A i \in 1 .. Len(m) : m[i] # Reconnect
    BY <1>3, <1>4
  <2>2. ~(Len(m) > 1)
    BY <1>4
  <2> QED BY <1>1, <1>4, <2>1, <2>2 DEF EndsWith
<1>8. Offered(1)
  BY <1>1, <1>5, <1>7 DEF Offered, NoAnswer, OldStageUnderWay
<1>9. answered = 1 .. 1 - 1
  BY <1>1
<1>10. SigningOn(1) /\ 1 \in 1..3
  BY <1>1, <1>8, <1>9 DEF SigningOn
<1> QED BY <1>1, <1>2, <1>6, <1>10 DEF Orderly

LEMMA SignOnStep == SignOnInv /\ [Next]_vars => SignOnInv'
<1> SUFFICES ASSUME SignOnInv, [Next]_vars PROVE SignOnInv'
  OBVIOUS
<1>1. TypeOK /\ Aside /\ (~overtaken => Orderly)
  BY SignOnParts
<1>2. TypeOK' /\ Aside'
  BY <1>1, TypeStep, AsideStep
<1>3. ~overtaken' => Orderly'
  BY <1>1, <1>2, OvertakenStays, OrderlyStep
<1> QED BY <1>2, <1>3 DEF SignOnInv, Aside

\* As long as no level change overtakes a stage or an answer, one of them is under
\* way and in one place, for any number of levels: SignOnInv is inductive.
THEOREM InStep == Spec => []SignOnInv
<1>1. Init => SignOnInv
  BY InitType, InitOrder, SignOnParts
<1> QED BY <1>1, SignOnStep, PTL DEF Spec

\* The state of both programs, their buffers and the channels has its type.
THEOREM SignOnTypes == Spec => []TypeOK
<1>1. SignOnInv => TypeOK
  BY DEF SignOnInv
<1> QED BY <1>1, InStep, PTL

\* Unless an answer was overtaken, a client whose slot is spawned has answered the
\* three stages of this very level (Host_Begin_f is reached only through them).
THEOREM AnsweredAllStages == Spec => []SignedOnInOrder
<1>1. SignOnInv => SignedOnInOrder
  <2> SUFFICES ASSUME Orderly, server.spawned PROVE answered = 1..3
    BY DEF SignOnInv, SignedOnInOrder
  <2> QED BY DEF Orderly, GivenUp, SignedOn, Interrupted, SigningOn
<1> QED BY <1>1, InStep, PTL

\* In the first level the client never sees a stage twice or out of order, which
\* would be the Host_Error of svc_signonnum in CL_ParseServerMessage.
THEOREM NoErrorAtFirst == Spec => []NoErrorInFirstLevel
<1>1. SignOnInv => NoErrorInFirstLevel
  BY DEF SignOnInv, Orderly, GivenUp, NoErrorInFirstLevel
<1> QED BY <1>1, InStep, PTL

\* The first entity update of a level is read after the baselines it refers to.
THEOREM BaselinesFirst == Spec => BaselineBeforeUpdate
<1>1. SignOnInv /\ [Next]_vars =>
        [client'.update > client.update /\ client'.update = server.level =>
            client.base = server.level \/ overtaken]_vars
  <2> SUFFICES ASSUME SignOnInv, [Next]_vars, ~overtaken,
                      client'.update > client.update, client'.update = server.level
               PROVE  client.base = server.level
    OBVIOUS
  <2>1. TypeOK /\ Orderly /\ client \in Clients
    BY Types DEF SignOnInv
  <2>2. client.update \in Nat
    BY <2>1, LevelTypes DEF Clients
  <2>3. client'.update # client.update
    BY <2>2
  <2>4. client' # client /\ ~ClientFrame /\ ~ReadMessage
    BY <2>1, <2>3, FrameUpdates, ReadUpdates
  <2>5. ~Changelevel /\ ~ServerStep
    BY <2>4 DEF Changelevel, ServerStep, SendReconnect, Discard, SV_SpawnServer,
                ReadClientMessage, SV_DropClient, SV_SendClientMessages, NextPhase,
                ServerConfirmed
  <2>6. ~EndReading /\ ~ClientConfirmed /\ ~UNCHANGED vars
    BY <2>4 DEF EndReading, ClientConfirmed, vars
  <2>7. PICK l \in updates : ReadUpdate(l)
    BY <2>4, <2>5, <2>6 DEF Next, ClientStep
  <2>8. server.level \in updates /\ client.connected
    BY <2>1, <2>7, UpdateUpdates DEF ReadUpdate
  <2> QED BY <2>1, <2>8 DEF Orderly, GivenUp, SignedOn, Interrupted, SigningOn
<1> QED BY <1>1, InStep, PTL DEF Spec, BaselineBeforeUpdate

\* SZ_Clear of Host_Spawn_f never throws away a stage that was not sent: a stage of
\* the present level leaves the buffer only into the channel.
THEOREM NoStageThrownAway == Spec => NoStageLost
<1> DEFINE Lost == \E s \in Range(server.message) :
                        /\ s.level = server'.level
                        /\ s \notin Range(server'.message)
                        /\ down' # Carrying(server.message)
                        /\ server'.active
                        /\ ~overtaken
<1>1. SignOnInv /\ [Next]_vars => ~Lost
  <2> SUFFICES ASSUME SignOnInv, [Next]_vars, ~overtaken, server'.active,
                      down' # Carrying(server.message),
                      NEW s \in Range(server.message),
                      s.level = server'.level, s \notin Range(server'.message)
               PROVE  FALSE
    OBVIOUS
  <2>1. TypeOK /\ Orderly /\ Aside /\ server \in Slots
    BY SignOnParts, Types
  <2>2. server'.message # server.message
    OBVIOUS
  <2>3. ~SV_DropClient
    BY <2>1, DropUpdates DEF SV_DropClient
  <2>4. ~SV_SendClientMessages
    <3> SUFFICES ASSUME SV_SendClientMessages PROVE FALSE
      OBVIOUS
    <3>1. server' = server
      BY DEF SV_SendClientMessages
    <3> QED BY <2>2, <3>1
  <2>5. ~ReadClientMessage
    <3> SUFFICES ASSUME ReadClientMessage PROVE FALSE
      OBVIOUS
    <3>1. server.message = <<>>
      BY <2>1, OneAnswer DEF ReadClientMessage, NoStage
    <3> QED BY <3>1 DEF Range
  <2>6. ~SV_SpawnServer
    <3> SUFFICES ASSUME SV_SpawnServer PROVE FALSE
      OBVIOUS
    <3> DEFINE k == server.level + 1
               m == server.message
    <3>1. k \in Levels
      BY <2>1, SlotUpdates, LevelTypes DEF SV_SpawnServer, Aside
    <3>2. server'.message = Append(m, Stage(1, k)) /\ m \in Seq(Stages \ {Reconnect})
      <4>1. server' = SV_SendServerinfo(server, k)
        BY DEF SV_SpawnServer
      <4>2. m \in Seq(Stages \ {Reconnect})
        BY <2>1, SlotUpdates
      <4>3. SV_SendServerinfo(server, k).message = Append(m, Stage(1, k))
        BY <2>1 DEF SV_SendServerinfo, Slots
      <4> QED BY <4>1, <4>2, <4>3
    <3>3. PICK i \in 1 .. Len(m) : s = m[i]
      BY <3>2 DEF Range
    <3>4. Stage(1, k) \in Stages \ {Reconnect} /\ Len(m) \in Nat
      BY <3>1, <3>2, StageTypes, LenProperties
    <3> DEFINE t == Append(m, Stage(1, k))
    <3>5. i \in DOMAIN t /\ t[i] = s
      <4> HIDE DEF m, k
      <4>1. t \in Seq(Stages \ {Reconnect}) /\ Len(t) = Len(m) + 1 /\ t[i] = m[i]
        BY <3>2, <3>3, <3>4, AppendProperties
      <4> QED BY <3>3, <3>4, <4>1
    <3>6. s \in Range(t)
      <4> HIDE DEF t
      <4> QED BY <3>5 DEF Range
    <3> QED BY <3>2, <3>6
  <2>7. ~Changelevel
    <3> SUFFICES ASSUME Changelevel PROVE FALSE
      OBVIOUS
    <3>1. \/ server' = server
          \/ server' = [server EXCEPT !.level = @ + 1]
      BY DEF Changelevel
    <3>2. server'.message = server.message
      BY <2>1, <3>1 DEF Slots
    <3> QED BY <2>2, <3>2
  <2>8. ~ClientStep /\ ~UNCHANGED vars
    BY <2>2 DEF ClientStep, ClientFrame, ReadMessage, EndReading, ClientConfirmed,
                ReadUpdate, vars
  <2>9. ~SendReconnect /\ ~Discard /\ ~NextPhase /\ ~ServerConfirmed
    BY <2>2 DEF SendReconnect, Discard, NextPhase, ServerConfirmed
  <2> QED BY <2>3, <2>4, <2>5, <2>6, <2>7, <2>8, <2>9 DEF Next, ServerStep
<1>2. ~Lost => [\A s \in Range(server.message) :
                    \/ s.level # server'.level
                    \/ s \in Range(server'.message)
                    \/ down' = Carrying(server.message)
                    \/ ~server'.active
                    \/ overtaken]_vars
  OBVIOUS
<1> HIDE DEF Lost
<1> QED BY <1>1, <1>2, InStep, PTL DEF Spec, NoStageLost
=============================================================================
