-------------------------- MODULE ConnectionProofs --------------------------
(***************************************************************************)
(* Proofs about Connections.tla, for any number of LAN drivers, qsockets   *)
(* and slots, and any addresses.  First what opening and closing a qsocket *)
(* does to the pool, then what the slots make of it, then the frame.       *)
(***************************************************************************)
EXTENDS Connections, FiniteSetTheorems, WellFoundedInduction, TLAPS

\* What is invariant of the pool, of the slots, and of both.
PoolTypes ==
    /\ freeSockets \in Seq(QSockets)
    /\ activeSockets \subseteq QSockets
    /\ sock \in [QSockets -> [disconnected : BOOLEAN, addr : Addrs \cup {NULL},
                              recent : BOOLEAN]]

SlotTypes ==
    /\ clients \in [Slots -> [active : BOOLEAN,
                              netconnection : QSockets \cup {NULL}]]
    /\ \A i \in Slots : Active(i) <=> clients[i].netconnection # NULL
    /\ net_activeconnections \in Int

PoolInv == PoolTypes /\ PoolConserved /\ fatal = FALSE

SlotInv == SlotTypes /\ CountMatches

DataInv == PoolInv /\ SlotInv /\ NoOrphan /\ OneConnectionPerHost

\* The point of the frame is one there is.
PhaseInv ==
    \/ phase \in {"run", "send", "between", "shutdown"} /\ at \in Slots
    \/ phase = "check" /\ at \in 1..NumLanDrivers

ConnInv == DataInv /\ PhaseInv /\ exposed \in BOOLEAN

\* The sockets are the ones of before, but for those of Q, which are closed.
ClosedBut(Q) ==
    /\ activeSockets' = activeSockets \ Q
    /\ \A p \in QSockets : sock'[p].addr = sock[p].addr
    /\ \A p \in QSockets \ Q : sock'[p] = sock[p]

-----------------------------------------------------------------------------
\* The pool.

\* Putting q in front of a list (NET_FreeQSocket).
LEMMA PushFront ==
    ASSUME NEW S, NEW s \in Seq(S), NEW q \in S
    PROVE  /\ <<q>> \o s \in Seq(S)
           /\ DOMAIN (<<q>> \o s) = 1..(Len(s) + 1)
           /\ (<<q>> \o s)[1] = q
           /\ \A n \in 1..Len(s) : (<<q>> \o s)[n + 1] = s[n]
           /\ \A n \in 2..(Len(s) + 1) : (<<q>> \o s)[n] = s[n - 1]
  OBVIOUS

\* Taking the first of a list (NET_NewQSocket).
LEMMA PopFront ==
    ASSUME NEW S, NEW s \in Seq(S), s # <<>>
    PROVE  /\ Tail(s) \in Seq(S)
           /\ Head(s) \in S
           /\ Head(s) = s[1]
           /\ DOMAIN s = 1..Len(s)
           /\ Len(s) \in Nat \ {0}
           /\ DOMAIN Tail(s) = 1..(Len(s) - 1)
           /\ \A n \in 1..(Len(s) - 1) : Tail(s)[n] = s[n + 1]
  OBVIOUS

\* Freeing an active qsocket puts it on the free list, once.
LEMMA FreeKeepsPool ==
    ASSUME PoolInv, NEW q \in activeSockets, NET_FreeQSocket(q)
    PROVE  PoolInv' /\ ClosedBut({q})
<1> DEFINE s == freeSockets
           t == <<q>> \o s
<1>1. /\ q \in QSockets /\ s \in Seq(QSockets)
      /\ activeSockets' = activeSockets \ {q}
      /\ freeSockets' = t
      /\ sock' = [sock EXCEPT ![q].disconnected = TRUE]
      /\ fatal' = FALSE
  BY DEF NET_FreeQSocket, PoolInv, PoolTypes
<1>2. /\ t \in Seq(QSockets)
      /\ DOMAIN t = 1..(Len(s) + 1)
      /\ t[1] = q
      /\ \A n \in 1..Len(s) : t[n + 1] = s[n]
      /\ \A n \in 2..(Len(s) + 1) : t[n] = s[n - 1]
  BY <1>1, PushFront
<1>3. /\ DOMAIN s = 1..Len(s) /\ Len(s) \in Nat
      /\ \A m, n \in 1..Len(s) : s[m] = s[n] => m = n
      /\ \A p \in QSockets :
           (p \in activeSockets) <=> (\A n \in 1..Len(s) : s[n] # p)
  <2>1. DOMAIN s = 1..Len(s) /\ Len(s) \in Nat
    BY <1>1
  <2> QED BY <2>1 DEF PoolInv, PoolConserved
<1> HIDE DEF t, s
<1>4. /\ PoolTypes'
      /\ \A p \in QSockets : sock'[p].addr = sock[p].addr
      /\ \A p \in QSockets \ {q} : sock'[p] = sock[p]
      /\ sock'[q].disconnected
  BY ZenonT(60), <1>1, <1>2 DEF PoolInv, PoolTypes
<1>5. \A m, n \in DOMAIN t : t[m] = t[n] => m = n
  <2> SUFFICES ASSUME NEW m \in 1..(Len(s) + 1), NEW n \in 1..(Len(s) + 1),
                      t[m] = t[n]
               PROVE  m = n
    BY <1>2
  <2>1. \A k \in 2..(Len(s) + 1) : t[k] # q /\ k - 1 \in 1..Len(s)
    BY <1>1, <1>2, <1>3
  <2>2. CASE m = 1 \/ n = 1
    <3>1. t[1] = q
      BY <1>2, <1>3
    <3>2. m \in 2..(Len(s) + 1) \/ m = 1
      BY <1>3
    <3>3. n \in 2..(Len(s) + 1) \/ n = 1
      BY <1>3
    <3> QED BY <2>1, <2>2, <3>1, <3>2, <3>3
  <2>3. CASE m \in 2..(Len(s) + 1) /\ n \in 2..(Len(s) + 1)
    BY <2>1, <2>3, <1>2, <1>3
  <2> QED BY <2>2, <2>3, <1>3
<1>6. ASSUME NEW p \in QSockets
      PROVE  (p \in activeSockets') <=> (\A n \in DOMAIN t : t[n] # p)
  <2>1. (\A n \in DOMAIN t : t[n] # p) => p # q /\ \A n \in 1..Len(s) : s[n] # p
    <3>1. \A n \in 1..Len(s) : n + 1 \in DOMAIN t
      BY <1>2, <1>3
    <3> QED BY SMTT(30), <3>1, <1>2, <1>3
  <2>2. p # q /\ (\A n \in 1..Len(s) : s[n] # p) => \A n \in DOMAIN t : t[n] # p
    <3>1. \A n \in DOMAIN t : n = 1 \/ (n \in 2..(Len(s) + 1) /\ n - 1 \in 1..Len(s))
      BY <1>2, <1>3
    <3> QED BY <3>1, <1>2
  <2> QED BY <2>1, <2>2, <1>1, <1>3
<1>7. \A p \in QSockets : sock'[p].disconnected <=> p \notin activeSockets'
  BY <1>1, <1>4 DEF PoolInv, PoolConserved
<1>8. PoolConserved'
  BY <1>1, <1>5, <1>6, <1>7 DEF PoolConserved
<1> QED BY <1>1, <1>4, <1>8 DEF PoolInv, ClosedBut

\* NET_Close closes what is active, whoever calls it and how often.
LEMMA CloseKeepsPool ==
    ASSUME PoolInv, NEW q \in QSockets \cup {NULL}, NET_Close(q)
    PROVE  PoolInv' /\ ClosedBut({q})
<1>1. CASE Closed(q)
  <2>1. UNCHANGED <<pool, fatal>>
    BY <1>1 DEF NET_Close
  <2>2. q \notin activeSockets
    BY <1>1, NullAssumption DEF Closed, PoolInv, PoolTypes, PoolConserved
  <2>3. PoolInv'
    BY <2>1 DEF pool, PoolInv, PoolTypes, PoolConserved
  <2> QED BY <2>1, <2>2, <2>3 DEF pool, ClosedBut
<1>2. CASE ~Closed(q)
  <2>1. q \in activeSockets /\ NET_FreeQSocket(q)
    BY <1>2 DEF Closed, NET_Close, PoolInv, PoolConserved
  <2> QED BY <2>1, FreeKeepsPool
<1> QED BY <1>1, <1>2

\* Opening the first free qsocket takes it from the free list (NET_NewQSocket).
LEMMA NewKeepsPool ==
    ASSUME PoolInv, freeSockets # <<>>, NEW a \in Addrs,
           NET_NewQSocket(a), fatal' = FALSE
    PROVE  /\ PoolInv'
           /\ Head(freeSockets) \in QSockets \ activeSockets
           /\ activeSockets' = activeSockets \cup {Head(freeSockets)}
           /\ sock'[Head(freeSockets)].addr = a
           /\ \A p \in QSockets \ {Head(freeSockets)} : sock'[p] = sock[p]
<1> DEFINE s == freeSockets
           q == Head(s)
           t == Tail(s)
<1>1. /\ s \in Seq(QSockets) /\ s # <<>>
      /\ activeSockets' = activeSockets \cup {q}
      /\ freeSockets' = t
      /\ sock' = [sock EXCEPT ![q] =
                    [disconnected |-> FALSE, addr |-> a, recent |-> TRUE]]
  BY DEF NET_NewQSocket, PoolInv, PoolTypes
<1>2. /\ t \in Seq(QSockets)
      /\ q \in QSockets
      /\ q = s[1]
      /\ DOMAIN s = 1..Len(s)
      /\ Len(s) \in Nat \ {0}
      /\ DOMAIN t = 1..(Len(s) - 1)
      /\ \A n \in 1..(Len(s) - 1) : t[n] = s[n + 1]
  BY <1>1, PopFront
<1>3. /\ \A m, n \in 1..Len(s) : s[m] = s[n] => m = n
      /\ \A p \in QSockets :
           (p \in activeSockets) <=> (\A n \in 1..Len(s) : s[n] # p)
  BY <1>2 DEF PoolInv, PoolConserved
<1> HIDE DEF t, q, s
<1>4. /\ PoolTypes'
      /\ sock'[q] = [disconnected |-> FALSE, addr |-> a, recent |-> TRUE]
      /\ \A p \in QSockets \ {q} : sock'[p] = sock[p]
  BY <1>1, <1>2 DEF PoolInv, PoolTypes
<1>5. q \notin activeSockets
  BY <1>2, <1>3
<1>6. \A n \in 1..(Len(s) - 1) : n + 1 \in 1..Len(s) /\ t[n] = s[n + 1] /\ t[n] # q
  BY <1>2, <1>3
<1>7. \A m, n \in DOMAIN t : t[m] = t[n] => m = n
  BY <1>2, <1>3, <1>6
<1>8. ASSUME NEW p \in QSockets
      PROVE  (p \in activeSockets') <=> (\A n \in DOMAIN t : t[n] # p)
  <2>1. \A n \in 1..Len(s) : n = 1 \/ (n - 1 \in DOMAIN t /\ t[n - 1] = s[n])
    BY <1>2
  <2>2. p \in activeSockets => \A n \in DOMAIN t : t[n] # p
    BY <1>2, <1>3, <1>6
  <2>3. p = q => \A n \in DOMAIN t : t[n] # p
    BY <1>2, <1>6
  <2>4. p \notin activeSockets /\ p # q => \E n \in DOMAIN t : t[n] = p
    <3> SUFFICES ASSUME p \notin activeSockets, p # q
                 PROVE  \E n \in DOMAIN t : t[n] = p
      OBVIOUS
    <3>1. PICK n \in 1..Len(s) : s[n] = p
      BY <1>3
    <3>2. n # 1
      BY <3>1, <1>2
    <3> QED BY <3>1, <3>2, <2>1
  <2> QED BY <2>2, <2>3, <2>4, <1>1
<1>9. \A p \in QSockets : sock'[p].disconnected <=> p \notin activeSockets'
  BY <1>1, <1>4 DEF PoolInv, PoolConserved
<1>10. PoolConserved'
  BY <1>1, <1>7, <1>8, <1>9 DEF PoolConserved
<1> QED BY <1>1, <1>2, <1>4, <1>5, <1>10 DEF PoolInv, q, s

-----------------------------------------------------------------------------
\* The slots.

ActiveSlots == {i \in Slots : Active(i)}

\* There are MaxClients slots, and the active ones can be counted.
LEMMA SlotsFinite ==
    /\ IsFiniteSet(Slots) /\ Cardinality(Slots) = MaxClients
    /\ \A S \in SUBSET Slots :
         /\ IsFiniteSet(S) /\ Cardinality(S) \in Nat
         /\ Cardinality(S) = MaxClients => S = Slots
<1>1. MaxClients \in Nat \ {0}
  BY ClientsAssumption
<1>2. IsFiniteSet(Slots) /\ Cardinality(Slots) = MaxClients
  BY <1>1, FS_Interval DEF Slots
<1> QED BY <1>2, FS_Subset, FS_CardinalityType

\* If a slot is not active there is a first one that is not (SV_ConnectClient).
LEMMA FirstInactive ==
    ASSUME NEW S \in SUBSET Slots, S # {}
    PROVE  \E i \in S : \A j \in 1..(i - 1) : j \in Slots /\ j \notin S
<1>1. S \subseteq Nat
  BY ClientsAssumption DEF Slots
<1> DEFINE R == {ss \in Nat \X Nat : ss[1] < ss[2]}
<1>2. IsWellFoundedOn(R, Nat)
  BY NatLessThanWellFounded DEF OpToRel
<1> HIDE DEF R
<1>3. PICK i \in S : \A j \in S : ~(<<j, i>> \in R)
  BY <1>1, <1>2, WFMin
<1>4. \A j \in S : ~(j < i)
  BY <1>1, <1>3 DEF R
<1>5. \A j \in 1..(i - 1) : j < i /\ j \in Slots
  BY <1>1, ClientsAssumption DEF Slots
<1> QED BY <1>4, <1>5

\* SV_DropClient gives back the qsocket, the slot and the place in the count,
\* whether the qsocket is open, closed, or another slot's too.
LEMMA DropKeeps ==
    ASSUME DataInv, NEW i \in Slots, Active(i), SV_DropClient(i)
    PROVE  DataInv'
<1> DEFINE q == clients[i].netconnection
<1>1. /\ q \in QSockets
      /\ NET_Close(q)
      /\ clients' = [clients EXCEPT ![i] = [active |-> FALSE,
                                            netconnection |-> NULL]]
      /\ net_activeconnections' = net_activeconnections - 1
  BY DEF SV_DropClient, DataInv, SlotInv, SlotTypes
<1>2. PoolInv' /\ ClosedBut({q})
  BY <1>1, CloseKeepsPool DEF DataInv
<1>3. /\ clients'[i] = [active |-> FALSE, netconnection |-> NULL]
      /\ \A j \in Slots \ {i} : clients'[j] = clients[j]
      /\ SlotTypes'
  BY <1>1 DEF DataInv, SlotInv, SlotTypes, Active
<1>4. CountMatches'
  <2>1. ActiveSlots' = ActiveSlots \ {i} /\ i \in ActiveSlots
    BY <1>3 DEF ActiveSlots, Active
  <2>2. Cardinality(ActiveSlots') = Cardinality(ActiveSlots) - 1
    BY <2>1, SlotsFinite, FS_RemoveElement DEF ActiveSlots
  <2> QED BY <1>1, <2>2 DEF DataInv, SlotInv, CountMatches, ActiveSlots
<1>5. NoOrphan'
  <2> SUFFICES ASSUME NEW p \in activeSockets'
               PROVE  \E j \in Slots : Active(j)' /\ clients'[j].netconnection = p
    BY DEF NoOrphan
  <2>1. p \in activeSockets /\ p # q
    BY <1>2 DEF ClosedBut
  <2>2. PICK j \in Slots : Active(j) /\ clients[j].netconnection = p
    BY <2>1 DEF DataInv, NoOrphan
  <2> QED BY <2>1, <2>2, <1>3 DEF Active
<1>6. OneConnectionPerHost'
  BY <1>2 DEF DataInv, PoolInv, PoolTypes, OneConnectionPerHost, ClosedBut, AddrCompare
<1> QED BY <1>2, <1>3, <1>4, <1>5, <1>6 DEF DataInv, SlotInv

\* The network layer closes a qsocket and the slots do not change: the slot keeps
\* its place in the count until it is dropped.
LEMMA CloseKeeps ==
    ASSUME DataInv, NEW q \in QSockets, NET_Close(q), UNCHANGED server
    PROVE  DataInv'
<1>1. PoolInv' /\ ClosedBut({q})
  BY CloseKeepsPool DEF DataInv
<1>2. SlotInv' /\ \A i \in Slots : Active(i)' = Active(i)
  BY DEF server, DataInv, SlotInv, SlotTypes, CountMatches, Active
<1>3. NoOrphan'
  BY <1>1, <1>2 DEF server, DataInv, NoOrphan, ClosedBut
<1>4. OneConnectionPerHost'
  BY <1>1 DEF DataInv, PoolInv, PoolTypes, OneConnectionPerHost, ClosedBut, AddrCompare
<1> QED BY <1>1, <1>2, <1>3, <1>4 DEF DataInv

\* When NET_NewQSocket counted fewer than MaxClients, SV_ConnectClient finds a
\* slot: the count is that of the active slots.  Its qsocket was in no use.
LEMMA AcceptKeeps ==
    ASSUME DataInv, NEW a \in Addrs, Known(a) = {}, HasRoom,
           NET_NewQSocket(a), SV_ConnectClient(Head(freeSockets))
    PROVE  /\ DataInv'
           /\ Head(freeSockets) \in QSockets \ activeSockets
           /\ activeSockets' = activeSockets \cup {Head(freeSockets)}
           /\ \A p \in QSockets \ {Head(freeSockets)} : sock'[p] = sock[p]
           /\ \E i \in Slots :
                /\ ~Active(i)
                /\ clients' = [clients EXCEPT ![i] =
                                 [active |-> TRUE, netconnection |-> Head(freeSockets)]]
<1> DEFINE q == Head(freeSockets)
           Free == {i \in Slots : ~clients[i].active}
           First(i) == i \in Free /\ \A j \in 1..(i - 1) : clients[j].active
<1>1. Free # {}
  <2> SUFFICES ASSUME Free = {} PROVE FALSE
    OBVIOUS
  <2>1. ActiveSlots = Slots
    BY DEF ActiveSlots, Active
  <2>2. net_activeconnections = MaxClients
    BY <2>1, SlotsFinite DEF DataInv, SlotInv, CountMatches, ActiveSlots
  <2> QED BY <2>2, ClientsAssumption DEF HasRoom
<1>2. \E i \in Slots : First(i)
  <2>1. \E i \in Free : \A j \in 1..(i - 1) : j \in Slots /\ j \notin Free
    BY <1>1, FirstInactive
  <2> QED BY <2>1
<1>3. PICK i \in Slots :
        /\ First(i)
        /\ clients' = [clients EXCEPT ![i] = [active |-> TRUE, netconnection |-> q]]
        /\ net_activeconnections' = net_activeconnections + 1
        /\ UNCHANGED fatal
  <2>1. ~\A i \in Slots : clients[i].active
    BY <1>1
  <2> DEFINE i == CHOOSE i \in Slots : First(i)
  <2>2. i \in Slots /\ First(i)
    BY <1>2
  <2>3. i = CHOOSE k \in Slots : /\ ~clients[k].active
                                 /\ \A j \in 1..(k - 1) : clients[j].active
    OBVIOUS
  <2> HIDE DEF i
  <2> QED BY <2>1, <2>2, <2>3 DEF SV_ConnectClient
<1>4. i \in Slots /\ ~Active(i)
  BY <1>3 DEF Active
<1>5. /\ PoolInv'
      /\ q \in QSockets \ activeSockets
      /\ activeSockets' = activeSockets \cup {q}
      /\ sock'[q].addr = a
      /\ \A p \in QSockets \ {q} : sock'[p] = sock[p]
  BY <1>3, NewKeepsPool DEF HasRoom, DataInv, PoolInv
<1> HIDE DEF q, Free, First
<1>6. /\ clients'[i] = [active |-> TRUE, netconnection |-> q]
      /\ \A j \in Slots \ {i} : clients'[j] = clients[j]
      /\ SlotTypes'
  BY <1>3, <1>5, NullAssumption DEF DataInv, SlotInv, SlotTypes, Active
<1>7. CountMatches'
  <2>1. ActiveSlots' = ActiveSlots \cup {i} /\ i \notin ActiveSlots
    BY <1>4, <1>6 DEF ActiveSlots, Active
  <2>2. Cardinality(ActiveSlots') = Cardinality(ActiveSlots) + 1
    BY <2>1, SlotsFinite, FS_AddElement DEF ActiveSlots
  <2> QED BY <1>3, <2>2 DEF DataInv, SlotInv, CountMatches, ActiveSlots
<1>8. NoOrphan'
  <2> SUFFICES ASSUME NEW p \in activeSockets'
               PROVE  \E j \in Slots : Active(j)' /\ clients'[j].netconnection = p
    BY DEF NoOrphan
  <2>1. CASE p = q
    BY <2>1, <1>4, <1>6 DEF Active
  <2>2. CASE p \in activeSockets
    BY <2>2, <1>4, <1>6 DEF DataInv, NoOrphan, Active
  <2> QED BY <2>1, <2>2, <1>5
<1>9. OneConnectionPerHost'
  <2>1. \A p \in activeSockets : p \in QSockets /\ p # q /\ sock'[p] = sock[p]
    BY <1>5 DEF DataInv, PoolInv, PoolTypes
  <2>2. \A p \in activeSockets : ~(AddrCompare(a, sock[p].addr) >= 0)
    BY DEF Known
  <2>3. \A p \in activeSockets : ~(AddrCompare(sock[p].addr, a) >= 0)
    BY <2>2 DEF AddrCompare
  <2>4. \A p, r \in activeSockets :
          AddrCompare(sock[p].addr, sock[r].addr) >= 0 => p = r
    BY DEF DataInv, OneConnectionPerHost
  <2> QED BY <2>1, <2>2, <2>3, <2>4, <1>5 DEF OneConnectionPerHost
<1> QED BY <1>3, <1>4, <1>5, <1>6, <1>7, <1>8, <1>9 DEF DataInv, SlotInv, q

\* Two seconds pass: nothing but recent changes.
LEMMA AgeKeeps ==
    ASSUME DataInv, NEW q \in QSockets, Age(q)
    PROVE  DataInv' /\ \A p \in QSockets : sock'[p].disconnected = sock[p].disconnected
<1>1. /\ PoolTypes'
      /\ \A p \in QSockets : /\ sock'[p].addr = sock[p].addr
                             /\ sock'[p].disconnected = sock[p].disconnected
  BY DEF Age, DataInv, PoolInv, PoolTypes
<1>2. PoolInv'
  BY <1>1 DEF Age, DataInv, PoolInv, PoolConserved
<1>3. SlotInv' /\ NoOrphan'
  BY DEF Age, server, DataInv, SlotInv, SlotTypes, CountMatches, NoOrphan, Active
<1>4. OneConnectionPerHost'
  BY <1>1 DEF Age, DataInv, PoolInv, PoolTypes, OneConnectionPerHost, AddrCompare
<1> QED BY <1>1, <1>2, <1>3, <1>4 DEF DataInv

\* What all of DataInv is about stays.
LEMMA SameData ==
    ASSUME DataInv, UNCHANGED <<pool, server, fatal>>
    PROVE  DataInv'
  BY DEF DataInv, PoolInv, PoolTypes, PoolConserved, SlotInv, SlotTypes, CountMatches,
         NoOrphan, OneConnectionPerHost, pool, server, Active, AddrCompare

-----------------------------------------------------------------------------
\* The frame.

\* Where the server goes from a slot, and from a LAN driver, there is something.
LEMMA NextSlotInv ==
    ASSUME NEW after \in {"run", "send", "between"}, at \in Slots,
           phase \in {"run", "send", "between", "shutdown"}, NextSlot(after)
    PROVE  PhaseInv'
  BY ClientsAssumption DEF NextSlot, Goto, PhaseInv, Slots

LEMMA NextLanInv ==
    ASSUME PhaseInv, phase = "check", NextLan
    PROVE  PhaseInv'
  BY ClientsAssumption, DriversAssumption DEF NextLan, Goto, PhaseInv, Slots

LEMMA GotoFirst ==
    ASSUME NEW p \in {"check", "between", "shutdown"}, Goto(p, 1)
    PROVE  PhaseInv'
  BY ClientsAssumption, DriversAssumption DEF Goto, PhaseInv, Slots

\* A slot's phase has come to a slot.
LEMMA AtSlot ==
    ASSUME PhaseInv, phase # "check"
    PROVE  at \in Slots /\ phase \in {"run", "send", "between", "shutdown"}
  BY DEF PhaseInv

LEMMA InitInv ==
    ASSUME Init
    PROVE  ConnInv
<1>1. freeSockets = [n \in QSockets |-> n] /\ QSockets = 1..NumSockets
      /\ NumSockets \in Nat
  BY ClientsAssumption DEF Init, QSockets
<1>2. freeSockets \in Seq(QSockets) /\ DOMAIN freeSockets = QSockets
  BY <1>1
<1>3. PoolInv
  BY <1>1, <1>2 DEF Init, PoolInv, PoolTypes, PoolConserved
<1>4. SlotTypes
  BY NullAssumption DEF Init, SlotTypes, Active
<1>5. CountMatches
  <2>1. {i \in Slots : Active(i)} = {}
    BY DEF Init, Active
  <2> QED BY <2>1, FS_EmptySet DEF Init, CountMatches
<1>6. NoOrphan /\ OneConnectionPerHost
  BY DEF Init, NoOrphan, OneConnectionPerHost
<1>7. PhaseInv
  BY ClientsAssumption DEF Init, PhaseInv, Slots
<1>8. exposed \in BOOLEAN
  BY DEF Init
<1> QED BY <1>3, <1>4, <1>5, <1>6, <1>7, <1>8 DEF ConnInv, DataInv, SlotInv

LEMMA StepInv ==
    ASSUME ConnInv, [Next]_vars
    PROVE  ConnInv'
<1> USE DEF ConnInv
<1>1. CASE NoRequest
  BY <1>1, SameData, NextLanInv DEF NoRequest, During
<1>2. ASSUME NEW a \in Addrs, RepeatReply(a) \/ RejectFull(a)
      PROVE  ConnInv'
  BY <1>2, SameData, NextLanInv DEF RepeatReply, RejectFull, Request, During
<1>3. ASSUME NEW a \in Addrs, CloseOld(a)
      PROVE  ConnInv'
  <2>1. PICK q \in QSockets : NET_Close(q)
    BY <1>3 DEF CloseOld, Known, DataInv, PoolInv, PoolTypes
  <2>2. DataInv'
    BY <1>3, <2>1, CloseKeeps DEF CloseOld
  <2> QED BY <1>3, <2>2, NextLanInv DEF CloseOld, Request, During
<1>4. ASSUME NEW a \in Addrs, Accept(a)
      PROVE  ConnInv'
  BY <1>4, AcceptKeeps, GotoFirst DEF Accept
<1>5. CASE RunClient
  BY <1>5, SameData, AtSlot, NextSlotInv DEF RunClient, During
<1>6. CASE RunDrop
  BY <1>6, AtSlot, DropKeeps, NextSlotInv DEF RunDrop, During, Active
<1>7. CASE SendClient
  BY <1>7, SameData, AtSlot, NextSlotInv DEF SendClient, During
<1>8. CASE SendDrop
  BY <1>8, AtSlot, DropKeeps, NextSlotInv DEF SendDrop, During, Active
<1>9. CASE BeginFrame \/ Host_ShutdownServer
  BY <1>9, SameData, GotoFirst DEF BeginFrame, Host_ShutdownServer
<1>10. CASE ShutdownSlot
  <2>1. DataInv'
    BY <1>10, AtSlot, DropKeeps, SameData DEF ShutdownSlot, During, Active
  <2> QED BY <1>10, <2>1, AtSlot, NextSlotInv DEF ShutdownSlot, During
<1>11. ASSUME NEW i \in Slots, RunKick(i) \/ ConsoleKick(i)
       PROVE  ConnInv'
  BY <1>11, DropKeeps DEF RunKick, ConsoleKick, Active, PhaseInv
<1>12. ASSUME NEW i \in Slots, TimeOutInSendToAll(i)
       PROVE  ConnInv'
  <2>1. clients[i].netconnection \in QSockets
    BY <1>12 DEF TimeOutInSendToAll, DataInv, SlotInv, SlotTypes, Active
  <2> QED BY <1>12, <2>1, CloseKeeps DEF TimeOutInSendToAll, PhaseInv
<1>13. ASSUME NEW q \in QSockets, Age(q)
       PROVE  ConnInv'
  BY <1>13, AgeKeeps DEF Age, PhaseInv
<1>14. CASE UNCHANGED vars
  BY <1>14, SameData DEF vars, PhaseInv, pool, server
<1> QED
  BY <1>1, <1>2, <1>3, <1>4, <1>5, <1>6, <1>7, <1>8, <1>9, <1>10, <1>11, <1>12,
     <1>13, <1>14 DEF Next

\* The inductive invariant: what the pool, the slots and the count are to each
\* other, at every point of every frame.
THEOREM ConnectionInvariant == Spec => []ConnInv
<1>1. Init => ConnInv
  BY InitInv
<1>2. ConnInv /\ [Next]_vars => ConnInv'
  BY StepInv
<1> QED BY <1>1, <1>2, PTL DEF Spec

\* The types of the state, and that a slot has a connection while it is active.
THEOREM TypesCorrect == Spec => []TypeOK
<1>1. ConnInv => TypeOK
  BY DEF ConnInv, DataInv, PoolInv, PoolTypes, SlotInv, SlotTypes, PhaseInv, TypeOK
<1> QED BY <1>1, ConnectionInvariant, PTL

\* No qsocket is lost or in use twice: each is once on the free list and marked
\* disconnected, or active (NET_NewQSocket, NET_FreeQSocket, NET_Close).
THEOREM PoolIsConserved == Spec => []PoolConserved
<1>1. ConnInv => PoolConserved
  BY DEF ConnInv, DataInv, PoolInv
<1> QED BY <1>1, ConnectionInvariant, PTL

\* net_activeconnections is the number of active slots, whoever closed what.
THEOREM CountIsRight == Spec => []CountMatches
<1>1. ConnInv => CountMatches
  BY DEF ConnInv, DataInv, SlotInv
<1> QED BY <1>1, ConnectionInvariant, PTL

\* Neither Sys_Error of NET_FreeQSocket and SV_CheckForNewClients is reached.
THEOREM NoSysError == Spec => []NoFatalError
<1>1. ConnInv => NoFatalError
  BY DEF ConnInv, DataInv, PoolInv, NoFatalError
<1> QED BY <1>1, ConnectionInvariant, PTL

\* Every active qsocket has an active slot that can give it back.
THEOREM NothingLeaked == Spec => []NoOrphan
<1>1. ConnInv => NoOrphan
  BY DEF ConnInv, DataInv
<1> QED BY <1>1, ConnectionInvariant, PTL

\* A host never has two accepted connections (_Datagram_CheckNewConnections).
THEOREM HostsConnectOnce == Spec => []OneConnectionPerHost
<1>1. ConnInv => OneConnectionPerHost
  BY DEF ConnInv, DataInv
<1> QED BY <1>1, ConnectionInvariant, PTL

-----------------------------------------------------------------------------
(***************************************************************************)
(* While the network layer closes a qsocket only for the last LAN driver   *)
(* (exposed is FALSE), the order of the frame keeps connections apart:     *)
(* what is closed costs its slot before a request can be given it.         *)
(***************************************************************************)

\* The network layer closed the qsocket that slot i still points to.
Stale(i) == Active(i) /\ clients[i].netconnection \notin activeSockets

\* A stale slot is one that SV_RunClients has not come to yet.
StaleAhead == \A i \in Slots : Stale(i) => phase = "run" /\ i >= at

OrderInv == ConnInv /\ NoSharedConnection /\ StaleAhead

\* Dropping a slot makes no other stale, as no other has its qsocket.
LEMMA DropOrder ==
    ASSUME OrderInv, NEW i \in Slots, Active(i), SV_DropClient(i)
    PROVE  /\ NoSharedConnection'
           /\ \A j \in Slots : Stale(j)' => Stale(j) /\ j # i
<1>1. /\ clients[i].netconnection \in QSockets
      /\ clients' = [clients EXCEPT ![i] = [active |-> FALSE,
                                            netconnection |-> NULL]]
      /\ NET_Close(clients[i].netconnection)
  BY DEF SV_DropClient, OrderInv, ConnInv, DataInv, SlotInv, SlotTypes
<1>2. activeSockets' = activeSockets \ {clients[i].netconnection}
  BY <1>1, CloseKeepsPool DEF OrderInv, ConnInv, DataInv, ClosedBut
<1>3. \A j \in Slots : Active(j)' => Active(j) /\ j # i /\ clients'[j] = clients[j]
  BY <1>1 DEF Active, OrderInv, ConnInv, DataInv, SlotInv, SlotTypes
<1>4. NoSharedConnection'
  BY <1>3 DEF OrderInv, NoSharedConnection
<1>5. \A j \in Slots : Active(j) /\ j # i
                       => clients[j].netconnection # clients[i].netconnection
  BY DEF OrderInv, NoSharedConnection
<1> QED BY <1>2, <1>3, <1>4, <1>5 DEF Stale

\* A step that leaves the slots and the active qsockets alone makes none stale.
LEMMA SameOrder ==
    ASSUME OrderInv, UNCHANGED <<clients, activeSockets>>
    PROVE  /\ NoSharedConnection'
           /\ \A j \in Slots : Stale(j)' <=> Stale(j)
  BY DEF OrderInv, NoSharedConnection, Stale, Active

\* Passing a slot that is not stale leaves no stale one behind.
LEMMA PassSlot ==
    ASSUME OrderInv, phase \in {"run", "send", "between", "shutdown"}, at \in Slots,
           \A j \in Slots : Stale(j)' => Stale(j) /\ j # at,
           NEW after \in {"send", "between"}, NextSlot(after)
    PROVE  StaleAhead'
<1>1. \A j \in Slots : Stale(j)' =>
         phase = "run" /\ j \in Nat /\ j <= MaxClients /\ j >= at + 1
  BY ClientsAssumption DEF OrderInv, StaleAhead, Slots
<1>2. at \in Nat /\ MaxClients \in Nat
  BY ClientsAssumption DEF Slots
<1> QED BY <1>1, <1>2 DEF NextSlot, Goto, StaleAhead

LEMMA OrderStep ==
    ASSUME OrderInv, [Next]_vars, ~exposed'
    PROVE  OrderInv'
<1>1. ConnInv'
  BY StepInv DEF OrderInv
<1>2. phase = "check" => \A j \in Slots : ~Stale(j)
  BY DEF OrderInv, StaleAhead
<1>3. phase = "check" /\ NextLan /\ at >= NumLanDrivers => phase' = "run" /\ at' = 1
  <2>1. phase = "check" => at \in Int
    BY DEF OrderInv, ConnInv, PhaseInv
  <2> QED BY <2>1, DriversAssumption DEF NextLan, Goto
<1>4. \A j \in Slots : j >= 1
  BY ClientsAssumption DEF Slots
<1>5. PhaseInv
  BY DEF OrderInv, ConnInv
<1>6. \A j \in Slots : Stale(j) => phase = "run" /\ j >= at
  BY DEF OrderInv, StaleAhead
<1>7. CASE \/ NoRequest
           \/ \E a \in Addrs : RepeatReply(a) \/ RejectFull(a)
  <2>1. NoSharedConnection' /\ \A j \in Slots : Stale(j)' <=> Stale(j)
    BY <1>7, SameOrder DEF NoRequest, RepeatReply, RejectFull, pool, server
  <2>2. \A j \in Slots : ~Stale(j)
    BY <1>2, <1>7 DEF NoRequest, RepeatReply, RejectFull, Request, During
  <2> QED BY <1>1, <2>1, <2>2 DEF OrderInv, StaleAhead
<1>8. ASSUME NEW a \in Addrs, CloseOld(a)
      PROVE  OrderInv'
  <2>1. phase = "check" /\ at \in 1..NumLanDrivers
    BY <1>8 DEF CloseOld, Request, During, OrderInv, ConnInv, PhaseInv
  <2>2. at >= NumLanDrivers
    <3>1. ~(at < NumLanDrivers)
      BY <1>8, Zenon DEF CloseOld
    <3> QED BY <2>1, <3>1, DriversAssumption
  <2>3. phase' = "run" /\ at' = 1
    BY <1>3, <1>8, <2>1, <2>2 DEF CloseOld
  <2> QED
    BY <1>1, <1>4, <1>8, <2>3
    DEF CloseOld, server, OrderInv, StaleAhead, NoSharedConnection, Active
<1>9. ASSUME NEW a \in Addrs, Accept(a)
      PROVE  OrderInv'
  <2> DEFINE q == Head(freeSockets)
  <2>1. /\ q \notin activeSockets
        /\ activeSockets' = activeSockets \cup {q}
        /\ \E i \in Slots :
             /\ ~Active(i)
             /\ clients' = [clients EXCEPT ![i] =
                              [active |-> TRUE, netconnection |-> q]]
    BY <1>9, AcceptKeeps DEF Accept, OrderInv, ConnInv
  <2> HIDE DEF q
  <2>2. PICK i \in Slots :
          /\ ~Active(i)
          /\ clients' = [clients EXCEPT ![i] = [active |-> TRUE, netconnection |-> q]]
    BY <2>1
  <2>3. /\ clients'[i] = [active |-> TRUE, netconnection |-> q]
        /\ \A j \in Slots \ {i} : clients'[j] = clients[j]
    BY <2>2 DEF OrderInv, ConnInv, DataInv, SlotInv, SlotTypes
  <2>4. \A j \in Slots : Active(j) => clients[j].netconnection \in activeSockets
    BY <1>2, <1>9 DEF Accept, Request, During, Stale
  <2>5. NoSharedConnection'
    BY <2>1, <2>3, <2>4 DEF OrderInv, NoSharedConnection, Active
  <2>6. \A j \in Slots : ~Stale(j)'
    BY <2>1, <2>3, <2>4 DEF Stale, Active
  <2> QED BY <1>1, <2>5, <2>6 DEF OrderInv, StaleAhead
<1>10. CASE RunClient
  <2>1. ~Stale(at) /\ at \in Slots
    BY <1>5, <1>10, AtSlot
    DEF RunClient, During, Stale, Closed, Active, OrderInv, ConnInv, DataInv,
        PoolInv, PoolConserved, SlotInv, SlotTypes
  <2>2. NoSharedConnection' /\ \A j \in Slots : Stale(j)' => Stale(j) /\ j # at
    BY <1>10, <2>1, SameOrder DEF RunClient, pool, server
  <2>3. StaleAhead'
    BY <1>10, <2>1, <2>2, PassSlot DEF RunClient, During
  <2> QED BY <1>1, <2>2, <2>3 DEF OrderInv
<1>11. CASE RunDrop \/ SendDrop
  <2>1. at \in Slots /\ Active(at) /\ SV_DropClient(at)
    BY <1>5, <1>11, AtSlot DEF RunDrop, SendDrop, During, Active
  <2>2. NoSharedConnection' /\ \A j \in Slots : Stale(j)' => Stale(j) /\ j # at
    BY <2>1, DropOrder
  <2>3. StaleAhead'
    BY <1>11, <2>1, <2>2, PassSlot DEF RunDrop, SendDrop, During
  <2> QED BY <1>1, <2>2, <2>3 DEF OrderInv
<1>12. CASE SendClient \/ BeginFrame \/ Host_ShutdownServer
  <2>1. NoSharedConnection' /\ \A j \in Slots : Stale(j)' <=> Stale(j)
    BY <1>12, SameOrder DEF SendClient, BeginFrame, Host_ShutdownServer, pool, server
  <2>2. \A j \in Slots : ~Stale(j)
    BY <1>6, <1>12 DEF SendClient, BeginFrame, Host_ShutdownServer, During
  <2> QED BY <1>1, <2>1, <2>2 DEF OrderInv, StaleAhead
<1>13. CASE ShutdownSlot
  <2>1. at \in Slots /\ \A j \in Slots : ~Stale(j)
    BY <1>5, <1>6, <1>13, AtSlot DEF ShutdownSlot, During
  <2>2. NoSharedConnection' /\ \A j \in Slots : Stale(j)' => Stale(j)
    BY <1>13, <2>1, DropOrder, SameOrder DEF ShutdownSlot, Active, pool, server
  <2> QED BY <1>1, <2>1, <2>2 DEF OrderInv, StaleAhead
<1>14. ASSUME NEW i \in Slots, RunKick(i) \/ ConsoleKick(i)
       PROVE  OrderInv'
  <2>1. NoSharedConnection' /\ \A j \in Slots : Stale(j)' => Stale(j)
    BY <1>14, DropOrder DEF RunKick, ConsoleKick, Active
  <2> QED BY <1>1, <1>6, <1>14, <2>1 DEF RunKick, ConsoleKick, OrderInv, StaleAhead
<1>15. ASSUME NEW i \in Slots, TimeOutInSendToAll(i)
       PROVE  OrderInv'
  BY <1>15 DEF TimeOutInSendToAll
<1>16. CASE UNCHANGED vars \/ \E q \in QSockets : Age(q)
  <2>1. NoSharedConnection' /\ \A j \in Slots : Stale(j)' <=> Stale(j)
    BY <1>16, SameOrder DEF vars, Age, pool, server
  <2> QED BY <1>1, <1>6, <1>16, <2>1 DEF vars, Age, OrderInv, StaleAhead
<1> QED
  BY <1>7, <1>8, <1>9, <1>10, <1>11, <1>12, <1>13, <1>14, <1>15, <1>16 DEF Next

\* The history only goes up, so OrderInv holds as long as it is FALSE.
LEMMA OrderInvariant == Spec => [](ConnInv /\ (~exposed => OrderInv))
<1> DEFINE Inv == ConnInv /\ (~exposed => OrderInv)
<1>1. Init => Inv
  <2>1. Init => \A i \in Slots : ~Active(i)
    BY DEF Init, Active
  <2> QED BY <2>1, InitInv DEF OrderInv, NoSharedConnection, StaleAhead, Stale
<1>2. Inv /\ [Next]_vars => Inv'
  <2> SUFFICES ASSUME Inv, [Next]_vars PROVE Inv'
    OBVIOUS
  <2>1. ConnInv'
    BY StepInv
  <2>2. ~exposed' => ~exposed
    BY DEF Next, vars, NoRequest, RepeatReply, CloseOld, RejectFull, Accept, RunClient,
           RunDrop, RunKick, SendClient, SendDrop, BeginFrame, ConsoleKick,
           TimeOutInSendToAll, Host_ShutdownServer, ShutdownSlot, Age
  <2> QED BY <2>1, <2>2, OrderStep
<1> QED BY <1>1, <1>2, PTL DEF Spec

\* Two slots never hold the same qsocket (what net.h:308 says of NET_Close) as long
\* as the network layer closes none in the middle of its requests or in
\* NET_SendToAll.
THEOREM ConnectionsApart == Spec => []SharedOnlyIfExposed
<1>1. (~exposed => OrderInv) => SharedOnlyIfExposed
  BY DEF OrderInv, SharedOnlyIfExposed
<1> QED BY <1>1, OrderInvariant, PTL

\* And SV_SendClientMessages never meets a slot whose qsocket is closed.
THEOREM ClosedAreDropped == Spec => []ClosedIsDropped
<1>1. (~exposed => OrderInv) => ClosedIsDropped
  BY DEF OrderInv, StaleAhead, Stale, ConnInv, DataInv, PoolInv, PoolConserved,
         SlotInv, SlotTypes, ClosedIsDropped, Closed, Active
<1> QED BY <1>1, OrderInvariant, PTL
=============================================================================
