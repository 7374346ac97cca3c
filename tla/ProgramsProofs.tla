--------------------------- MODULE ProgramsProofs ---------------------------
(***************************************************************************)
(* Proofs about Programs.tla, for all programs and every size of the two   *)
(* stacks: calls and returns keep them balanced, whatever errors came      *)
(* before, and a return gives the caller its locals back.                  *)
(***************************************************************************)
EXTENDS Programs, SequenceTheorems, TLAPS

\* The invariant in two halves: the machine, and the host.
MachineTypes ==
    /\ DOMAIN locals = Functions
    /\ \A f \in Functions : locals[f] \in [Cells(f) -> Values]
    /\ xfunction \in Functions \cup {NULL}
    /\ stack \in Seq(Entries) /\ Len(stack) < MaxDepth
    /\ saved \in Seq(Values) /\ Len(saved) <= LocalStackSize
    /\ runs \in Seq(Runs)

Machine == MachineTypes /\ Balanced /\ Kept

Host ==
    /\ phase \in {"frame", "loading", "shutdown", "exited"}
    /\ active \in BOOLEAN /\ inerror \in BOOLEAN /\ dedicated \in BOOLEAN
    /\ ErrorsEnd

Slots == clients \subseteq Clients /\ spawned \subseteq clients

LEMMA Halves == ProgramsInv <=> Machine /\ Host /\ Slots
BY DEF ProgramsInv, TypeOK, Machine, MachineTypes, Host, Slots

LEMMA HalvesNext == ProgramsInv' <=> Machine' /\ Host' /\ Slots'
BY DEF ProgramsInv, TypeOK, Machine, MachineTypes, Host, Slots

-----------------------------------------------------------------------------
\* The runs.

\* What makes a sequence of runs fit a stack of a height, when the oldest run
\* began at a depth.
FitRuns(rs, height, oldest) ==
    /\ rs \in Seq(Runs) /\ rs # <<>>
    /\ \A i, j \in 1..Len(rs) : i < j => rs[i].exit < rs[j].exit
    /\ \A i \in 1..Len(rs) : rs[i].exit < height
    /\ rs[1].exit = oldest

\* Where the oldest run begins; while none runs, where one would.
Base == IF Running THEN runs[1].exit ELSE Len(stack)

LEMMA RunsFit ==
    ASSUME Machine, Running
    PROVE  /\ FitRuns(runs, Len(stack), Base)
           /\ Len(runs) \in Nat \ {0} /\ Run \in Runs /\ runs[1] \in Runs
           /\ Base \in Nat /\ Base <= Run.exit /\ Run.exit < Len(stack)
           /\ Len(stack) \in Nat \ {0}
<1>1. /\ runs \in Seq(Runs) /\ stack \in Seq(Entries) /\ runs # <<>>
  BY DEF Machine, MachineTypes, Running
<1>2. Len(runs) \in Nat \ {0} /\ Len(stack) \in Nat
  BY <1>1, EmptySeq, LenProperties
<1>3. \A i \in 1..Len(runs) : runs[i] \in Runs
  BY <1>1, ElementOfSeq
<1>4. \A i \in 1..Len(runs) : runs[i].exit \in Nat
  BY <1>3 DEF Runs
<1>5. /\ \A i, j \in 1..Len(runs) : i < j => runs[i].exit < runs[j].exit
      /\ \A i \in 1..Len(runs) : runs[i].exit < Len(stack)
  BY DEF Machine, Balanced
<1>6. 1 \in 1..Len(runs) /\ Len(runs) \in 1..Len(runs) /\ Base = runs[1].exit
  BY <1>2 DEF Base, Running
<1> QED BY <1>1, <1>2, <1>3, <1>4, <1>5, <1>6 DEF FitRuns, Run

\* A statement is counted.
LEMMA CountedFits ==
    ASSUME Machine, CanRun
    PROVE  FitRuns(WithRun(Counted), Len(stack), Base)
<1>1. Running
  BY DEF CanRun
<1> DEFINE rs == WithRun(Counted)
<1>2. /\ FitRuns(runs, Len(stack), Base)
      /\ Len(runs) \in Nat \ {0} /\ Run \in Runs
  BY <1>1, RunsFit
<1>3. Counted \in Runs /\ Counted.exit = Run.exit
  BY <1>2 DEF Counted, Runs, CanRun
<1>4. Len(runs) \in 1..Len(runs) /\ runs \in Seq(Runs)
  BY <1>2 DEF FitRuns
<1>5. /\ rs \in Seq(Runs) /\ Len(rs) = Len(runs)
      /\ \A j \in 1..Len(runs) : rs[j] = IF j = Len(runs) THEN Counted ELSE runs[j]
  BY <1>3, <1>4, ExceptSeq DEF WithRun
<1>6. \A j \in 1..Len(runs) : rs[j].exit = runs[j].exit
  BY <1>3, <1>5 DEF Run
<1> HIDE DEF rs
<1>7. rs # <<>>
  BY <1>2, <1>5, EmptySeq
<1> QED BY <1>2, <1>5, <1>6, <1>7 DEF FitRuns, rs

\* A program is started inside the running one, or by the host.
LEMMA NestedFits ==
    ASSUME Machine, CanRun, NEW slot \in Clients \cup {0}
    PROVE  FitRuns(Append(WithRun(Counted), NewRun(slot)), Len(stack) + 1, Base)
<1> DEFINE rs == WithRun(Counted)
           ns == Append(rs, NewRun(slot))
<1>1. FitRuns(rs, Len(stack), Base)
  BY CountedFits
<1>2. Len(stack) \in Nat
  BY LenProperties DEF Machine, MachineTypes
<1>3. NewRun(slot) \in Runs /\ NewRun(slot).exit = Len(stack)
  BY <1>2, SizeAssumption DEF NewRun, Runs
<1> HIDE DEF rs
<1>4. rs \in Seq(Runs) /\ Len(rs) \in Nat \ {0}
  BY <1>1, EmptySeq DEF FitRuns
<1>5. /\ ns \in Seq(Runs) /\ ns # <<>> /\ Len(ns) = Len(rs) + 1
      /\ \A i \in 1..Len(rs) : ns[i] = rs[i]
      /\ ns[Len(rs) + 1] = NewRun(slot)
  BY <1>3, <1>4, AppendProperties
<1> HIDE DEF ns
<1>6. \A i \in 1..Len(rs) : rs[i] \in Runs
  BY <1>4, ElementOfSeq
<1>7. \A i \in 1..Len(rs) : rs[i].exit \in Nat
  BY <1>6 DEF Runs
<1>8. \A i \in 1..Len(rs) : rs[i].exit < Len(stack)
  BY <1>1 DEF FitRuns
<1>9. \A i, j \in 1..Len(ns) : i < j => ns[i].exit < ns[j].exit
  <2> SUFFICES ASSUME NEW i \in 1..Len(ns), NEW j \in 1..Len(ns), i < j
               PROVE  ns[i].exit < ns[j].exit
    OBVIOUS
  <2>1. i \in 1..Len(rs)
    BY <1>4, <1>5
  <2>2. CASE j \in 1..Len(rs)
    BY <1>1, <1>5, <2>1, <2>2 DEF FitRuns
  <2>3. CASE j = Len(rs) + 1
    BY <1>3, <1>5, <1>8, <2>1, <2>3
  <2> QED BY <1>4, <1>5, <2>2, <2>3
<1>10. \A i \in 1..Len(ns) : ns[i].exit < Len(stack) + 1
  <2> SUFFICES ASSUME NEW i \in 1..Len(ns)
               PROVE  ns[i].exit < Len(stack) + 1
    OBVIOUS
  <2>1. CASE i \in 1..Len(rs)
    BY <1>2, <1>5, <1>7, <1>8, <2>1
  <2>2. CASE i = Len(rs) + 1
    BY <1>2, <1>3, <1>5, <2>2
  <2> QED BY <1>4, <1>5, <2>1, <2>2
<1>11. ns[1].exit = Base
  BY <1>1, <1>4, <1>5 DEF FitRuns
<1> QED BY <1>5, <1>9, <1>10, <1>11 DEF FitRuns, ns, rs

LEMMA FirstFits ==
    ASSUME Machine, ~Running, NEW slot \in Clients \cup {0}
    PROVE  FitRuns(Append(<<>>, NewRun(slot)), Len(stack) + 1, Base)
<1> DEFINE ns == Append(<<>>, NewRun(slot))
<1>1. Len(stack) \in Nat
  BY LenProperties DEF Machine, MachineTypes
<1>2. NewRun(slot) \in Runs /\ NewRun(slot).exit = Len(stack)
  BY <1>1, SizeAssumption DEF NewRun, Runs
<1>3. <<>> \in Seq(Runs) /\ Len(<<>>) = 0
  BY EmptySeq
<1>4. ns \in Seq(Runs) /\ ns # <<>> /\ Len(ns) = 1 /\ ns[1] = NewRun(slot)
  BY <1>2, <1>3, AppendProperties
<1> HIDE DEF ns
<1>5. \A i \in 1..Len(ns) : i = 1
  BY <1>4
<1> QED BY <1>1, <1>2, <1>4, <1>5 DEF FitRuns, ns, Base

\* A statement counted more fits a deeper stack as well.
LEMMA FitsDeeper ==
    ASSUME NEW rs, NEW height \in Nat, NEW b, FitRuns(rs, height, b)
    PROVE  FitRuns(rs, height + 1, b)
<1>1. rs \in Seq(Runs) /\ \A i \in 1..Len(rs) : rs[i] \in Runs
  BY ElementOfSeq DEF FitRuns
<1>2. \A i \in 1..Len(rs) : rs[i].exit \in Nat /\ rs[i].exit < height
  BY <1>1 DEF FitRuns, Runs
<1> QED BY <1>2 DEF FitRuns

-----------------------------------------------------------------------------
\* What the steps do to the machine.

\* A step that leaves the machine alone.
LEMMA MachineKept ==
    ASSUME Machine, UNCHANGED machine
    PROVE  Machine'
<1>1. /\ locals' = locals /\ xfunction' = xfunction
      /\ stack' = stack /\ saved' = saved /\ runs' = runs
  BY DEF machine
<1>2. MachineTypes'
  BY <1>1 DEF Machine, MachineTypes, Cells
<1>3. Oldest' = Oldest /\ Live' = Live
  BY <1>1 DEF Live, Oldest, Running
<1>4. \A i : FunOf(i)' = FunOf(i) /\ HeightOf(i)' = HeightOf(i)
  BY <1>1 DEF FunOf, HeightOf
<1>5. Balanced'
  BY <1>1, <1>3, <1>4 DEF Machine, Balanced
<1>6. Kept'
  BY <1>1, <1>3, <1>4 DEF Machine, Kept, Cells
<1> QED BY <1>2, <1>5, <1>6 DEF Machine

\* An error leaves no program running, and so nothing to restore.
LEMMA ErrorStops ==
    ASSUME Machine, NEW depth \in 0..Len(stack), Host_Error(depth)
    PROVE  Machine'
<1>1. stack \in Seq(Entries) /\ Len(stack) \in Nat
  BY LenProperties DEF Machine, MachineTypes
<1>2. \A i \in 1..depth : stack[i] \in Entries
  BY <1>1, ElementOfSeq
<1>3. stack' \in Seq(Entries) /\ Len(stack') = depth
  <2>1. stack' = SubSeq(stack, 1, depth) /\ depth \in Nat
    BY <1>1 DEF Host_Error
  <2> QED BY <1>2, <2>1, SubSeqProperties
<1>4. runs' = <<>> /\ UNCHANGED <<locals, xfunction, saved>>
  BY DEF Host_Error
<1>5. <<>> \in Seq(Runs) /\ Len(<<>>) = 0
  BY EmptySeq
<1>6. MachineTypes'
  BY <1>1, <1>3, <1>4, <1>5, SizeAssumption DEF Machine, MachineTypes, Cells
<1>7. ~Running' /\ Oldest' = depth + 1 /\ Live' = {}
  BY <1>1, <1>3, <1>4 DEF Running, Oldest, Live
<1>8. Balanced'
  BY <1>4, <1>5, <1>7 DEF Balanced
<1>9. Kept'
  <2>1. Len(stack') = depth /\ Oldest' + 1 = depth + 2
    BY <1>1, <1>3, <1>7
  <2>2. (Oldest + 1..Len(stack))' = {}
    BY <1>1, <2>1
  <2> QED BY <2>2 DEF Kept
<1> QED BY <1>6, <1>8, <1>9 DEF Machine

\* The oldest live entry, in terms of Base.
LEMMA OldestBase ==
    ASSUME Machine
    PROVE  /\ Oldest = Base + 1 /\ Base \in Nat /\ Base <= Len(stack)
           /\ Len(stack) \in Nat /\ Len(saved) \in Nat /\ stack \in Seq(Entries)
           /\ Running => Base < Len(stack) /\ Len(stack) \in Live /\ xfunction \in Functions
<1>1. stack \in Seq(Entries) /\ Len(stack) \in Nat /\ Len(saved) \in Nat
  BY LenProperties DEF Machine, MachineTypes
<1>2. CASE Running
  <2>0. Run \in Runs /\ Base \in Nat /\ Base <= Run.exit /\ Run.exit < Len(stack)
    BY <1>2, RunsFit
  <2>1. Base \in Nat /\ Base < Len(stack) /\ Oldest = Base + 1
    <3>1. Run.exit \in Nat
      BY <2>0 DEF Runs
    <3>2. Oldest = Base + 1
      BY <1>2 DEF Oldest, Base
    <3> QED BY <1>1, <2>0, <3>1, <3>2
  <2>2. Len(stack) \in Live
    BY <1>1, <2>1 DEF Live
  <2>3. FunOf(Len(stack)) \in Functions
    BY <2>2 DEF Machine, Balanced
  <2> QED BY <1>1, <2>1, <2>2, <2>3 DEF FunOf
<1>3. CASE ~Running
  BY <1>1, <1>3 DEF Oldest, Base
<1> QED BY <1>2, <1>3

\* A live entry's own part of the saved locals lies below the height of each
\* entry above it.
LEMMA Heights ==
    ASSUME Machine, NEW i \in Live
    PROVE  /\ i \in Nat \ {0} /\ i <= Len(stack)
           /\ FunOf(i) \in Functions /\ Locals[FunOf(i)] \in Nat
           /\ stack[i] \in Entries /\ stack[i].used \in Nat
           /\ HeightOf(i) = stack[i].used + Locals[FunOf(i)]
           /\ HeightOf(i) \in Nat /\ HeightOf(i) <= Len(saved)
<1>1. i \in Nat \ {0} /\ i \in 1..Len(stack) /\ Len(stack) \in Live
  BY OldestBase DEF Live
<1>2. stack[i] \in Entries
  BY <1>1, OldestBase, ElementOfSeq
<1>3. /\ FunOf(i) \in Functions
      /\ HeightOf(i) = stack[i].used + Locals[FunOf(i)]
      /\ HeightOf(i) <= HeightOf(Len(stack))
  BY <1>1, OldestBase DEF Machine, Balanced
<1>4. HeightOf(Len(stack)) = Len(saved)
  BY DEF HeightOf
<1> QED BY SMTT(30), <1>1, <1>2, <1>3, <1>4, OldestBase, FunctionAssumption DEF Entries

\* What the new entry and the saved locals are.
LEMMA EnterParts ==
    ASSUME Machine, NEW f \in Functions, NEW args \in Arguments(f), ~Overflow(f)
    PROVE  /\ Entry \in Entries
           /\ Append(stack, Entry) \in Seq(Entries)
           /\ Len(Append(stack, Entry)) = Len(stack) + 1
           /\ \A i \in 1..Len(stack) : Append(stack, Entry)[i] = stack[i]
           /\ Append(stack, Entry)[Len(stack) + 1] = Entry
           /\ Saved(f) \in Seq(Values)
           /\ Len(Saved(f)) = Len(saved) + Locals[f]
           /\ \A i \in 1..Len(saved) : Saved(f)[i] = saved[i]
           /\ \A c \in Cells(f) : Saved(f)[Len(saved) + c] = locals[f][c]
           /\ DOMAIN Entered(f, args) = Functions
           /\ Entered(f, args)[f] \in [Cells(f) -> Values]
           /\ \A g \in Functions \ {f} : Entered(f, args)[g] = locals[g]
<1>1. /\ stack \in Seq(Entries) /\ Len(stack) \in Nat
      /\ saved \in Seq(Values) /\ Len(saved) \in Nat
  BY OldestBase DEF Machine, MachineTypes
<1>2. /\ Locals[f] \in Nat /\ Parms[f] \in Nat
      /\ locals[f] \in [Cells(f) -> Values]
  BY FunctionAssumption DEF Machine, MachineTypes
<1>3. locals[f] \in Seq(Values) /\ Len(locals[f]) = Locals[f]
  BY <1>2 DEF Cells
<1>4. Entry \in Entries
  <2>1. xfunction \in Functions \cup {NULL}
    BY DEF Machine, MachineTypes
  <2>2. Running => locals[xfunction] \in Seq(Values)
    <3>1. SUFFICES ASSUME Running PROVE locals[xfunction] \in Seq(Values)
      OBVIOUS
    <3>2. locals[xfunction] \in [Cells(xfunction) -> Values] /\ Locals[xfunction] \in Nat
      BY <3>1, OldestBase, FunctionAssumption DEF Machine, MachineTypes
    <3> QED BY <3>2 DEF Cells
  <2>3. <<>> \in Seq(Values)
    BY EmptySeq
  <2> QED BY <1>1, <2>1, <2>2, <2>3 DEF Entry, Entries
<1>5. /\ Append(stack, Entry) \in Seq(Entries)
      /\ Len(Append(stack, Entry)) = Len(stack) + 1
      /\ \A i \in 1..Len(stack) : Append(stack, Entry)[i] = stack[i]
      /\ Append(stack, Entry)[Len(stack) + 1] = Entry
  BY <1>1, <1>4, AppendProperties
<1>6. /\ Saved(f) \in Seq(Values)
      /\ Len(Saved(f)) = Len(saved) + Locals[f]
      /\ \A i \in 1..Len(saved) + Locals[f] : Saved(f)[i] =
            IF i <= Len(saved) THEN saved[i] ELSE locals[f][i - Len(saved)]
  BY <1>1, <1>3, ConcatProperties DEF Saved
<1>7. \A i \in 1..Len(saved) : Saved(f)[i] = saved[i]
  BY <1>1, <1>2, <1>6
<1>8. \A c \in Cells(f) : Saved(f)[Len(saved) + c] = locals[f][c]
  <2> SUFFICES ASSUME NEW c \in Cells(f)
               PROVE  Saved(f)[Len(saved) + c] = locals[f][c]
    OBVIOUS
  <2>1. c \in Nat /\ 1 <= c /\ c <= Locals[f]
    BY <1>2 DEF Cells
  <2>2. /\ Len(saved) + c \in 1..Len(saved) + Locals[f]
        /\ ~(Len(saved) + c <= Len(saved)) /\ Len(saved) + c - Len(saved) = c
    BY <1>1, <1>2, <2>1
  <2>3. Saved(f)[Len(saved) + c] = locals[f][Len(saved) + c - Len(saved)]
    BY <1>1, <1>2, <1>6, <2>1, <2>2
  <2> QED BY <2>2, <2>3
<1>9. DOMAIN Entered(f, args) = Functions
  BY DEF Entered, Machine, MachineTypes
<1>10. /\ Entered(f, args)[f] =
             [i \in Cells(f) |-> IF i <= Parms[f] THEN args[i] ELSE locals[f][i]]
       /\ \A g \in Functions \ {f} : Entered(f, args)[g] = locals[g]
  BY DEF Entered, Machine, MachineTypes
<1>11. Entered(f, args)[f] \in [Cells(f) -> Values]
  <2>1. args \in [1..Parms[f] -> Values]
    BY FunctionAssumption DEF Arguments
  <2>2. \A i \in Cells(f) : i <= Parms[f] => i \in 1..Parms[f]
    BY <1>2 DEF Cells
  <2> QED BY <1>2, <1>10, <2>1, <2>2
<1> QED BY <1>4, <1>5, <1>6, <1>7, <1>8, <1>9, <1>10, <1>11

\* PR_EnterFunction without an overflow.
Enters(f, args, rs) ==
    /\ stack' = Append(stack, Entry)
    /\ saved' = Saved(f)
    /\ locals' = Entered(f, args)
    /\ xfunction' = f
    /\ runs' = rs

LEMMA EnterKeeps ==
    ASSUME Machine, NEW f \in Functions, NEW args \in Arguments(f), ~Overflow(f),
           NEW rs, FitRuns(rs, Len(stack) + 1, Base), Enters(f, args, rs)
    PROVE  Machine'
<1> DEFINE n == Len(stack)
           stk == Append(stack, Entry)
           sav == Saved(f)
           loc == Entered(f, args)
<1>1. /\ stack' = stk /\ saved' = sav /\ locals' = loc
      /\ xfunction' = f /\ runs' = rs
  BY DEF Enters
<1>2. /\ Entry \in Entries /\ stk \in Seq(Entries) /\ Len(stk) = n + 1
      /\ \A i \in 1..n : stk[i] = stack[i]
      /\ stk[n + 1] = Entry
      /\ sav \in Seq(Values) /\ Len(sav) = Len(saved) + Locals[f]
      /\ \A i \in 1..Len(saved) : sav[i] = saved[i]
      /\ \A c \in Cells(f) : sav[Len(saved) + c] = locals[f][c]
      /\ DOMAIN loc = Functions
      /\ loc[f] \in [Cells(f) -> Values]
      /\ \A g \in Functions \ {f} : loc[g] = locals[g]
  BY EnterParts
<1>3. /\ Oldest = Base + 1 /\ Base \in Nat /\ Base <= n /\ n \in Nat
      /\ Len(saved) \in Nat /\ Locals[f] \in Nat
      /\ Running => xfunction \in Functions
      /\ ~Running => Base = n
  BY OldestBase, FunctionAssumption DEF Base
<1>4. Oldest' = Base + 1 /\ Live' = Base + 1..n + 1
  <2>1. Oldest' = Base + 1
    BY <1>1 DEF FitRuns, Oldest, Running
  <2> QED BY <1>1, <1>2, <2>1 DEF Live
<1>5. Live = Base + 1..n
  BY <1>3 DEF Live
<1> HIDE DEF stk, sav, loc
<1>6. MachineTypes'
  <2>1. \A g \in Functions : loc[g] \in [Cells(g) -> Values]
    BY <1>2 DEF Machine, MachineTypes
  <2>2. n + 1 < MaxDepth /\ Len(saved) + Locals[f] <= LocalStackSize
    BY <1>3, SizeAssumption DEF Overflow
  <2>3. rs \in Seq(Runs)
    BY DEF FitRuns
  <2> QED BY <1>1, <1>2, <2>1, <2>2, <2>3 DEF MachineTypes, Cells
<1>7. \A i \in Live : /\ FunOf(i)' = FunOf(i)
                      /\ HeightOf(i)' = HeightOf(i)
                      /\ stk[i] = stack[i]
  <2> SUFFICES ASSUME NEW i \in Live
               PROVE  /\ FunOf(i)' = FunOf(i)
                      /\ HeightOf(i)' = HeightOf(i)
                      /\ stk[i] = stack[i]
    OBVIOUS
  <2>1. i \in 1..n /\ i # n + 1
    BY <1>3, <1>5
  <2>2. FunOf(i)' = stk[i + 1].fun /\ HeightOf(i)' = stk[i + 1].used
    BY <1>1, <1>2, <2>1 DEF FunOf, HeightOf
  <2>3. CASE i = n
    <3>1. FunOf(i) = xfunction /\ HeightOf(i) = Len(saved)
      BY <2>3 DEF FunOf, HeightOf
    <3>2. Entry.fun = xfunction /\ Entry.used = Len(saved)
      BY DEF Entry
    <3>3. stk[i + 1] = Entry
      BY <1>2, <2>3
    <3> QED BY <1>2, <2>1, <2>2, <3>1, <3>2, <3>3
  <2>4. CASE i # n
    <3>1. i + 1 \in 1..n
      BY <1>3, <2>1, <2>4
    <3>2. FunOf(i) = stack[i + 1].fun /\ HeightOf(i) = stack[i + 1].used
      BY <2>4 DEF FunOf, HeightOf
    <3> QED BY <1>2, <2>1, <2>2, <3>1, <3>2
  <2> QED BY <2>3, <2>4
<1>0. PICK top : top = Len(stack) + 1
  OBVIOUS
<1>8. FunOf(top)' = f /\ HeightOf(top)' = Len(saved) + Locals[f]
  BY <1>0, <1>1, <1>2 DEF FunOf, HeightOf
<1>9. Entry.used = Len(saved) /\ Entry.fun = xfunction
      /\ (Running => Entry.kept = locals[xfunction])
  BY DEF Entry
<1>10. \A i \in Base + 1..n + 1 : i \in Live \/ i = n + 1
  BY <1>3, <1>5
<1>11. Balanced'
  <2>1. \A i \in Base + 1..n + 1 :
            /\ FunOf(i)' \in Functions
            /\ HeightOf(i)' = stk[i].used + Locals[FunOf(i)']
    <3> SUFFICES ASSUME NEW i \in Base + 1..n + 1
                 PROVE  /\ FunOf(i)' \in Functions
                        /\ HeightOf(i)' = stk[i].used + Locals[FunOf(i)']
      OBVIOUS
    <3>1. CASE i \in Live
      BY <1>7, <3>1, Heights
    <3>2. CASE i = n + 1
      BY <1>0, <1>2, <1>8, <1>9, <3>2
    <3> QED BY <1>10, <3>1, <3>2
  <2>2. \A i, j \in Base + 1..n + 1 : i <= j => HeightOf(i)' <= HeightOf(j)'
    <3> SUFFICES ASSUME NEW i \in Base + 1..n + 1, NEW j \in Base + 1..n + 1, i <= j
                 PROVE  HeightOf(i)' <= HeightOf(j)'
      OBVIOUS
    <3>1. CASE j \in Live
      <4>1. i \in Live
        BY <1>3, <1>5, <3>1
      <4> QED BY <1>7, <3>1, <4>1 DEF Machine, Balanced
    <3>2. CASE j = n + 1 /\ i = n + 1
      BY <1>0, <1>3, <1>8, <3>2
    <3>3. CASE j = n + 1 /\ i \in Live
      <4>1. HeightOf(i)' \in Nat /\ HeightOf(i)' <= Len(saved)
        BY <1>7, <3>3, Heights
      <4> QED BY <1>0, <1>3, <1>8, <3>3, <4>1
    <3> QED BY <1>10, <3>1, <3>2, <3>3
  <2>3. /\ \A i, j \in 1..Len(rs) : i < j => rs[i].exit < rs[j].exit
        /\ \A i \in 1..Len(rs) : rs[i].exit < n + 1
    BY DEF FitRuns
  <2> QED BY <1>1, <1>2, <1>4, <2>1, <2>2, <2>3 DEF Balanced
<1>12. Kept'
  <2>1. \A i \in Base + 2..n + 1 :
            LET g == stk[i].fun
            IN  /\ stk[i].kept \in [Cells(g) -> Values]
                /\ \A j \in i..n + 1 :
                       (FunOf(j)' = g /\ \A k \in i..j - 1 : FunOf(k)' # g) =>
                          \A c \in Cells(g) : sav[stk[j].used + c] = stk[i].kept[c]
                /\ (\A j \in i..n + 1 : FunOf(j)' # g) => loc[g] = stk[i].kept
    <3> SUFFICES ASSUME NEW i \in Base + 2..n + 1
                 PROVE  LET g == stk[i].fun
                        IN  /\ stk[i].kept \in [Cells(g) -> Values]
                            /\ \A j \in i..n + 1 :
                                  (FunOf(j)' = g /\ \A k \in i..j - 1 : FunOf(k)' # g) =>
                                     \A c \in Cells(g) :
                                        sav[stk[j].used + c] = stk[i].kept[c]
                            /\ (\A j \in i..n + 1 : FunOf(j)' # g) =>
                                  loc[g] = stk[i].kept
      OBVIOUS
    <3> DEFINE g == stk[i].fun
    <3>1. i \in Nat /\ i >= 1 /\ Base + 1 < i /\ i <= n + 1
      BY <1>3
    <3>2. CASE i <= n
      <4>1. i \in Live /\ i \in Oldest + 1..Len(stack) /\ stk[i] = stack[i]
        BY <1>3, <1>5, <1>7, <3>1, <3>2
      <4>2. /\ stk[i].kept \in [Cells(g) -> Values]
            /\ \A j \in i..n :
                   (FunOf(j) = g /\ \A k \in i..j - 1 : FunOf(k) # g) =>
                      \A c \in Cells(g) : saved[stack[j].used + c] = stk[i].kept[c]
            /\ (\A j \in i..n : FunOf(j) # g) => locals[g] = stk[i].kept
        BY <4>1 DEF Machine, Kept
      <4>3. i - 1 \in Live /\ FunOf(i - 1) = g
        <5>1. i - 1 \in Live /\ i - 1 # n /\ i - 1 + 1 = i
          BY <1>3, <1>5, <3>1, <3>2
        <5> QED BY <4>1, <5>1 DEF FunOf
      <4>4. g \in Functions
        BY <4>3, Heights
      <4>5. \A j \in i..n + 1 : (j \in Live /\ j \in i..n) \/ j = n + 1
        BY <1>3, <1>5, <3>1
      <4>6. ASSUME NEW j \in i..n + 1, FunOf(j)' = g, \A k \in i..j - 1 : FunOf(k)' # g,
                   NEW c \in Cells(g)
            PROVE  sav[stk[j].used + c] = stk[i].kept[c]
        <5>1. \A k \in i..j - 1 : FunOf(k) # g
          <6> SUFFICES ASSUME NEW k \in i..j - 1 PROVE FunOf(k) # g
            OBVIOUS
          <6>1. k \in Live
            BY <1>3, <1>5, <3>1
          <6> QED BY <1>7, <4>6, <6>1
        <5>2. CASE j \in Live /\ j \in i..n
          <6>1. FunOf(j) = g /\ stk[j] = stack[j]
            BY <1>7, <4>6, <5>2
          <6>2. saved[stack[j].used + c] = stk[i].kept[c]
            BY <4>2, <5>1, <5>2, <6>1
          <6>3. /\ stack[j].used \in Nat /\ Locals[g] \in Nat
                /\ stack[j].used + Locals[g] <= Len(saved)
            BY <5>2, <6>1, Heights
          <6>4. stack[j].used + c \in 1..Len(saved)
            BY SMTT(30), <1>3, <6>3 DEF Cells
          <6> QED BY <1>2, <6>1, <6>2, <6>4
        <5>3. CASE j = n + 1
          <6>1. f = g /\ stk[j] = Entry
            BY <1>0, <1>2, <1>8, <4>6, <5>3
          <6>2. \A k \in i..n : FunOf(k) # g
            BY <1>3, <5>1, <5>3
          <6>3. locals[g] = stk[i].kept
            BY <4>2, <6>2
          <6>4. sav[Len(saved) + c] = locals[g][c]
            BY <1>2, <6>1
          <6> QED BY <1>9, <6>1, <6>3, <6>4
        <5> QED BY <4>5, <5>2, <5>3
      <4>7. ASSUME \A j \in i..n + 1 : FunOf(j)' # g
            PROVE  loc[g] = stk[i].kept
        <5>1. g # f
          BY <1>0, <1>3, <1>8, <3>1, <4>7
        <5>2. \A j \in i..n : FunOf(j) # g
          <6> SUFFICES ASSUME NEW j \in i..n PROVE FunOf(j) # g
            OBVIOUS
          <6>1. j \in Live /\ j \in i..n + 1
            BY <1>3, <1>5, <3>1
          <6> QED BY <1>7, <4>7, <6>1
        <5> QED BY <1>2, <4>2, <4>4, <5>1, <5>2
      <4> QED BY <4>2, <4>6, <4>7
    <3>3. CASE i = n + 1
      <4>1. Running /\ xfunction \in Functions
        BY <1>3, <3>1, <3>3
      <4>2. g = xfunction /\ stk[i] = Entry /\ Entry.kept = locals[xfunction]
        BY <1>2, <1>9, <3>3, <4>1
      <4>3. stk[i].kept \in [Cells(g) -> Values]
        BY <4>1, <4>2 DEF Machine, MachineTypes
      <4>4. \A j \in i..n + 1 : j = n + 1
        BY <1>3, <3>3
      <4>5. ASSUME NEW j \in i..n + 1, FunOf(j)' = g, NEW c \in Cells(g)
            PROVE  sav[stk[j].used + c] = stk[i].kept[c]
        <5>1. j = n + 1 /\ f = g
          BY <1>0, <1>8, <4>4, <4>5
        <5>2. sav[Len(saved) + c] = locals[g][c]
          BY <1>2, <5>1
        <5> QED BY <1>2, <1>9, <4>2, <5>1, <5>2
      <4>6. ASSUME \A j \in i..n + 1 : FunOf(j)' # g
            PROVE  loc[g] = stk[i].kept
        <5>1. g # f
          BY <1>0, <1>3, <1>8, <3>3, <4>6
        <5> QED BY <1>2, <4>1, <4>2, <5>1
      <4> QED BY <4>3, <4>5, <4>6
    <3> QED BY <1>3, <3>1, <3>2, <3>3
  <2>2. Len(stack') = n + 1 /\ Oldest' + 1 = Base + 2
    BY <1>1, <1>2, <1>3, <1>4
  <2> QED BY <1>1, <2>1, <2>2 DEF Kept, Cells
<1> QED BY <1>6, <1>11, <1>12 DEF Machine

\* A statement that stores into the running function's own locals, or nowhere.
LEMMA StatementKeeps ==
    ASSUME Machine, CanRun,
           runs' = WithRun(Counted), UNCHANGED <<xfunction, stack, saved>>,
           DOMAIN locals' = Functions,
           locals'[xfunction] \in [Cells(xfunction) -> Values],
           \A g \in Functions \ {xfunction} : locals'[g] = locals[g]
    PROVE  Machine'
<1> DEFINE n == Len(stack)
           rs == WithRun(Counted)
<1>1. /\ FitRuns(rs, n, Base) /\ runs' = rs
      /\ xfunction' = xfunction /\ stack' = stack /\ saved' = saved
  BY CountedFits
<1>2. /\ Oldest = Base + 1 /\ Base \in Nat /\ n \in Nat
      /\ n \in Live /\ xfunction \in Functions
  BY OldestBase DEF CanRun
<1> HIDE DEF rs
<1>3. Oldest' = Oldest /\ Live' = Live
  <2>1. Oldest' = Base + 1
    BY <1>1 DEF FitRuns, Oldest, Running
  <2> QED BY <1>1, <1>2, <2>1 DEF Live
<1>4. \A i : FunOf(i)' = FunOf(i) /\ HeightOf(i)' = HeightOf(i)
  BY <1>1 DEF FunOf, HeightOf
<1>5. MachineTypes'
  <2>1. \A g \in Functions : locals'[g] \in [Cells(g) -> Values]
    BY <1>2 DEF Machine, MachineTypes
  <2> QED BY <1>1, <2>1 DEF Machine, MachineTypes, FitRuns, Cells
<1>6. Balanced'
  <2>1. /\ \A i, j \in 1..Len(rs) : i < j => rs[i].exit < rs[j].exit
        /\ \A i \in 1..Len(rs) : rs[i].exit < n
    BY <1>1 DEF FitRuns
  <2> QED BY <1>1, <1>3, <1>4, <2>1 DEF Machine, Balanced
<1>7. Kept'
  <2>1. ASSUME NEW i \in Oldest + 1..n, \A j \in i..n : FunOf(j) # stack[i].fun
        PROVE  locals'[stack[i].fun] = stack[i].kept
    <3>1. n \in i..n /\ FunOf(n) = xfunction
      BY <1>2 DEF FunOf
    <3>2. stack[i].fun # xfunction
      BY <2>1, <3>1
    <3>3. i - 1 \in Live /\ i - 1 # n /\ i - 1 + 1 = i
      BY <1>2 DEF Live
    <3>4. stack[i].fun \in Functions
      BY <3>3, Heights DEF FunOf
    <3>5. locals[stack[i].fun] = stack[i].kept
      BY <2>1 DEF Machine, Kept
    <3> QED BY <3>2, <3>4, <3>5
  <2>2. \A i \in Oldest + 1..n :
            /\ stack[i].kept \in [Cells(stack[i].fun) -> Values]
            /\ \A j \in i..n :
                  (FunOf(j) = stack[i].fun /\ \A k \in i..j - 1 : FunOf(k) # stack[i].fun)
                    => \A c \in Cells(stack[i].fun) :
                          saved[stack[j].used + c] = stack[i].kept[c]
    BY DEF Machine, Kept
  <2> QED BY <1>1, <1>3, <1>4, <2>1, <2>2 DEF Kept, Cells
<1> QED BY <1>5, <1>6, <1>7 DEF Machine

\* PR_LeaveFunction, neither stack being short.
Leaves ==
    /\ locals' = Restored
    /\ saved' = SubSeq(saved, 1, Len(saved) - Locals[xfunction])
    /\ xfunction' = stack[Len(stack)].fun
    /\ stack' = SubSeq(stack, 1, Len(stack) - 1)
    /\ runs' = IF Len(stack) - 1 = Run.exit THEN SubSeq(runs, 1, Len(runs) - 1)
                                            ELSE WithRun(Counted)

\* What is left of the stacks when the last entry goes.
LEMMA LeaveParts ==
    ASSUME Machine, CanRun, Leaves
    PROVE  /\ stack' \in Seq(Entries) /\ Len(stack') = Len(stack) - 1
           /\ \A i \in 1..Len(stack) - 1 : stack'[i] = stack[i]
           /\ Len(saved) - Locals[xfunction] = stack[Len(stack)].used
           /\ saved' \in Seq(Values) /\ Len(saved') = stack[Len(stack)].used
           /\ \A i \in 1..stack[Len(stack)].used : saved'[i] = saved[i]
           /\ xfunction' = stack[Len(stack)].fun
           /\ DOMAIN locals' = Functions
           /\ locals'[xfunction] =
                 [c \in Cells(xfunction) |-> saved[stack[Len(stack)].used + c]]
           /\ locals'[xfunction] \in [Cells(xfunction) -> Values]
           /\ \A g \in Functions \ {xfunction} : locals'[g] = locals[g]
<1> DEFINE n == Len(stack)
           u == stack[n].used
<1>1. /\ n \in Live /\ xfunction \in Functions
      /\ stack \in Seq(Entries) /\ saved \in Seq(Values)
      /\ n \in Nat \ {0} /\ Len(saved) \in Nat
  BY OldestBase, RunsFit DEF CanRun, Machine, MachineTypes
<1>2. /\ u \in Nat /\ Locals[xfunction] \in Nat
      /\ Len(saved) = u + Locals[xfunction]
  <2>1. FunOf(n) = xfunction /\ HeightOf(n) = Len(saved)
    BY DEF FunOf, HeightOf
  <2> QED BY <1>1, <2>1, Heights
<1>3. Len(saved) - Locals[xfunction] = u /\ u <= Len(saved)
  BY <1>1, <1>2
<1>4. /\ \A i \in 1..n : stack[i] \in Entries
      /\ \A i \in 1..Len(saved) : saved[i] \in Values
  BY <1>1, ElementOfSeq
<1>5. /\ stack' \in Seq(Entries) /\ Len(stack') = n - 1
      /\ \A i \in 1..n - 1 : stack'[i] = stack[i]
  <2>1. n - 1 \in Nat /\ stack' = SubSeq(stack, 1, n - 1)
        /\ \A i \in 1..n - 1 : stack[i] \in Entries
    BY <1>1, <1>4 DEF Leaves
  <2>2. /\ SubSeq(stack, 1, n - 1) \in Seq(Entries)
        /\ Len(SubSeq(stack, 1, n - 1)) = IF 1 <= n - 1 THEN n - 1 - 1 + 1 ELSE 0
        /\ \A i \in 1..n - 1 - 1 + 1 : SubSeq(stack, 1, n - 1)[i] = stack[1 + i - 1]
    BY <2>1, SubSeqProperties
  <2>3. n - 1 - 1 + 1 = n - 1 /\ \A i \in 1..n - 1 : 1 + i - 1 = i
    BY <1>1
  <2>4. \A i \in 1..n - 1 : SubSeq(stack, 1, n - 1)[i] = stack[i]
    BY <2>2, <2>3
  <2> QED BY SMTT(30), <2>1, <2>2, <2>4
<1>6. /\ saved' \in Seq(Values) /\ Len(saved') = u
      /\ \A i \in 1..u : saved'[i] = saved[i]
  <2>1. saved' = SubSeq(saved, 1, u) /\ \A i \in 1..u : saved[i] \in Values
    BY <1>1, <1>2, <1>3, <1>4 DEF Leaves
  <2>2. /\ SubSeq(saved, 1, u) \in Seq(Values)
        /\ Len(SubSeq(saved, 1, u)) = IF 1 <= u THEN u - 1 + 1 ELSE 0
        /\ \A i \in 1..u - 1 + 1 : SubSeq(saved, 1, u)[i] = saved[1 + i - 1]
    BY <1>2, <2>1, SubSeqProperties
  <2>3. u - 1 + 1 = u /\ \A i \in 1..u : 1 + i - 1 = i
    BY <1>2
  <2>4. \A i \in 1..u : SubSeq(saved, 1, u)[i] = saved[i]
    BY <2>2, <2>3
  <2> QED BY <1>2, <2>1, <2>2, <2>4
<1>7. /\ DOMAIN locals' = Functions
      /\ locals'[xfunction] = [c \in Cells(xfunction) |-> saved[u + c]]
      /\ \A g \in Functions \ {xfunction} : locals'[g] = locals[g]
  <2>1. [c \in Cells(xfunction) |-> saved[Len(saved) - Locals[xfunction] + c]]
          = [c \in Cells(xfunction) |-> saved[u + c]]
    BY <1>3
  <2> QED BY <1>1, <2>1 DEF Leaves, Restored, Machine, MachineTypes
<1>8. \A c \in Cells(xfunction) : saved[u + c] \in Values
  <2> SUFFICES ASSUME NEW c \in Cells(xfunction) PROVE u + c \in 1..Len(saved)
    BY <1>4
  <2> QED BY <1>2 DEF Cells
<1>9. locals'[xfunction] \in [Cells(xfunction) -> Values]
  BY <1>7, <1>8
<1> QED BY <1>3, <1>5, <1>6, <1>7, <1>9 DEF Leaves

\* The runs that go on after a return.
LEMMA LeaveFits ==
    ASSUME Machine, CanRun, Leaves, runs' # <<>>
    PROVE  FitRuns(runs', Len(stack) - 1, Base) /\ Base < Len(stack) - 1
<1> DEFINE n == Len(stack)
           m == Len(runs)
<1>1. /\ FitRuns(runs, n, Base) /\ m \in Nat \ {0} /\ Run \in Runs
      /\ Base \in Nat /\ Base <= Run.exit /\ Run.exit < n /\ n \in Nat \ {0}
  BY RunsFit DEF CanRun
<1>2. \A i \in 1..m : runs[i] \in Runs
  BY <1>1, ElementOfSeq DEF FitRuns
<1>3. Run.exit \in Nat /\ \A i \in 1..m : runs[i].exit \in Nat
  BY <1>1, <1>2 DEF Runs
<1>4. /\ \A i, j \in 1..m : i < j => runs[i].exit < runs[j].exit
      /\ runs[1].exit = Base
  BY <1>1 DEF FitRuns
<1>5. CASE n - 1 = Run.exit
  <2>1. runs' = SubSeq(runs, 1, m - 1)
    BY <1>5 DEF Leaves
  <2>2. m - 1 \in Nat /\ \A i \in 1..m - 1 : runs[i] \in Runs
    BY <1>1, <1>2
  <2>3. /\ SubSeq(runs, 1, m - 1) \in Seq(Runs)
        /\ Len(SubSeq(runs, 1, m - 1)) = IF 1 <= m - 1 THEN m - 1 - 1 + 1 ELSE 0
        /\ \A i \in 1..m - 1 - 1 + 1 : SubSeq(runs, 1, m - 1)[i] = runs[1 + i - 1]
    BY <2>2, SubSeqProperties
  <2>4. Len(runs') = m - 1
    BY <2>1, <2>2, <2>3
  <2>5. \A i \in 1..m - 1 : runs'[i] = runs[i]
    <3>1. m - 1 - 1 + 1 = m - 1 /\ \A i \in 1..m - 1 : 1 + i - 1 = i
      BY <2>2
    <3> QED BY <2>1, <2>3, <3>1
  <2>6. runs' \in Seq(Runs) /\ m - 1 >= 1
    BY <2>1, <2>2, <2>3, <2>4, EmptySeq
  <2>7. \A i, j \in 1..m - 1 : i < j => runs'[i].exit < runs'[j].exit
    BY <1>1, <1>4, <2>5
  <2>8. \A i \in 1..m - 1 : runs'[i].exit < n - 1
    <3> SUFFICES ASSUME NEW i \in 1..m - 1 PROVE runs'[i].exit < n - 1
      OBVIOUS
    <3>1. i \in 1..m /\ m \in 1..m /\ i < m
      BY <1>1
    <3>2. runs[i].exit < runs[m].exit
      BY <1>4, <3>1
    <3> QED BY <1>5, <2>5, <3>2 DEF Run
  <2>9. runs'[1].exit = Base
    BY <1>4, <2>5, <2>6, <2>2
  <2>10. Base < n - 1
    BY <2>2, <2>6, <2>8, <2>9
  <2> QED BY <2>4, <2>6, <2>7, <2>8, <2>9, <2>10 DEF FitRuns
<1>6. CASE n - 1 # Run.exit
  <2> DEFINE rs == WithRun(Counted)
  <2>1. runs' = rs /\ FitRuns(rs, n, Base)
    BY <1>6, CountedFits DEF Leaves
  <2>2. Run.exit < n - 1
    BY <1>1, <1>3, <1>6
  <2>3. rs \in Seq(Runs) /\ rs = [runs EXCEPT ![m] = Counted] /\ m \in 1..m
    BY <1>1, <2>1 DEF FitRuns, WithRun
  <2>4. Counted \in Runs /\ Counted.exit = Run.exit
    BY <1>1 DEF Counted, Runs, CanRun
  <2>5. Len(rs) = m /\ \A i \in 1..m : rs[i] = IF i = m THEN Counted ELSE runs[i]
    BY <1>1, <2>3, <2>4, ExceptSeq DEF FitRuns
  <2> HIDE DEF rs
  <2>6. \A i \in 1..m : rs[i].exit < n - 1
    <3> SUFFICES ASSUME NEW i \in 1..m PROVE rs[i].exit < n - 1
      OBVIOUS
    <3>1. CASE i = m
      BY <2>2, <2>4, <2>5, <3>1
    <3>2. CASE i # m
      <4>1. i < m /\ m \in 1..m
        BY <1>1, <3>2
      <4>2. runs[i].exit < runs[m].exit
        BY <1>4, <4>1
      <4> QED BY <1>1, <1>3, <2>2, <2>5, <3>2, <4>2 DEF Run
    <3> QED BY <3>1, <3>2
  <2>7. Base < n - 1
    BY <1>1, <1>3, <2>2
  <2> QED BY <2>1, <2>5, <2>6, <2>7 DEF FitRuns
<1> QED BY <1>5, <1>6

\* What a return puts into the locals of a function whose entry i is live: the
\* call that returns was either the first of that function since, and has saved
\* them, or they are in place, or an older call has saved them.
LEMMA LeaveRestores ==
    ASSUME Machine, CanRun, Leaves, NEW i \in Oldest + 1..Len(stack),
           \A j \in i..Len(stack) - 1 : FunOf(j) # stack[i].fun
    PROVE  locals'[stack[i].fun] = stack[i].kept
<1> DEFINE n == Len(stack)
           g == stack[i].fun
<1>1. /\ Base \in Nat /\ n \in Nat /\ Oldest = Base + 1
  BY OldestBase
<1>2. n \in i..n /\ FunOf(n) = xfunction /\ \A j \in i..n : j = n \/ j \in i..n - 1
  BY <1>1 DEF FunOf
<1>3. /\ stack[i].kept \in [Cells(g) -> Values]
      /\ \A j \in i..n :
             (FunOf(j) = g /\ \A k \in i..j - 1 : FunOf(k) # g) =>
                \A c \in Cells(g) : saved[stack[j].used + c] = stack[i].kept[c]
      /\ (\A j \in i..n : FunOf(j) # g) => locals[g] = stack[i].kept
  BY DEF Machine, Kept
<1>4. g \in Functions
  <2>1. i - 1 \in Live /\ i - 1 # n /\ i - 1 + 1 = i
    BY <1>1 DEF Live
  <2> QED BY <2>1, Heights DEF FunOf
<1>5. CASE g = xfunction
  <2>1. \A c \in Cells(g) : saved[stack[n].used + c] = stack[i].kept[c]
    BY <1>2, <1>3, <1>5
  <2>2. locals'[g] = [c \in Cells(g) |-> saved[stack[n].used + c]]
    BY <1>5, LeaveParts
  <2> QED BY <1>3, <2>1, <2>2
<1>6. CASE g # xfunction
  <2>1. locals[g] = stack[i].kept
    BY <1>2, <1>3, <1>6
  <2> QED BY <1>4, <1>6, <2>1, LeaveParts
<1> QED BY <1>5, <1>6

\* A cell of a part of the saved locals lies in what is above it.
LEMMA InPart ==
    ASSUME NEW start \in Nat, NEW size \in Nat, NEW top \in Nat, start + size <= top,
           NEW c \in 1..size
    PROVE  start + c \in 1..top
OBVIOUS

\* A return leaves what is below it as it was.
LEMMA LeaveKeeps ==
    ASSUME Machine, CanRun, Leaves
    PROVE  Machine'
<1> DEFINE n == Len(stack)
           u == stack[n].used
<1>1. /\ stack' \in Seq(Entries) /\ Len(stack') = n - 1
      /\ \A i \in 1..n - 1 : stack'[i] = stack[i]
      /\ saved' \in Seq(Values) /\ Len(saved') = u
      /\ \A i \in 1..u : saved'[i] = saved[i]
      /\ xfunction' = stack[n].fun
      /\ DOMAIN locals' = Functions
      /\ locals'[xfunction] \in [Cells(xfunction) -> Values]
      /\ \A g \in Functions \ {xfunction} : locals'[g] = locals[g]
  BY LeaveParts
<1>2. /\ Oldest = Base + 1 /\ Base \in Nat /\ n \in Nat \ {0} /\ n \in Live
      /\ stack \in Seq(Entries) /\ Len(stack) < MaxDepth
      /\ Len(saved) <= LocalStackSize /\ Len(saved) \in Nat /\ runs \in Seq(Runs)
      /\ xfunction \in Functions
  BY OldestBase, RunsFit DEF CanRun, Machine, MachineTypes
<1>3. u \in Nat /\ u <= Len(saved) /\ stack[n] \in Entries
  <2>1. HeightOf(n) = Len(saved)
    BY DEF HeightOf
  <2> QED BY <1>2, <2>1, Heights
<1>4. runs' \in Seq(Runs)
  <2>1. CASE runs' = <<>>
    BY <2>1, EmptySeq
  <2>2. CASE runs' # <<>>
    BY <2>2, LeaveFits DEF FitRuns
  <2> QED BY <2>1, <2>2
<1>5. MachineTypes'
  <2>1. \A g \in Functions : locals'[g] \in [Cells(g) -> Values]
    BY <1>1 DEF Machine, MachineTypes
  <2>2. xfunction' \in Functions \cup {NULL}
    BY <1>1, <1>3 DEF Entries
  <2>3. n - 1 < MaxDepth /\ u <= LocalStackSize
    BY <1>2, <1>3, SizeAssumption
  <2> QED BY <1>1, <1>4, <2>1, <2>2, <2>3 DEF MachineTypes, Cells
<1>6. CASE runs' = <<>>
  <2>1. ~Running' /\ Oldest' = n
    BY <1>1, <1>2, <1>6 DEF Running, Oldest
  <2>2. Live' = {} /\ (Oldest + 1..Len(stack))' = {}
    BY <1>1, <1>2, <2>1 DEF Live
  <2>3. Len(runs') = 0
    BY <1>6, EmptySeq
  <2>4. Balanced'
    BY <1>6, <2>2, <2>3 DEF Balanced
  <2>5. Kept'
    BY <2>2 DEF Kept
  <2> QED BY <1>5, <2>4, <2>5 DEF Machine
<1>7. CASE runs' # <<>>
  <2>1. FitRuns(runs', n - 1, Base) /\ Base < n - 1
    BY <1>7, LeaveFits
  <2>2. Oldest' = Base + 1 /\ Live' = Base + 1..n - 1
    <3>1. Oldest' = Base + 1
      BY <1>7, <2>1 DEF FitRuns, Oldest, Running
    <3> QED BY <1>1, <3>1 DEF Live
  <2>3. \A i \in Base + 1..n - 1 : i \in Live /\ i \in 1..n - 1 /\ i # n
    BY <1>2 DEF Live
  <2>4. ASSUME NEW i \in Base + 1..n - 1
        PROVE  FunOf(i)' = FunOf(i) /\ HeightOf(i)' = HeightOf(i)
    <3>1. FunOf(i) = stack[i + 1].fun /\ HeightOf(i) = stack[i + 1].used
      BY <2>3 DEF FunOf, HeightOf
    <3>2. CASE i = n - 1
      <4>1. i + 1 = n /\ i = Len(stack')
        BY <1>1, <1>2, <3>2
      <4> QED BY <1>1, <3>1, <4>1 DEF FunOf, HeightOf
    <3>3. CASE i # n - 1
      <4>1. i + 1 \in 1..n - 1 /\ i # Len(stack')
        BY <1>1, <1>2, <3>3
      <4> QED BY <1>1, <3>1, <4>1 DEF FunOf, HeightOf
    <3> QED BY <3>2, <3>3
  <2>5. Balanced'
    <3>1. \A i \in Base + 1..n - 1 :
              /\ FunOf(i)' \in Functions
              /\ HeightOf(i)' = stack'[i].used + Locals[FunOf(i)']
      BY <1>1, <2>3, <2>4, Heights
    <3>2. \A i, j \in Base + 1..n - 1 : i <= j => HeightOf(i)' <= HeightOf(j)'
      BY <2>3, <2>4 DEF Machine, Balanced
    <3> QED BY <1>1, <2>1, <2>2, <3>1, <3>2 DEF Balanced, FitRuns
  <2>6. Kept'
    <3>1. n - 1 \in Live /\ HeightOf(n - 1) = u
      BY <1>2, <2>1, <2>3 DEF HeightOf
    <3>2. ASSUME NEW i \in Base + 2..n - 1
          PROVE  /\ stack'[i].kept \in [Cells(stack'[i].fun) -> Values]
                 /\ \A j \in i..n - 1 :
                       (FunOf(j)' = stack'[i].fun
                            /\ \A k \in i..j - 1 : FunOf(k)' # stack'[i].fun) =>
                         \A c \in Cells(stack'[i].fun) :
                             saved'[stack'[j].used + c] = stack'[i].kept[c]
                 /\ (\A j \in i..n - 1 : FunOf(j)' # stack'[i].fun) =>
                       locals'[stack'[i].fun] = stack'[i].kept
      <4> DEFINE g == stack[i].fun
      <4>1. /\ stack'[i] = stack[i] /\ i \in Oldest + 1..n
            /\ \A j \in i..n - 1 : j \in Base + 1..n - 1 /\ j \in i..n
            /\ \A j \in i..n - 1 : \A k \in i..j - 1 : k \in i..n - 1
        BY <1>1, <1>2
      <4>2. /\ stack[i].kept \in [Cells(g) -> Values]
            /\ \A j \in i..n :
                   (FunOf(j) = g /\ \A k \in i..j - 1 : FunOf(k) # g) =>
                      \A c \in Cells(g) : saved[stack[j].used + c] = stack[i].kept[c]
        BY <4>1 DEF Machine, Kept
      <4>3. ASSUME NEW j \in i..n - 1, FunOf(j)' = g,
                   \A k \in i..j - 1 : FunOf(k)' # g, NEW c \in Cells(g)
            PROVE  saved'[stack'[j].used + c] = stack[i].kept[c]
        <5>1. FunOf(j) = g /\ \A k \in i..j - 1 : FunOf(k) # g
          BY <2>4, <4>1, <4>3
        <5>2. saved[stack[j].used + c] = stack[i].kept[c]
          BY <4>1, <4>2, <5>1
        <5>3. j \in Live /\ j \in 1..n - 1 /\ j <= n - 1
          BY <2>3, <4>1
        <5>4. /\ HeightOf(j) = stack[j].used + Locals[g] /\ HeightOf(j) <= u
              /\ stack[j].used \in Nat /\ Locals[g] \in Nat
          <6>1. HeightOf(j) <= HeightOf(n - 1)
            BY <3>1, <5>3 DEF Machine, Balanced
          <6> QED BY <3>1, <5>1, <5>3, <6>1, Heights
        <5>5. stack[j].used + c \in 1..u
          <6>1. stack[j].used + Locals[g] <= u
            BY <5>4
          <6>2. c \in 1..Locals[g]
            BY DEF Cells
          <6> QED BY <1>3, <5>4, <6>1, <6>2, InPart
        <5> QED BY <1>1, <5>2, <5>3, <5>5
      <4>4. ASSUME \A j \in i..n - 1 : FunOf(j)' # g
            PROVE  locals'[g] = stack[i].kept
        <5>1. \A j \in i..n - 1 : FunOf(j) # g
          BY <2>4, <4>1, <4>4
        <5> QED BY <4>1, <5>1, LeaveRestores
      <4> QED BY <4>1, <4>2, <4>3, <4>4
    <3>3. Oldest' + 1 = Base + 2 /\ Len(stack') = n - 1
      BY <1>1, <1>2, <2>2
    <3> QED BY SMTT(30), <3>2, <3>3 DEF Kept, Cells
  <2> QED BY <1>5, <2>5, <2>6 DEF Machine
<1> QED BY <1>6, <1>7

\* The last return to a program is the one CallerRestored is about.
LEMMA LeaveCaller ==
    ASSUME Machine, CanRun, Leaves, runs' # <<>>
    PROVE  LET caller == stack[Len(stack)]
           IN  /\ xfunction' = caller.fun
               /\ locals'[caller.fun] = caller.kept
               /\ Len(saved') = caller.used
<1> DEFINE n == Len(stack)
<1>1. Base < n - 1 /\ Oldest = Base + 1 /\ Base \in Nat /\ n \in Nat
  BY LeaveFits, OldestBase
<1>2. n \in Oldest + 1..n /\ n..n - 1 = {}
  BY <1>1
<1>3. locals'[stack[n].fun] = stack[n].kept
  BY <1>2, LeaveRestores
<1> QED BY <1>3, LeaveParts

-----------------------------------------------------------------------------
\* The operators the actions are made of.

\* A step that takes an entry away and leaves a program running.
Shrinks == Len(stack') < Len(stack) /\ runs' # <<>>

\* A step that leaves inerror FALSE.
Recovers == inerror /\ ~inerror'

LEMMA ErrorKeeps ==
    ASSUME Machine, Host, NEW depth \in 0..Len(stack), Host_Error(depth)
    PROVE  Machine' /\ Host' /\ ~Shrinks /\ ~Recovers
<1>1. Machine'
  BY ErrorStops
<1>2. /\ active' = FALSE /\ inerror' = (inerror \/ active) /\ dedicated' = dedicated
      /\ phase' = CASE inerror -> "exited"
                    [] ~inerror /\ active -> "shutdown"
                    [] OTHER -> Aborted
  BY DEF Host_Error
<1>3. inerror \in BOOLEAN /\ active \in BOOLEAN /\ dedicated \in BOOLEAN
  BY DEF Host
<1>4. Host' /\ ~Recovers
  <2>1. CASE inerror
    BY <1>2, <1>3, <2>1 DEF Host, ErrorsEnd, Recovers
  <2>2. CASE ~inerror /\ active
    BY <1>2, <1>3, <2>2 DEF Host, ErrorsEnd, Recovers
  <2>3. CASE ~inerror /\ ~active
    <3>1. phase' \in {"frame", "exited"}
      BY <1>2, <2>3 DEF Aborted
    <3> QED BY <1>2, <1>3, <2>3, <3>1 DEF Host, ErrorsEnd, Recovers
  <2> QED BY <1>3, <2>1, <2>2, <2>3
<1>5. ~Shrinks
  BY DEF Host_Error, Shrinks
<1> QED BY <1>1, <1>4, <1>5

LEMMA RunErrorKeeps ==
    ASSUME Machine, Host, PR_RunError
    PROVE  Machine' /\ Host' /\ ~Shrinks /\ ~Recovers
<1>1. 0 \in 0..Len(stack) /\ Host_Error(0)
  BY OldestBase DEF PR_RunError
<1> QED BY <1>1, ErrorKeeps

LEMMA HereErrorKeeps ==
    ASSUME Machine, Host, Host_Error(Len(stack))
    PROVE  Machine' /\ Host' /\ ~Shrinks /\ ~Recovers
<1>1. Len(stack) \in 0..Len(stack)
  BY OldestBase
<1> QED BY <1>1, ErrorKeeps

\* The host is where it was.
LEMMA HostKept ==
    ASSUME Host, UNCHANGED <<host, dedicated>>
    PROVE  Host' /\ ~Recovers
BY DEF Host, ErrorsEnd, host, Recovers

LEMMA EnterFunctionKeeps ==
    ASSUME Machine, Host, NEW f \in Functions, NEW args \in Arguments(f),
           NEW rs, FitRuns(rs, Len(stack) + 1, Base), PR_EnterFunction(f, args, rs)
    PROVE  Machine' /\ Host' /\ ~Shrinks /\ ~Recovers
<1>1. CASE Overflow(f)
  BY <1>1, RunErrorKeeps DEF PR_EnterFunction
<1>2. CASE ~Overflow(f)
  <2>1. Enters(f, args, rs) /\ UNCHANGED <<host, dedicated>>
    BY <1>2 DEF PR_EnterFunction, Enters
  <2>2. Len(stack') = Len(stack) + 1 /\ Len(stack) \in Nat
    BY <1>2, <2>1, EnterParts, OldestBase DEF Enters
  <2> QED BY <1>2, <2>1, <2>2, EnterKeeps, HostKept DEF Shrinks
<1> QED BY <1>1, <1>2

LEMMA ExecuteKeeps ==
    ASSUME Machine, Host, NEW f \in Called, NEW args \in Arguments(f),
           NEW slot \in Clients \cup {0}, NEW outer,
           \/ CanRun /\ outer = WithRun(Counted)
           \/ ~Running /\ outer = <<>>,
           PR_ExecuteProgram(f, args, outer, slot)
    PROVE  Machine' /\ Host' /\ ~Shrinks /\ ~Recovers
<1>1. CASE f = NULL
  BY <1>1, HereErrorKeeps DEF PR_ExecuteProgram
<1>2. CASE f # NULL
  <2>1. f \in Functions /\ PR_EnterFunction(f, args, Append(outer, NewRun(slot)))
    BY <1>2 DEF Called, PR_ExecuteProgram
  <2>2. FitRuns(Append(outer, NewRun(slot)), Len(stack) + 1, Base)
    BY NestedFits, FirstFits
  <2> QED BY <2>1, <2>2, EnterFunctionKeeps
<1> QED BY <1>1, <1>2

\* The machine does not move while the host does.
LEMMA SameHeight ==
    ASSUME UNCHANGED machine, Machine
    PROVE  ~Shrinks
<1>1. Len(stack') = Len(stack) /\ Len(stack) \in Nat
  BY LenProperties DEF machine, Machine, MachineTypes
<1> QED BY <1>1 DEF Shrinks

\* New programs are loaded over the locals while none runs; both stacks stay.
LEMMA LoadKeeps ==
    ASSUME Machine, ~Running, locals' = Loaded, UNCHANGED <<xfunction, stack, saved, runs>>
    PROVE  Machine'
<1>1. MachineTypes'
  BY ValueAssumption DEF Machine, MachineTypes, Loaded, Cells
<1>2. runs' = <<>> /\ Len(stack) \in Nat /\ Len(stack') = Len(stack)
  BY LenProperties DEF Running, Machine, MachineTypes
<1>3. Len(runs') = 0 /\ Oldest' = Len(stack) + 1
  BY <1>2, EmptySeq DEF Oldest, Running
<1>4. Live' = {} /\ (Oldest + 1..Len(stack))' = {}
  BY <1>2, <1>3 DEF Live
<1>5. Balanced' /\ Kept'
  BY <1>3, <1>4 DEF Balanced, Kept
<1> QED BY <1>1, <1>5 DEF Machine

\* A slot is freed.
LEMMA FreeKeeps ==
    ASSUME Machine, Host, Slots, NEW c \in clients, FreeSlot(c)
    PROVE  Machine' /\ Host' /\ Slots' /\ ~Shrinks /\ ~Recovers
<1>1. /\ clients' = clients \ {c} /\ spawned' = spawned \ {c}
      /\ UNCHANGED machine /\ UNCHANGED <<host, dedicated>>
  BY DEF FreeSlot
<1>2. Slots'
  BY <1>1 DEF Slots
<1> QED BY <1>1, <1>2, MachineKept, SameHeight, HostKept

\* A client is dropped, at once or after its program.
LEMMA DropKeeps ==
    ASSUME Machine, Host, Slots, ~Running, NEW c \in clients,
           NEW f \in Called, NEW args \in Arguments(f), SV_DropClient(c, f, args)
    PROVE  Machine' /\ Host' /\ Slots' /\ ~Shrinks /\ ~Recovers
<1>1. CASE c \in spawned
  <2>1. PR_ExecuteProgram(f, args, <<>>, c) /\ UNCHANGED slots
    BY <1>1 DEF SV_DropClient
  <2>2. c \in Clients \cup {0}
    BY DEF Slots
  <2> QED BY <2>1, <2>2, ExecuteKeeps DEF Slots, slots
<1>2. CASE c \notin spawned
  BY <1>2, FreeKeeps DEF SV_DropClient
<1> QED BY <1>1, <1>2

-----------------------------------------------------------------------------
\* The actions.  Each keeps the invariant; only a return takes an entry away, and
\* only the end of the shutdown ends an error.
LEMMA StatementStep ==
    ASSUME ProgramsInv, Statement
    PROVE  /\ ProgramsInv'
           /\ Shrinks => CanRun /\ Leaves
           /\ ~Recovers
<1>1. Machine /\ Host /\ Slots
  BY Halves
<1>2. ASSUME Machine', Host', UNCHANGED slots PROVE ProgramsInv'
  BY <1>1, <1>2, HalvesNext DEF slots, Slots
<1>3. CASE Runaway
  BY <1>1, <1>2, <1>3, RunErrorKeeps DEF Runaway
<1>4. CASE Compute
  <2>1. /\ CanRun /\ runs' = WithRun(Counted)
        /\ UNCHANGED <<locals, xfunction, stack, saved, host, slots, dedicated>>
    BY <1>4 DEF Compute
  <2>2. xfunction \in Functions
    BY <1>1, <2>1, OldestBase DEF CanRun
  <2>3. Machine'
    <3>1. /\ DOMAIN locals' = Functions
          /\ locals'[xfunction] \in [Cells(xfunction) -> Values]
          /\ \A g \in Functions \ {xfunction} : locals'[g] = locals[g]
      BY <1>1, <2>1, <2>2 DEF Machine, MachineTypes
    <3> QED BY <1>1, <2>1, <3>1, StatementKeeps
  <2>4. ~Shrinks
    BY <1>1, <2>1, OldestBase DEF Shrinks
  <2> QED BY <1>1, <1>2, <2>1, <2>3, <2>4, HostKept
<1>5. CASE BadStatement
  BY <1>1, <1>2, <1>5, RunErrorKeeps DEF BadStatement
<1>6. CASE PF_error
  BY <1>1, <1>2, <1>6, HereErrorKeeps DEF PF_error
<1>7. CASE Return
  <2>1. CanRun /\ PR_LeaveFunction /\ Running
    BY <1>7 DEF Return, CanRun
  <2>2. stack # <<>> /\ ~(Len(saved) < Locals[xfunction])
    <3>1. Len(stack) \in Live /\ Len(stack) \in Nat \ {0} /\ Len(saved) \in Nat
      BY <1>1, <2>1, OldestBase, RunsFit
    <3>2. FunOf(Len(stack)) = xfunction /\ HeightOf(Len(stack)) = Len(saved)
      BY DEF FunOf, HeightOf
    <3>3. /\ Len(saved) = stack[Len(stack)].used + Locals[xfunction]
          /\ stack[Len(stack)].used \in Nat /\ Locals[xfunction] \in Nat
      BY <1>1, <3>1, <3>2, Heights
    <3> QED BY <3>1, <3>3, EmptySeq
  <2>3. /\ Leaves /\ UNCHANGED <<host, dedicated>>
        /\ \E freed : clients' = clients \ freed /\ spawned' = spawned \ freed
    BY <2>1, <2>2 DEF PR_LeaveFunction, Leaves
  <2>4. Machine' /\ Host' /\ ~Recovers
    BY <1>1, <2>1, <2>3, LeaveKeeps, HostKept
  <2>5. Slots'
    BY <1>1, <2>3 DEF Slots
  <2> QED BY <2>1, <2>3, <2>4, <2>5, HalvesNext
<1>8. CASE \E v \in Values : Assign(v)
  <2>1. PICK v \in Values : Assign(v)
    BY <1>8
  <2>2. PICK i \in Cells(xfunction) :
            locals' = [locals EXCEPT ![xfunction] = [@ EXCEPT ![i] = v]]
    BY <2>1 DEF Assign
  <2>3. /\ CanRun /\ runs' = WithRun(Counted)
        /\ UNCHANGED <<xfunction, stack, saved, host, slots, dedicated>>
    BY <2>1 DEF Assign
  <2>4. xfunction \in Functions
    BY <1>1, <2>3, OldestBase DEF CanRun
  <2>5. Machine'
    <3>1. /\ DOMAIN locals = Functions
          /\ locals[xfunction] \in [Cells(xfunction) -> Values]
      BY <1>1, <2>4 DEF Machine, MachineTypes
    <3>2. /\ DOMAIN locals' = Functions
          /\ locals'[xfunction] = [locals[xfunction] EXCEPT ![i] = v]
          /\ \A g \in Functions \ {xfunction} : locals'[g] = locals[g]
      BY <2>2, <2>4, <3>1
    <3>3. locals'[xfunction] \in [Cells(xfunction) -> Values]
      BY <3>1, <3>2
    <3> QED BY <1>1, <2>3, <3>2, <3>3, StatementKeeps
  <2>6. ~Shrinks
    BY <1>1, <2>3, OldestBase DEF Shrinks
  <2> QED BY <1>1, <1>2, <2>3, <2>5, <2>6, HostKept
<1>9. CASE \E f \in Functions : \E args \in Arguments(f) : Call(f, args)
  <2>0. PICK f \in Functions : \E args \in Arguments(f) : Call(f, args)
    BY <1>9
  <2>1. PICK args \in Arguments(f) : Call(f, args)
    BY <2>0
  <2>2. /\ CanRun /\ PR_EnterFunction(f, args, WithRun(Counted))
        /\ UNCHANGED slots
    BY <2>1 DEF Call
  <2>3. FitRuns(WithRun(Counted), Len(stack) + 1, Base)
    BY <1>1, <2>2, CountedFits, OldestBase, FitsDeeper
  <2> QED BY <1>1, <1>2, <2>2, <2>3, EnterFunctionKeeps
<1>10. CASE \E f \in Called : \E args \in Arguments(f) : Touch(f, args)
  <2>0. PICK f \in Called : \E args \in Arguments(f) : Touch(f, args)
    BY <1>10
  <2>1. PICK args \in Arguments(f) : Touch(f, args)
    BY <2>0
  <2>2. /\ CanRun /\ PR_ExecuteProgram(f, args, WithRun(Counted), 0)
        /\ UNCHANGED slots
    BY <2>1 DEF Touch
  <2> QED BY <1>1, <1>2, <2>2, ExecuteKeeps
<1> QED BY <1>3, <1>4, <1>5, <1>6, <1>7, <1>8, <1>9, <1>10 DEF Statement

\* Host_ShutdownServer drops the clients; when the last is gone an error ends.
LEMMA ShutdownStep ==
    ASSUME ProgramsInv, Shutdown
    PROVE  /\ ProgramsInv'
           /\ ~Shrinks
           /\ Recovers => ~active' /\ clients' = {}
<1>1. Machine /\ Host /\ Slots
  BY Halves
<1>2. CASE \E f \in Called : \E args \in Arguments(f) : ShutdownDrop(f, args)
  <2>1. PICK f \in Called : \E args \in Arguments(f) : ShutdownDrop(f, args)
    BY <1>2
  <2>2. PICK args \in Arguments(f) : ShutdownDrop(f, args)
    BY <2>1
  <2>3. PICK c \in clients : SV_DropClient(c, f, args)
    BY <2>2 DEF ShutdownDrop
  <2>4. ~Running
    BY <2>2 DEF ShutdownDrop, InHost
  <2> QED BY <1>1, <2>3, <2>4, DropKeeps, HalvesNext
<1>3. CASE ShutdownEnds
  <2>1. /\ clients = {} /\ inerror' = FALSE
        /\ phase' = IF inerror THEN Aborted ELSE "frame"
        /\ UNCHANGED <<machine, active, slots, dedicated>>
    BY <1>3 DEF ShutdownEnds
  <2>2. phase' \in {"frame", "exited"}
    BY <2>1 DEF Aborted
  <2>3. Host' /\ Slots'
    BY <1>1, <2>1, <2>2 DEF Host, ErrorsEnd, Slots, slots
  <2>4. inerror => ~active' /\ clients' = {}
    BY <1>1, <2>1 DEF Host, ErrorsEnd, slots
  <2> QED BY <1>1, <2>1, <2>3, <2>4, MachineKept, SameHeight, HalvesNext DEF Recovers
<1> QED BY <1>2, <1>3 DEF Shutdown

\* What the host does in a frame; it runs programs only when none is running.
LEMMA FrameStep ==
    ASSUME ProgramsInv, Frame
    PROVE  ProgramsInv' /\ ~Shrinks /\ ~Recovers
<1>1. Machine /\ Host /\ Slots
  BY Halves
<1>2. CASE HostFails
  BY <1>1, <1>2, HereErrorKeeps, HalvesNext DEF HostFails, Slots, slots
<1>3. CASE SV_SpawnServer
  <2>1. /\ InHost("frame") /\ phase' \in {"frame", "loading"}
        /\ active' = FALSE /\ locals' = Loaded
        /\ UNCHANGED <<xfunction, stack, saved, runs, inerror, slots, dedicated>>
    BY <1>3 DEF SV_SpawnServer
  <2>2. Machine'
    BY <1>1, <2>1, LoadKeeps DEF InHost
  <2>3. Host' /\ Slots' /\ ~Recovers
    BY <1>1, <2>1 DEF Host, ErrorsEnd, Slots, slots, Recovers, InHost
  <2>4. ~Shrinks
    BY <2>1 DEF Shrinks, InHost, Running
  <2> QED BY <2>2, <2>3, <2>4, HalvesNext
<1>4. CASE Settle
  BY <1>1, <1>4, MachineKept, SameHeight, HalvesNext
     DEF Settle, InHost, Host, ErrorsEnd, Slots, slots, Recovers
<1>5. CASE LevelSpawned
  BY <1>1, <1>5, MachineKept, SameHeight, HalvesNext
     DEF LevelSpawned, InHost, Host, ErrorsEnd, Slots, Recovers
<1>6. CASE Host_ShutdownServer
  BY <1>1, <1>6, MachineKept, SameHeight, HalvesNext
     DEF Host_ShutdownServer, InHost, Host, ErrorsEnd, Slots, slots, Recovers
<1>7. CASE \E c \in Clients : Host_Begin(c)
  <2>1. PICK c \in Clients : Host_Begin(c)
    BY <1>7
  <2>2. /\ c \in clients /\ spawned' = spawned \cup {c}
        /\ UNCHANGED <<machine, host, clients, dedicated>>
    BY <2>1 DEF Host_Begin
  <2>3. Slots'
    BY <1>1, <2>2 DEF Slots
  <2> QED BY <1>1, <2>2, <2>3, MachineKept, SameHeight, HostKept, HalvesNext
<1>8. CASE \E f \in Called : \E args \in Arguments(f) :
              \/ RunProgram(f, args)
              \/ \E c \in Clients : SV_ConnectClient(c, f, args) \/ Drop(c, f, args)
  <2>1. PICK f \in Called : \E args \in Arguments(f) :
              \/ RunProgram(f, args)
              \/ \E c \in Clients : SV_ConnectClient(c, f, args) \/ Drop(c, f, args)
    BY <1>8
  <2>2. PICK args \in Arguments(f) :
              \/ RunProgram(f, args)
              \/ \E c \in Clients : SV_ConnectClient(c, f, args) \/ Drop(c, f, args)
    BY <2>1
  <2>3. CASE RunProgram(f, args)
    <3>1. /\ ~Running /\ PR_ExecuteProgram(f, args, <<>>, 0) /\ UNCHANGED slots
      BY <2>3 DEF RunProgram, InHost
    <3> QED BY <1>1, <3>1, ExecuteKeeps, HalvesNext DEF Slots, slots
  <2>4. CASE \E c \in Clients : SV_ConnectClient(c, f, args)
    <3>1. PICK c \in Clients : SV_ConnectClient(c, f, args)
      BY <2>4
    <3>2. /\ ~Running /\ PR_ExecuteProgram(f, args, <<>>, 0)
          /\ clients' = clients \cup {c} /\ spawned' = spawned
      BY <3>1 DEF SV_ConnectClient, InHost
    <3>3. Slots'
      BY <1>1, <3>2 DEF Slots
    <3> QED BY <1>1, <3>2, <3>3, ExecuteKeeps, HalvesNext
  <2>5. CASE \E c \in Clients : Drop(c, f, args)
    <3>1. PICK c \in Clients : Drop(c, f, args)
      BY <2>5
    <3>2. ~Running /\ c \in clients /\ (SV_DropClient(c, f, args) \/ FreeSlot(c))
      BY <3>1 DEF Drop, InHost
    <3>3. CASE SV_DropClient(c, f, args)
      BY <1>1, <3>2, <3>3, DropKeeps, HalvesNext
    <3>4. CASE FreeSlot(c)
      BY <1>1, <3>2, <3>4, FreeKeeps, HalvesNext
    <3> QED BY <3>2, <3>3, <3>4
  <2> QED BY <2>2, <2>3, <2>4, <2>5
<1> QED BY <1>2, <1>3, <1>4, <1>5, <1>6, <1>7, <1>8 DEF Frame

\* Any step keeps the invariant, gives the caller its locals when an entry goes,
\* and leaves an error only with the server down and the slots empty.
LEMMA NextStep ==
    ASSUME ProgramsInv, Next
    PROVE  /\ ProgramsInv'
           /\ Shrinks => CanRun /\ Leaves
           /\ Recovers => ~active' /\ clients' = {}
BY StatementStep, ShutdownStep, FrameStep DEF Next

\* A step that changes nothing.
LEMMA StutterKeeps ==
    ASSUME ProgramsInv, UNCHANGED vars
    PROVE  ProgramsInv' /\ ~Shrinks /\ ~Recovers
<1>1. Machine /\ Host /\ Slots
  BY Halves
<1>2. UNCHANGED machine /\ UNCHANGED <<host, dedicated>> /\ UNCHANGED slots
  BY DEF vars
<1>3. Slots'
  BY <1>1, <1>2 DEF Slots, slots
<1> QED BY <1>1, <1>2, <1>3, MachineKept, SameHeight, HostKept, HalvesNext

\* The state after start-up: nothing runs and nothing is saved.
LEMMA InitKeeps == Init => ProgramsInv
<1> SUFFICES ASSUME Init PROVE ProgramsInv
  OBVIOUS
<1>1. <<>> \in Seq(Entries) /\ <<>> \in Seq(Values) /\ <<>> \in Seq(Runs) /\ Len(<<>>) = 0
  BY EmptySeq
<1>2. MachineTypes
  BY <1>1, SizeAssumption, ValueAssumption DEF Init, MachineTypes, Loaded
<1>3. Len(stack) = 0 /\ Len(runs) = 0 /\ Oldest = 1
  BY <1>1 DEF Init, Oldest, Running
<1>4. Live = {} /\ Oldest + 1..Len(stack) = {}
  BY <1>3 DEF Live
<1>5. Balanced /\ Kept
  BY <1>3, <1>4 DEF Balanced, Kept
<1>6. Host /\ Slots
  BY DEF Init, Host, ErrorsEnd, Slots
<1> QED BY <1>2, <1>5, <1>6, Halves DEF Machine

-----------------------------------------------------------------------------
\* The machine and the host are in order in every reachable state: the stacks are
\* balanced, the callers' locals are kept, and an error is being dealt with only
\* while the server is shut down.
THEOREM ProgramsInOrder == Spec => []ProgramsInv
<1>1. Init => ProgramsInv
  BY InitKeeps
<1>2. ProgramsInv /\ [Next]_vars => ProgramsInv'
  BY NextStep, StutterKeeps
<1> QED BY <1>1, <1>2, PTL DEF Spec

\* A return leaves the caller's locals and the stack of saved locals as they were
\* at the call, for all programs, all depths and any errors before.
THEOREM CallersGetTheirLocals == Spec => CallerRestored
<1>1. ProgramsInv /\ [Next]_vars =>
        [Len(stack') < Len(stack) /\ runs' # <<>> =>
            LET caller == stack[Len(stack)]
            IN  /\ xfunction' = caller.fun
                /\ locals'[caller.fun] = caller.kept
                /\ Len(saved') = caller.used]_vars
  <2> SUFFICES ASSUME ProgramsInv, Next, Shrinks
               PROVE  LET caller == stack[Len(stack)]
                      IN  /\ xfunction' = caller.fun
                          /\ locals'[caller.fun] = caller.kept
                          /\ Len(saved') = caller.used
    BY DEF Shrinks
  <2>1. Machine /\ CanRun /\ Leaves /\ runs' # <<>>
    BY Halves, NextStep DEF Shrinks
  <2> QED BY <2>1, LeaveCaller
<1> QED BY <1>1, ProgramsInOrder, PTL DEF Spec, CallerRestored

\* When an error has been dealt with, the server is down and the slots are empty.
THEOREM ErrorsShutDown == Spec => ErrorShutsDown
<1>1. ProgramsInv /\ [Next]_vars =>
        [inerror /\ ~inerror' => ~active' /\ clients' = {}]_vars
  BY NextStep DEF Recovers
<1> QED BY <1>1, ProgramsInOrder, PTL DEF Spec, ErrorShutsDown
=============================================================================
