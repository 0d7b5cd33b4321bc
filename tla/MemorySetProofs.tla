-------------------------- MODULE MemorySetProofs ---------------------------
(***************************************************************************)
(* The second half of the proofs of MemorySet: new threads, exec, fork and *)
(* the first process keep the inductive invariant Inv, which implies the   *)
(* invariants of the component.                                            *)
(***************************************************************************)
EXTENDS MemorySetLemmas

\* Most leaves are first-order: Zenon has a short try before the SMT solver.
USE ZenonT(6), SMTT(20), ZenonT(40)

-----------------------------------------------------------------------------
(* New threads and processes. *)

\* A part of what fits.
LEMMA FitsPart ==
  ASSUME NEW m, Sound(m), NEW B \in SUBSET Slot, NEW S \in SUBSET B, Fits(m, B)
  PROVE  Fits(m, S)
<1>1. /\ Count(B) \in Nat /\ Count(S) \in Nat /\ Count(B \ S) \in Nat
      /\ Count(B) = Count(S) + Count(B \ S)
  BY CountMinus
<1>2. Count(S) <= Count(B)
  BY <1>1
<1>3. m \in Mem
  BY DEF Sound
<1>4. m.current \in 0 .. FRAMES /\ m.recycled \in Seq(Frame)
  BY <1>3, MemFields
<1>5. Len(m.recycled) + FRAMES - m.current \in Int
  BY <1>4, NoneIsNoFrame
<1> DEFINE room == Len(m.recycled) + FRAMES - m.current
<1> HIDE DEF room
<1>6. Count(B) <= room /\ room \in Int
  BY <1>5 DEF Fits, room
<1>7. Count(S) <= room
  BY <1>1, <1>2, <1>6
<1> QED BY <1>7 DEF Fits, room

\* R is m with the kernel stack k for p.
Stacked(m, R, p, k) ==
  /\ Sound(R) /\ \A q \in Proc \ {p} : R.own[q] = m.own[q] /\ R.pte[q] = m.pte[q]
  /\ \A s \in Slot \ {Kstack(k)} : R.own[p][s] = m.own[p][s]
  /\ R.own[p][Kstack(k)] # None
  /\ \A j \in Kinds, v \in Vpn : R.own[p][<<j, v>>] = m.own[p][<<j, v>>]
  /\ \A v \in Vpn : R.pte[p][v] = m.pte[p][v]
  /\ R.own[p][Bare] = m.own[p][Bare]

\* Grab of a kernel stack.
LEMMA StackGrabbed ==
  ASSUME NEW m, Sound(m), NEW p \in Proc, NEW k \in Kid, m.own[p][Kstack(k)] = None,
         Fits(m, {Kstack(k)}), NEW R, R = Grab(m, p, {Kstack(k)})
  PROVE  Stacked(m, R, p, k)
<1> DEFINE S == {Kstack(k)}
<1>1. S \in SUBSET Slot /\ (\A s \in S : m.own[p][s] = None) /\ Kstack(k) \in S /\ \A s \in S : s[1] = "kstack"
  BY SlotFacts
<1>2. Fits(m, S) /\ R = Grab(m, p, S)
  OBVIOUS
<1> HIDE DEF S
<1>3. Grabbed(m, R, p, S)
  BY <1>1, <1>2, GrabFacts
<1>4. /\ Sound(R) /\ R.pte = m.pte
      /\ \A q \in Proc \ {p} : R.own[q] = m.own[q]
      /\ \A s \in Slot \ S : R.own[p][s] = m.own[p][s]
      /\ \A s \in S : R.own[p][s] \in Frame
  BY <1>3 DEF Grabbed
<1>5. R.own[p][Kstack(k)] # None
  BY <1>1, <1>4, NoneIsNoFrame
<1>6. \A s \in Slot : s[1] # "kstack" => R.own[p][s] = m.own[p][s]
  BY <1>1, <1>4
<1>7. \A j \in Kinds, v \in Vpn : <<j, v>> \in Slot /\ <<j, v>>[1] # "kstack"
  BY SlotFacts DEF Kinds
<1>8. \A j \in Kinds, v \in Vpn : R.own[p][<<j, v>>] = m.own[p][<<j, v>>]
  BY <1>6, <1>7
<1>9. R.own[p][Bare] = m.own[p][Bare]
  BY <1>6, SlotFacts
<1>10. \A s \in Slot \ {Kstack(k)} : R.own[p][s] = m.own[p][s]
  BY <1>4 DEF S
<1> QED BY <1>4, <1>5, <1>8, <1>9, <1>10 DEF Stacked

\* A free number for a kernel stack.
LEMMA FreeKidFacts ==
  ASSUME NEW m, NEW p, FreeKids(m, p) # {}
  PROVE  FreeKid(m, p) \in Kid /\ m.own[p][Kstack(FreeKid(m, p))] = None
<1>1. FreeKid(m, p) \in FreeKids(m, p)
  BY DEF FreeKid
<1> QED BY <1>1 DEF FreeKids

\* clone2 with CLONE_THREAD.
LEMMA CloneThreadInv == ASSUME Inv, NEW p \in Proc, NEW t \in Tid, CloneThread(p, t) PROVE Inv'
<1> DEFINE k == FreeKid(mem, p)
           V == {TrapCx(t)}
           N == Needed(mem, p, "area", V)
           a == Map(mem, p, "area", V)
           m == Grab(a, p, {Kstack(k)})
           S == {Kstack(i) : i \in {tasks[p][t]} \ {None}}
<1>1. state[p] = "live" /\ t \notin threads[p] /\ FreeKids(mem, p) # {}
  BY DEF CloneThread, Running
<1>2. /\ Sound(mem) /\ TypeOK /\ mem.own[p][Bare] = None /\ TcbInv(p) /\ TrapInv(p)
      /\ ThreadsInv(p) /\ Reach(mem, p, unmapped[p]) /\ HeapInv(p)
  BY <1>1, LiveFacts
<1>3. t # 0 /\ User(t) = V
  BY <1>1, <1>2, UserFacts DEF ThreadsInv
<1>4. k \in Kid /\ mem.own[p][Kstack(k)] = None
  BY <1>1, FreeKidFacts
<1>5. m = NewThread(mem, p, User(t))
  BY <1>3 DEF NewThread
<1>6. CASE Valid(p, TrapCx(t))
  <2>1. Panic("clone_mapped")
    BY <1>6 DEF CloneThread
  <2> QED BY <2>1, PanicKeeps
<1>7. CASE ~ Valid(p, TrapCx(t)) /\ ~ Fits(mem, {Kstack(k)} \cup N)
  <2>1. Panic("oom")
    BY <1>3, <1>7 DEF CloneThread, OrPanic
  <2> QED BY <2>1, PanicKeeps
<1>8. CASE ~ Valid(p, TrapCx(t)) /\ Fits(mem, {Kstack(k)} \cup N)
  <2>1. /\ mem' = DropTcb(m, p, t)
        /\ threads' = [threads EXCEPT ![p] = threads[p] \cup {t}]
        /\ tasks' = [tasks EXCEPT ![p][t] = k]
        /\ tasks_len' = [tasks_len EXCEPT ![p] = IF tasks_len[p] < t + 1 THEN t + 1 ELSE tasks_len[p]]
        /\ trap_cx' = [trap_cx EXCEPT ![p][t] = m.pte[p][TrapCx(t)]]
        /\ UNCHANGED <<bounds, state, halt>>
    BY <1>3, <1>5, <1>8 DEF CloneThread, OrPanic, TrapFrame
  <2>2. mem' = Drop(m, p, S)
    BY <2>1 DEF DropTcb
  <2>3. V \in SUBSET Vpn /\ "area" \in Kinds /\ "heap" \in Kinds /\ TrapCx(t) \in V
    BY UserFacts DEF Kinds
  <2>4. \A v \in V : v = TrapCx(t) /\ ~ Valid(p, v)
    BY <1>8
  <2>5. S \in SUBSET Slot /\ \A s \in S : s[1] = "kstack" /\ tasks[p][t] # None /\ s = Kstack(tasks[p][t])
    BY <1>2, TcbSlots
  <2> HIDE DEF V, S, k
  <2>6. N \in SUBSET Slot /\ \A s \in N : s[1] = "table" \/ s[1] = "area"
    <3>1. Needs(mem, p, "area", V, N)
      BY <2>3, NeededFacts
    <3> HIDE DEF N
    <3> QED BY <3>1 DEF Needs
  <2> DEFINE K == {Kstack(k)}
             B == K \cup N
  <2>7. K \in SUBSET Slot /\ \A s \in K : s[1] = "kstack"
    BY <1>4, SlotFacts
  <2>8. Fits(mem, B)
    BY <1>8
  <2> HIDE DEF K
  <2>9. B \in SUBSET Slot /\ N \in SUBSET B /\ B \ N = K
    <3> HIDE DEF N
    <3> QED BY <2>6, <2>7
  <2> HIDE DEF B
  <2>10. Fits(mem, N)
    BY <1>2, <2>8, <2>9, FitsPart
  <2>11. Mapped(mem, a, p, "area", V) /\ Pages1(mem, a, p, "area", V) /\ Reach(a, p, unmapped[p])
    BY <1>1, <2>3, <2>4, <2>10, MapStep
  <2> HIDE DEF a
  <2>12. Sound(a) /\ Fits(a, K) /\ \A q \in Proc \ {p} : a.own[q] = mem.own[q] /\ a.pte[q] = mem.pte[q]
    <3>1. Fits(a, B \ N)
      BY <2>8, <2>9, <2>11 DEF Mapped
    <3> QED BY <2>9, <2>11, <3>1, MappedOthers
  <2>13. /\ \A v \in V : a.own[p][<<"area", v>>] \in Frame /\ a.pte[p][v] = a.own[p][<<"area", v>>]
         /\ \A v \in Vpn \ V : a.pte[p][v] = mem.pte[p][v]
         /\ \A j \in Kinds, v \in Vpn : ~(j = "area" /\ v \in V) => a.own[p][<<j, v>>] = mem.own[p][<<j, v>>]
         /\ \A s \in Slot : s[1] \notin {"table", "area"} => a.own[p][s] = mem.own[p][s]
    BY <2>11 DEF Pages1
  <2>14. \A i \in Kid : a.own[p][Kstack(i)] = mem.own[p][Kstack(i)]
    BY <2>13, SlotFacts
  <2>15. Stacked(a, m, p, k)
    BY <1>4, <2>12, <2>14, StackGrabbed DEF K
  <2> HIDE DEF m
  <2>16. /\ Sound(m) /\ \A q \in Proc \ {p} : m.own[q] = a.own[q] /\ m.pte[q] = a.pte[q]
         /\ \A s \in Slot \ {Kstack(k)} : m.own[p][s] = a.own[p][s]
         /\ m.own[p][Kstack(k)] # None
         /\ \A j \in Kinds, v \in Vpn : m.own[p][<<j, v>>] = a.own[p][<<j, v>>]
         /\ \A v \in Vpn : m.pte[p][v] = a.pte[p][v]
         /\ m.own[p][Bare] = a.own[p][Bare]
    BY <2>15 DEF Stacked
  <2>17. /\ Cleared(m, mem', p, S, {})
         /\ \A j \in Kinds, v \in Vpn : mem'.own[p][<<j, v>>] = m.own[p][<<j, v>>]
         /\ \A v \in Vpn : mem'.pte[p][v] = m.pte[p][v]
         /\ mem'.own[p][Bare] = m.own[p][Bare]
    <3>1. mem' = Drop(m, p, S) /\ \A s \in S : s[1] = "kstack"
      BY <2>2, <2>5
    <3>2. Sound(m) /\ S \in SUBSET Slot
      BY <2>5, <2>16
    <3> QED BY <3>1, <3>2, StackDropped
  <2>18. /\ Sound(mem') /\ \A q \in Proc \ {p} : mem'.own[q] = m.own[q] /\ mem'.pte[q] = m.pte[q]
         /\ \A s \in Slot \ S : mem'.own[p][s] = m.own[p][s]
    <3>1. Cleared(m, mem', p, S, {})
      BY <2>17
    <3> QED BY <3>1, ClearedOthers
  <2>19. \A j \in Kinds, v \in Vpn : mem'.own[p][<<j, v>>] = a.own[p][<<j, v>>] /\ mem'.pte[p][v] = a.pte[p][v]
    BY <2>16, <2>17
  <2>20. /\ tasks' \in [Proc -> [Tid -> Kid \cup {None}]] /\ tasks'[p][t] = k
         /\ \A u \in Tid \ {t} : tasks'[p][u] = tasks[p][u]
         /\ \A q \in Proc \ {p} : tasks'[q] = tasks[q]
    BY <1>2, <1>4, <2>1 DEF TypeOK
  <2>21. /\ threads' \in [Proc -> SUBSET Tid] /\ threads'[p] = threads[p] \cup {t}
         /\ \A q \in Proc \ {p} : threads'[q] = threads[q]
    BY <1>2, <2>1 DEF TypeOK
  <2>22. /\ tasks_len' \in [Proc -> Nat] /\ t < tasks_len'[p] /\ tasks_len[p] <= tasks_len'[p]
         /\ \A q \in Proc \ {p} : tasks_len'[q] = tasks_len[q]
    <3>1. t \in Nat /\ tasks_len \in [Proc -> Nat] /\ tasks_len[p] \in Nat
      BY <1>2, UserFacts DEF TypeOK
    <3> QED BY <2>1, <3>1
  <2>23. /\ trap_cx' \in [Proc -> [Tid -> Frame \cup {None}]] /\ trap_cx'[p][t] = mem'.pte[p][TrapCx(t)]
         /\ \A u \in Tid \ {t} : trap_cx'[p][u] = trap_cx[p][u]
         /\ \A q \in Proc \ {p} : trap_cx'[q] = trap_cx[q]
    <3>1. m.pte[p][TrapCx(t)] \in Frame /\ m.pte[p][TrapCx(t)] = mem'.pte[p][TrapCx(t)]
      BY <2>3, <2>13, <2>16, <2>17
    <3> HIDE DEF TrapCx
    <3> QED BY <1>2, <2>1, <3>1 DEF TypeOK
  <2>24. TcbInv(p)'
    <3> SUFFICES ASSUME NEW u \in Tid, tasks'[p][u] # None
                 PROVE  /\ mem'.own[p][Kstack(tasks'[p][u])] # None
                        /\ \A w \in Tid : tasks'[p][w] = tasks'[p][u] => w = u
      BY DEF TcbInv, Owned
    <3>1. \A w \in Tid : tasks[p][w] # None =>
            /\ tasks[p][w] \in Kid /\ mem.own[p][Kstack(tasks[p][w])] # None /\ tasks[p][w] # k
            /\ Kstack(tasks[p][w]) # Kstack(k)
            /\ \A x \in Tid : tasks[p][x] = tasks[p][w] => x = w
      BY <1>2, <1>4, TaskTypes, KstackInjective DEF TcbInv, Owned
    <3>2. \A w \in Tid : tasks[p][w] # None => m.own[p][Kstack(tasks[p][w])] # None
      <4> SUFFICES ASSUME NEW w \in Tid, tasks[p][w] # None PROVE m.own[p][Kstack(tasks[p][w])] # None
        OBVIOUS
      <4>1. /\ tasks[p][w] \in Kid /\ mem.own[p][Kstack(tasks[p][w])] # None
            /\ Kstack(tasks[p][w]) # Kstack(k)
        BY <3>1
      <4> DEFINE i == tasks[p][w]
      <4> HIDE DEF i
      <4>2. i \in Kid /\ mem.own[p][Kstack(i)] # None /\ Kstack(i) # Kstack(k)
        BY <4>1 DEF i
      <4>3. Kstack(i) \in Slot \ {Kstack(k)}
        BY <4>2, SlotFacts
      <4>4. m.own[p][Kstack(i)] = a.own[p][Kstack(i)] /\ a.own[p][Kstack(i)] = mem.own[p][Kstack(i)]
        BY <2>14, <2>16, <4>2, <4>3
      <4> QED BY <4>2, <4>4 DEF i
    <3>3. Kstack(k) \notin S
      BY <2>5, <3>1
    <3>4. CASE u = t
      <4>1. mem'.own[p][Kstack(k)] # None
        BY <1>4, <2>16, <2>18, <3>3, SlotFacts
      <4>2. \A w \in Tid : tasks'[p][w] = k => w = t
        BY SMTT(30), <1>4, <2>20, <3>1, NoneIsNoFrame, MemoryConstants DEF Kid
      <4> QED BY <2>20, <3>4, <4>1, <4>2
    <3>5. CASE u # t
      <4>1. tasks'[p][u] = tasks[p][u] /\ tasks[p][u] # None
        BY <2>20, <3>5
      <4>2. Kstack(tasks[p][u]) \notin S
        BY <2>5, <3>1, <3>5, <4>1, KstackInjective
      <4>3. mem'.own[p][Kstack(tasks[p][u])] # None
        BY <2>18, <3>1, <3>2, <4>1, <4>2, SlotFacts
      <4>4. \A w \in Tid : tasks'[p][w] = tasks[p][u] => w = u
        BY <2>20, <3>1, <4>1
      <4> QED BY <4>1, <4>3, <4>4
    <3> QED BY <3>4, <3>5
  <2>25. TrapInv(p)'
    <3>1. ASSUME NEW u \in threads[p]
          PROVE  /\ trap_cx'[p][u] = trap_cx[p][u] /\ mem'.pte[p][TrapCx(u)] = mem.pte[p][TrapCx(u)]
                 /\ mem'.own[p][<<"area", TrapCx(u)>>] = mem.own[p][<<"area", TrapCx(u)>>]
      <4>1. u \in Tid /\ u # t
        BY <1>1, <1>2, TaskTypes
      <4>2. TrapCx(u) \in Vpn /\ TrapCx(u) \notin V
        BY <2>4, <4>1, UserFacts
      <4> QED BY SMTT(30), <2>3, <2>13, <2>19, <2>23, <4>1, <4>2
    <3>2. \A u \in threads[p] : /\ trap_cx'[p][u] # None /\ trap_cx'[p][u] = mem'.pte[p][TrapCx(u)]
                              /\ trap_cx'[p][u] = mem'.own[p][<<"area", TrapCx(u)>>]
      BY <1>2, <3>1 DEF TrapInv
    <3>3. /\ trap_cx'[p][t] # None /\ trap_cx'[p][t] = mem'.pte[p][TrapCx(t)]
          /\ trap_cx'[p][t] = mem'.own[p][<<"area", TrapCx(t)>>]
      <4>1. TrapCx(t) \in Vpn
        BY <2>3
      <4> QED BY SMTT(30), <2>3, <2>13, <2>19, <2>23, <4>1, NoneIsNoFrame
    <3> QED BY <2>21, <3>2, <3>3 DEF TrapInv
  <2>26. HeapInv(p)'
    <3>1. \A v \in Vpn : mem'.own[p][<<"heap", v>>] = mem.own[p][<<"heap", v>>]
      BY <2>3, <2>13, <2>19
    <3> QED BY <1>2, <2>1, <3>1 DEF HeapInv, Owned, bounds
  <2>27. ThreadsInv(p)'
    <3>1. \A u \in threads[p] : u \in Nat /\ u < tasks_len[p]
      BY <1>2, TaskTypes, UserFacts DEF ThreadsInv
    <3>2. tasks_len[p] \in Nat /\ tasks_len'[p] \in Nat
      BY <1>2, <2>22 DEF TypeOK
    <3>3. \A u \in threads[p] : u < tasks_len'[p]
      BY SMTT(30), <2>22, <3>1, <3>2
    <3> QED BY <1>2, <2>21, <2>22, <3>3 DEF ThreadsInv
  <2>28. Reach(mem', p, unmapped[p])
    <3>1. \A v \in Vpn : mem'.pte[p][v] = a.pte[p][v]
      BY <2>16, <2>17
    <3>2. \A v \in Vpn : mem'.pte[p][v] = a.pte[p][v] /\ \A j \in Kinds : mem'.own[p][<<j, v>>] = a.own[p][<<j, v>>]
      BY <2>19, <3>1
    <3> QED BY <2>11, <3>2, SameReach
  <2>29. mem'.own[p][Bare] = None
    BY <1>2, <2>13, <2>16, <2>17, SlotFacts
  <2>30. state'[p] = "live" /\ unmapped' = unmapped
    BY <1>1, <2>1 DEF bounds
  <2>31. ProcInv(p)'
    BY <2>24, <2>25, <2>26, <2>27, <2>28, <2>29, <2>30 DEF ProcInv
  <2>32. TypeOK'
    BY <1>2, <2>1, <2>18, <2>20, <2>21, <2>22, <2>23, SoundType DEF TypeOK, bounds
  <2>33. \A q \in Proc \ {p} : Same(q)
    <3> TAKE q \in Proc \ {p}
    <3>1. mem'.own[q] = mem.own[q] /\ mem'.pte[q] = mem.pte[q]
      BY <2>12, <2>16, <2>18
    <3>2. heap_end'[q] = heap_end[q] /\ unmapped'[q] = unmapped[q] /\ state'[q] = state[q]
      BY <2>1 DEF bounds
    <3>3. /\ threads'[q] = threads[q] /\ tasks'[q] = tasks[q]
          /\ tasks_len'[q] = tasks_len[q] /\ trap_cx'[q] = trap_cx[q]
      BY <2>20, <2>21, <2>22, <2>23
    <3> QED BY <3>1, <3>2, <3>3 DEF Same
  <2> QED BY <2>18, <2>31, <2>32, <2>33, OneProcess
<1> QED BY <1>6, <1>7, <1>8

\* There are frames for all slots of B that p has none for.
Budget(m, p, B) == Fits(m, {s \in B : m.own[p][s] = None})

\* What fits is a budget.
LEMMA BudgetFromFits ==
  ASSUME NEW m, Sound(m), NEW p, NEW B \in SUBSET Slot, Fits(m, B)
  PROVE  Budget(m, p, B)
<1>1. {s \in B : m.own[p][s] = None} \in SUBSET B
  OBVIOUS
<1> DEFINE S == {s \in B : m.own[p][s] = None}
<1> HIDE DEF S
<1>2. Fits(m, S)
  BY <1>1, FitsPart DEF S
<1> QED BY <1>2 DEF Budget, S

\* Taking frames for slots of B keeps the budget.
LEMMA GrabBudget ==
  ASSUME NEW m, Sound(m), NEW p \in Proc, NEW B \in SUBSET Slot, Budget(m, p, B), NEW S \in SUBSET B,
         \A s \in S : m.own[p][s] = None, NEW R, R = Grab(m, p, S)
  PROVE  Grabbed(m, R, p, S) /\ Budget(R, p, B)
<1> DEFINE C == {s \in B : m.own[p][s] = None}
           D == {s \in B : R.own[p][s] = None}
<1>1. C \in SUBSET Slot /\ S \in SUBSET C /\ Fits(m, C) /\ S \in SUBSET Slot
  BY DEF Budget
<1>2. Fits(m, S)
  <2> HIDE DEF C
  <2> QED BY <1>1, FitsPart
<1>3. Grabbed(m, R, p, S)
  BY <1>1, <1>2, GrabFacts
<1>4. /\ \A s \in Slot \ S : R.own[p][s] = m.own[p][s]
      /\ \A s \in S : R.own[p][s] # None
      /\ \A E \in SUBSET Slot : S \subseteq E /\ Fits(m, E) => Fits(R, E \ S)
  BY <1>3, NoneIsNoFrame DEF Grabbed
<1>5. D = C \ S
  BY <1>4
<1>6. Fits(R, C \ S)
  <2> HIDE DEF C
  <2> QED BY <1>1, <1>4
<1>7. Fits(R, D)
  BY <1>5, <1>6
<1> QED BY <1>3, <1>7 DEF Budget

\* Mapping pages whose slots are in B keeps the budget.
LEMMA MapBudget ==
  ASSUME NEW m, Sound(m), NEW p \in Proc, NEW B \in SUBSET Slot, Budget(m, p, B), NEW kind \in Kinds,
         NEW V \in SUBSET Vpn, Slots(kind, V) \subseteq B, Tables(V) \subseteq B,
         \A v \in V : m.own[p][<<kind, v>>] = None, NEW R, R = Map(m, p, kind, V)
  PROVE  Mapped(m, R, p, kind, V) /\ Budget(R, p, B)
<1> DEFINE C == {s \in B : m.own[p][s] = None}
           D == {s \in B : R.own[p][s] = None}
           N == Needed(m, p, kind, V)
<1>1. C \in SUBSET Slot /\ Fits(m, C)
  BY DEF Budget
<1>2. Needs(m, p, kind, V, N)
  BY NeededFacts
<1>3. N \in SUBSET C
  <2> HIDE DEF N
  <2>1. /\ \A s \in N : m.own[p][s] = None \/ \E v \in V : s = <<kind, v>>
        /\ \A s \in N : s \in Slots(kind, V) \cup Tables(V)
    BY <1>2 DEF Needs
  <2> QED BY <2>1
<1>4. Fits(m, N)
  <2> HIDE DEF C, N
  <2> QED BY <1>1, <1>3, FitsPart
<1>5. Mapped(m, R, p, kind, V)
  BY <1>4, MapFacts
<1>6. /\ \A s \in Slot \ N : R.own[p][s] = m.own[p][s]
      /\ \A s \in N : R.own[p][s] \in Frame
      /\ \A E \in SUBSET Slot : N \subseteq E /\ Fits(m, E) => Fits(R, E \ N)
  BY <1>5 DEF Mapped
<1> HIDE DEF N
<1>7. D = C \ N
  BY <1>3, <1>6, NoneIsNoFrame
<1>8. Fits(R, C \ N)
  <2> HIDE DEF C
  <2> QED BY <1>1, <1>3, <1>6
<1>9. Fits(R, D)
  BY <1>7, <1>8
<1> QED BY <1>5, <1>9 DEF Budget

\* The choice of a kernel stack depends on the kernel stacks only.
LEMMA SameFreeKid ==
  ASSUME NEW m, NEW R, NEW p, \A k \in Kid : R.own[p][Kstack(k)] = m.own[p][Kstack(k)]
  PROVE  FreeKids(R, p) = FreeKids(m, p) /\ FreeKid(R, p) = FreeKid(m, p)
<1>1. FreeKids(R, p) = FreeKids(m, p)
  BY DEF FreeKids
<1> QED BY <1>1 DEF FreeKid

\* The slots of the first pages of a space.
LEMMA NewSpaceFacts ==
  /\ NewSpace \in SUBSET Slot
  /\ \A s \in NewSpace : s[1] = "root" \/ s[1] = "table"
  /\ \A V \in SUBSET Vpn : Tables(V) \in SUBSET Slot
<1>1. Trampolines \subseteq Vpn
  BY MemoryConstants
<1>2. \A V \in SUBSET Vpn : Tables(V) \in SUBSET Slot /\ \A s \in Tables(V) : s[1] = "table"
  BY SlotFacts DEF Tables
<1> QED BY SMTT(30), <1>1, <1>2, SlotFacts DEF NewSpace

\* R is m with a space for p, no trackers but those of m outside of it.
Fresh(m, R, p, Q) ==
  /\ Sound(R) /\ \A q \in Proc \ {p} : R.own[q] = m.own[q] /\ R.pte[q] = m.pte[q]
  /\ \A s \in Slot : s[1] \in {"kstack", "bare"} => R.own[p][s] = m.own[p][s]
  /\ Reach(R, p, {})
  /\ \A j \in Kinds, v \in Vpn : R.own[p][<<j, v>>] # None => v \in Q

\* from_elf and new_bare: a space with its trampolines.
LEMMA NewSpaceFresh ==
  ASSUME NEW m, Sound(m), NEW p \in Proc, Blank(m, p), \A s \in NewSpace : m.own[p][s] = None,
         NEW B \in SUBSET Slot, Budget(m, p, B), NewSpace \subseteq B, NEW R, R = Grab(m, p, NewSpace)
  PROVE  Fresh(m, R, p, {}) /\ Budget(R, p, B)
<1>1. Grabbed(m, R, p, NewSpace) /\ Budget(R, p, B)
  BY GrabBudget
<1>2. /\ Sound(R) /\ R.pte = m.pte
      /\ \A q \in Proc \ {p} : R.own[q] = m.own[q]
      /\ \A s \in Slot \ NewSpace : R.own[p][s] = m.own[p][s]
  BY <1>1 DEF Grabbed
<1>3. \A s \in Slot : s[1] \in {"kstack", "bare"} => R.own[p][s] = m.own[p][s]
  BY <1>2, NewSpaceFacts
<1>4. \A j \in Kinds, v \in Vpn : <<j, v>> \in Slot /\ <<j, v>> \notin NewSpace
  <2> TAKE j \in Kinds, v \in Vpn
  <2>1. <<j, v>> \in Slot /\ <<j, v>>[1] = j /\ j # "root" /\ j # "table"
    BY SlotFacts DEF Kinds
  <2> QED BY <2>1, NewSpaceFacts
<1>5. \A j \in Kinds, v \in Vpn : R.own[p][<<j, v>>] = None /\ R.pte[p][v] = None
  BY <1>2, <1>4 DEF Blank
<1>6. Reach(R, p, {})
  <2>1. \A v \in Vpn : R.pte[p][v] = None
    BY <1>2 DEF Blank
  <2>2. Blank(R, p)
    BY <1>5, <2>1 DEF Blank
  <2> QED BY <2>2, BlankReach
<1> QED BY <1>1, <1>2, <1>3, <1>5, <1>6 DEF Fresh

\* The pages V of p have trackers of this kind and entries for them.
There(R, p, kind, V) == \A v \in V : R.own[p][<<kind, v>>] \in Frame /\ R.pte[p][v] = R.own[p][<<kind, v>>]

\* More pages for a new space.
LEMMA MapFresh ==
  ASSUME NEW m, NEW M, NEW p \in Proc, NEW Q, Fresh(m, M, p, Q), NEW kind \in Kinds, NEW V \in SUBSET Vpn,
         V \cap Q = {}, NEW R, Mapped(M, R, p, kind, V)
  PROVE  Fresh(m, R, p, Q \cup V) /\ There(R, p, kind, V)
<1>1. /\ Sound(M) /\ \A q \in Proc \ {p} : M.own[q] = m.own[q] /\ M.pte[q] = m.pte[q]
      /\ \A s \in Slot : s[1] \in {"kstack", "bare"} => M.own[p][s] = m.own[p][s]
      /\ Reach(M, p, {})
      /\ \A j \in Kinds, v \in Vpn : M.own[p][<<j, v>>] # None => v \in Q
  BY DEF Fresh
<1>2. \A v \in V, j \in Kinds : M.own[p][<<j, v>>] = None
  BY <1>1
<1>3. Reach(R, p, {}) /\ Pages1(M, R, p, kind, V)
  <2>1. Reach(R, p, {})
    BY <1>1, <1>2, MapReach
  <2>2. Pages1(M, R, p, kind, V)
    BY MappedPages
  <2> QED BY <2>1, <2>2
<1>4. Sound(R) /\ \A q \in Proc \ {p} : R.own[q] = m.own[q] /\ R.pte[q] = m.pte[q]
  <2>1. Sound(R) /\ \A q \in Proc \ {p} : R.own[q] = M.own[q] /\ R.pte[q] = M.pte[q]
    BY MappedOthers
  <2> QED BY <1>1, <2>1
<1>5. /\ \A v \in V : R.own[p][<<kind, v>>] \in Frame /\ R.pte[p][v] = R.own[p][<<kind, v>>]
      /\ \A j \in Kinds, v \in Vpn : ~(j = kind /\ v \in V) => R.own[p][<<j, v>>] = M.own[p][<<j, v>>]
      /\ \A s \in Slot : s[1] \notin {"table", kind} => R.own[p][s] = M.own[p][s]
  BY <1>3 DEF Pages1
<1>6. \A s \in Slot : s[1] \in {"kstack", "bare"} => R.own[p][s] = m.own[p][s]
  BY <1>1, <1>5 DEF Kinds
<1>7. \A j \in Kinds, v \in Vpn : R.own[p][<<j, v>>] # None => v \in Q \cup V
  BY <1>1, <1>5
<1> QED BY <1>3, <1>4, <1>5, <1>6, <1>7 DEF Fresh, There

\* The slots of a program.
ProgramSlots == NewSpace \cup Slots("area", Program) \cup Tables(Program)

\* from_elf into a space without pages.
LEMMA LoadedFresh ==
  ASSUME NEW m, Sound(m), NEW p \in Proc, Blank(m, p), \A s \in NewSpace : m.own[p][s] = None,
         NEW B \in SUBSET Slot, Budget(m, p, B), ProgramSlots \subseteq B, NEW R, R = Loaded(m, p)
  PROVE  Fresh(m, R, p, Program) /\ Budget(R, p, B)
<1> DEFINE M == Grab(m, p, NewSpace)
<1>1. NewSpace \subseteq B /\ Slots("area", Program) \subseteq B /\ Tables(Program) \subseteq B
  BY DEF ProgramSlots
<1>2. Fresh(m, M, p, {}) /\ Budget(M, p, B)
  BY <1>1, NewSpaceFresh
<1>3. R = Map(M, p, "area", Program)
  BY DEF Loaded
<1>4. Program \in SUBSET Vpn /\ "area" \in Kinds
  BY MemoryConstants DEF Kinds
<1> HIDE DEF M
<1>5. Sound(M) /\ \A v \in Program : M.own[p][<<"area", v>>] = None
  BY <1>2, <1>4 DEF Fresh
<1>6. Mapped(M, R, p, "area", Program) /\ Budget(R, p, B)
  BY <1>1, <1>2, <1>3, <1>4, <1>5, MapBudget
<1>7. Program \cap {} = {} /\ {} \cup Program = Program
  OBVIOUS
<1>8. Fresh(m, R, p, {} \cup Program)
  BY <1>2, <1>4, <1>6, <1>7, MapFresh
<1> QED BY <1>6, <1>7, <1>8

\* A new space: other processes, kernel stacks and the page table.
LEMMA FreshKeeps ==
  ASSUME NEW m, NEW R, NEW p, NEW Q, Fresh(m, R, p, Q)
  PROVE  /\ Sound(R) /\ \A q \in Proc \ {p} : R.own[q] = m.own[q] /\ R.pte[q] = m.pte[q]
         /\ R.own[p][Bare] = m.own[p][Bare] /\ \A k \in Kid : R.own[p][Kstack(k)] = m.own[p][Kstack(k)]
         /\ \A U : Reach(R, p, U)
<1>1. /\ Sound(R) /\ \A q \in Proc \ {p} : R.own[q] = m.own[q] /\ R.pte[q] = m.pte[q]
      /\ \A s \in Slot : s[1] \in {"kstack", "bare"} => R.own[p][s] = m.own[p][s]
      /\ Reach(R, p, {})
  BY DEF Fresh
<1>2. \A U : Reach(R, p, U)
  BY <1>1 DEF Reach
<1> QED BY <1>1, <1>2, SlotFacts

\* The heap is empty.
LEMMA NoHeap == ASSUME NEW p, heap_end'[p] = HEAP_BASE PROVE HeapInv(p)'
<1>1. HEAP_BASE \in Nat
  BY MemoryConstants
<1>2. \A v \in Vpn : v * PAGE_SIZE \in Nat
  BY SMTT(30), MemoryConstants, TimesSucc DEF Vpn
<1>3. \A x \in Nat : ~(HEAP_BASE <= x /\ x < HEAP_BASE)
  BY <1>1
<1> QED BY <1>2, <1>3 DEF HeapInv

\* execve.
LEMMA ExecInv == ASSUME Inv, NEW p \in Proc, Exec(p) PROVE Inv'
<1> DEFINE n == Grab(mem, p, {Bare})
           S == {s \in Slot : s # Bare /\ s[1] # "kstack"}
           freed == DropSpace(n, p, S)
           prog == Loaded(freed, p)
           loaded == Drop(prog, p, {Bare})
           V == User(0)
           m == Map(loaded, p, "area", V)
           enough == Fits(mem, {Bare}) /\ Fits(freed, ProgramSlots) /\ Fits(loaded, Needed(loaded, p, "area", V))
<1>1. state[p] = "live"
  BY DEF Exec, Running
<1>2. /\ Sound(mem) /\ TypeOK /\ mem.own[p][Bare] = None /\ TcbInv(p) /\ TrapInv(p)
      /\ ThreadsInv(p) /\ Reach(mem, p, unmapped[p]) /\ HeapInv(p)
  BY <1>1, LiveFacts
<1>3. CASE tasks_len[p] # 1
  <2>1. Panic("threads")
    BY <1>3 DEF Exec
  <2> QED BY <2>1, PanicKeeps
<1>4. CASE tasks_len[p] = 1 /\ ~ enough
  <2>1. Panic("oom")
    BY <1>4 DEF Exec, OrPanic, ProgramSlots
  <2> QED BY <2>1, PanicKeeps
<1>5. CASE tasks_len[p] = 1 /\ enough
  <2>1. /\ mem' = m
        /\ heap_end' = [heap_end EXCEPT ![p] = HEAP_BASE]
        /\ mmap_end' = [mmap_end EXCEPT ![p] = MMAP_BASE]
        /\ trap_cx' = [trap_cx EXCEPT ![p][0] = mem'.pte[p][TrapCx(0)]]
        /\ unmapped' = [unmapped EXCEPT ![p] = {}]
        /\ UNCHANGED <<state, threads, tasks, tasks_len, halt>>
    BY <1>5 DEF Exec, OrPanic, ProgramSlots, TrapFrame
  <2>2. threads[p] = {0} /\ 0 \in Tid
    <3>1. \A t \in threads[p] : t \in Nat /\ t < 1
      BY <1>2, <1>5, TaskTypes, UserFacts DEF ThreadsInv
    <3>2. \A t \in threads[p] : t = 0
      BY <3>1
    <3> QED BY <1>2, <3>2, UserFacts DEF ThreadsInv
  <2>3. Grabbed(mem, n, p, {Bare})
    <3>1. {Bare} \in SUBSET Slot /\ \A s \in {Bare} : mem.own[p][s] = None
      BY <1>2, SlotFacts
    <3> QED BY <1>2, <1>5, <3>1, GrabFacts
  <2> HIDE DEF n
  <2>4. /\ Sound(n) /\ \A q \in Proc \ {p} : n.own[q] = mem.own[q] /\ n.pte[q] = mem.pte[q]
        /\ \A k \in Kid : n.own[p][Kstack(k)] = mem.own[p][Kstack(k)]
    <3>1. \A k \in Kid : Kstack(k) \in Slot \ {Bare}
      BY SlotFacts
    <3> QED BY <2>3, <3>1 DEF Grabbed
  <2>5. Cleared(n, freed, p, S, Vpn)
    <3>1. S \in SUBSET Slot
      OBVIOUS
    <3> HIDE DEF S
    <3> QED BY <2>4, <3>1, DropSpaceFacts
  <2> HIDE DEF freed
  <2>6. /\ Sound(freed) /\ \A q \in Proc \ {p} : freed.own[q] = mem.own[q] /\ freed.pte[q] = mem.pte[q]
        /\ \A k \in Kid : freed.own[p][Kstack(k)] = mem.own[p][Kstack(k)]
        /\ \A s \in S : freed.own[p][s] = None
        /\ \A v \in Vpn : freed.pte[p][v] = None
    <3>1. \A k \in Kid : Kstack(k) \in Slot \ S
      BY SlotFacts
    <3> HIDE DEF S
    <3> QED BY SMTT(30), <2>4, <2>5, <3>1, ClearedOthers
  <2>7. Blank(freed, p) /\ \A s \in NewSpace : freed.own[p][s] = None
    <3>1. \A j \in Kinds, v \in Vpn : <<j, v>> \in S
      BY SMTT(30), SlotFacts DEF Kinds
    <3>2. NewSpace \subseteq S
      BY NewSpaceFacts, SlotFacts
    <3> HIDE DEF S
    <3> QED BY <2>6, <3>1, <3>2 DEF Blank
  <2>8. ProgramSlots \in SUBSET Slot
    <3>1. Program \in SUBSET Vpn /\ "area" \in Kinds
      BY MemoryConstants DEF Kinds
    <3> QED BY <3>1, NewSpaceFacts, SlotsOf DEF ProgramSlots
  <2>9. Budget(freed, p, ProgramSlots)
    BY <1>5, <2>6, <2>8, BudgetFromFits
  <2>10. Fresh(freed, prog, p, Program)
    BY <2>6, <2>7, <2>8, <2>9, LoadedFresh
  <2> HIDE DEF prog, S
  <2>11. /\ Sound(prog) /\ \A q \in Proc \ {p} : prog.own[q] = mem.own[q] /\ prog.pte[q] = mem.pte[q]
         /\ \A k \in Kid : prog.own[p][Kstack(k)] = mem.own[p][Kstack(k)]
    <3>1. /\ Sound(prog) /\ \A q \in Proc \ {p} : prog.own[q] = freed.own[q] /\ prog.pte[q] = freed.pte[q]
          /\ \A k \in Kid : prog.own[p][Kstack(k)] = freed.own[p][Kstack(k)]
      BY <2>10, FreshKeeps
    <3> QED BY <2>6, <3>1
  <2>12. Cleared(prog, loaded, p, {Bare}, {})
    BY <2>11, SlotFacts, DropClears
  <2> HIDE DEF loaded
  <2>13. /\ Sound(loaded) /\ \A q \in Proc \ {p} : loaded.own[q] = prog.own[q] /\ loaded.pte[q] = prog.pte[q]
         /\ \A s \in Slot \ {Bare} : loaded.own[p][s] = prog.own[p][s]
         /\ loaded.own[p][Bare] = None
         /\ \A v \in Vpn : loaded.pte[p][v] = prog.pte[p][v]
    BY <2>12, ClearedOthers
  <2>14. \A j \in Kinds, v \in Vpn : loaded.own[p][<<j, v>>] = prog.own[p][<<j, v>>]
    <3>1. \A j \in Kinds, v \in Vpn : <<j, v>> \in Slot \ {Bare}
      BY SlotFacts DEF Kinds
    <3> QED BY <2>13, <3>1
  <2>15. \A k \in Kid : loaded.own[p][Kstack(k)] = mem.own[p][Kstack(k)]
    <3>1. \A k \in Kid : Kstack(k) \in Slot \ {Bare}
      BY SlotFacts
    <3> QED BY <2>11, <2>13, <3>1
  <2>16. Fresh(loaded, loaded, p, Program)
    <3>1. Reach(prog, p, {}) /\ \A j \in Kinds, v \in Vpn : prog.own[p][<<j, v>>] # None => v \in Program
      BY <2>10 DEF Fresh
    <3>2. Reach(loaded, p, {})
      BY SMTT(30), <2>13, <2>14, <3>1, SameReach
    <3> QED BY <2>13, <2>14, <3>1, <3>2 DEF Fresh
  <2>17. V \in SUBSET Vpn /\ V \cap Program = {} /\ "area" \in Kinds /\ TrapCx(0) \in V
    BY UserFacts, BootFits DEF Kinds
  <2> HIDE DEF V
  <2>18. Mapped(loaded, mem', p, "area", V)
    <3>1. \A v \in V : loaded.own[p][<<"area", v>>] = None
      BY <2>16, <2>17 DEF Fresh
    <3> QED BY <1>5, <2>1, <2>13, <2>17, <3>1, MapFacts
  <2>19. /\ Fresh(loaded, mem', p, Program \cup V)
         /\ \A v \in V : mem'.own[p][<<"area", v>>] \in Frame /\ mem'.pte[p][v] = mem'.own[p][<<"area", v>>]
    <3>1. Fresh(loaded, mem', p, Program \cup V) /\ There(mem', p, "area", V)
      BY <2>16, <2>17, <2>18, MapFresh
    <3> QED BY <3>1 DEF There
  <2>20. /\ Sound(mem') /\ \A q \in Proc \ {p} : mem'.own[q] = mem.own[q] /\ mem'.pte[q] = mem.pte[q]
         /\ mem'.own[p][Bare] = None /\ \A k \in Kid : mem'.own[p][Kstack(k)] = mem.own[p][Kstack(k)]
         /\ \A U : Reach(mem', p, U)
    <3>1. Fresh(loaded, mem', p, Program \cup V)
      BY <2>19
    <3>2. /\ Sound(mem') /\ \A q \in Proc \ {p} : mem'.own[q] = loaded.own[q] /\ mem'.pte[q] = loaded.pte[q]
          /\ mem'.own[p][Bare] = loaded.own[p][Bare]
          /\ \A k \in Kid : mem'.own[p][Kstack(k)] = loaded.own[p][Kstack(k)]
          /\ \A U : Reach(mem', p, U)
      BY <3>1, FreshKeeps
    <3>3. \A q \in Proc \ {p} : mem'.own[q] = mem.own[q] /\ mem'.pte[q] = mem.pte[q]
      BY <2>11, <2>13, <3>2
    <3>4. mem'.own[p][Bare] = None
      BY <2>13, <3>2
    <3>5. \A k \in Kid : mem'.own[p][Kstack(k)] = mem.own[p][Kstack(k)]
      BY <2>15, <3>2
    <3> QED BY <3>2, <3>3, <3>4, <3>5
  <2>21. /\ trap_cx' \in [Proc -> [Tid -> Frame \cup {None}]] /\ trap_cx'[p][0] = mem'.pte[p][TrapCx(0)]
         /\ \A q \in Proc \ {p} : trap_cx'[q] = trap_cx[q]
    <3>1. mem'.pte[p][TrapCx(0)] \in Frame
      BY <2>17, <2>19
    <3> QED BY <1>2, <2>1, <2>2, <3>1 DEF TypeOK
  <2>22. /\ heap_end' \in [Proc -> Nat] /\ mmap_end' \in [Proc -> Nat] /\ heap_end'[p] = HEAP_BASE
         /\ \A q \in Proc \ {p} : heap_end'[q] = heap_end[q]
    BY <1>2, <2>1, MemoryConstants DEF TypeOK
  <2>23. unmapped' \in [Proc -> SUBSET Vpn] /\ \A q \in Proc \ {p} : unmapped'[q] = unmapped[q]
    BY <1>2, <2>1 DEF TypeOK
  <2>24. TcbInv(p)'
    <3>1. \A u \in Tid : tasks[p][u] # None => tasks[p][u] \in Kid
      BY <1>2, TaskTypes
    <3> QED BY <1>2, <2>1, <2>20, <3>1 DEF TcbInv, Owned
  <2>25. TrapInv(p)'
    <3>1. mem'.own[p][<<"area", TrapCx(0)>>] # None /\ mem'.pte[p][TrapCx(0)] = mem'.own[p][<<"area", TrapCx(0)>>]
      BY <2>17, <2>19, NoneIsNoFrame
    <3>2. threads' = threads /\ \A t \in threads[p] : t = 0
      BY <2>1, <2>2
    <3> QED BY <2>21, <3>1, <3>2 DEF TrapInv
  <2>26. ThreadsInv(p)'
    BY <1>2, <2>1 DEF ThreadsInv
  <2>27. HeapInv(p)'
    BY <2>22, NoHeap
  <2>28. ProcInv(p)'
    BY <1>1, <2>1, <2>20, <2>24, <2>25, <2>26, <2>27 DEF ProcInv
  <2>29. TypeOK'
    BY <1>2, <2>1, <2>20, <2>21, <2>22, <2>23, SoundType DEF TypeOK
  <2>30. \A q \in Proc \ {p} : Same(q)
    BY <2>1, <2>20, <2>21, <2>22, <2>23 DEF Same
  <2> QED BY <2>20, <2>28, <2>29, <2>30, OneProcess
<1> QED BY <1>3, <1>4, <1>5

\* The pages of p, by kind.
LEMMA PagesFacts ==
  ASSUME NEW p \in Proc, NEW U, Sound(mem), Reach(mem, p, U)
  PROVE  /\ \A kind \in Kinds : Pages(p, kind) \in SUBSET Vpn
         /\ \A i, j \in Kinds : i # j => Pages(p, i) \cap Pages(p, j) = {}
<1>1. \A kind \in Kinds : \A v :
        v \in Pages(p, kind) <=> v \in Vpn /\ mem.own[p][<<kind, v>>] # None
  BY DEF Pages
<1>2. ASSUME NEW i \in Kinds, NEW j \in Kinds, i # j, NEW v \in Pages(p, i) PROVE v \notin Pages(p, j)
  <2> SUFFICES ASSUME v \in Pages(p, j) PROVE FALSE
    OBVIOUS
  <2>1. v \in Vpn /\ mem.own[p][<<i, v>>] # None /\ mem.own[p][<<j, v>>] # None
    BY <1>1
  <2>2. i = j
    BY <2>1, OneKind
  <2> QED BY <1>2, <2>2
<1> QED BY <1>1, <1>2

\* The slots that a copy takes frames for.
LEMMA CopiedSlotsFacts ==
  ASSUME NEW p \in Proc
  PROVE  /\ CopiedSlots(p) \in SUBSET Slot /\ NewSpace \subseteq CopiedSlots(p)
         /\ \A kind \in Kinds : /\ Slots(kind, Pages(p, kind)) \subseteq CopiedSlots(p)
                               /\ Tables(Pages(p, kind)) \subseteq CopiedSlots(p)
<1> DEFINE S == UNION {Slots(kind, Pages(p, kind)) : kind \in Kinds}
           W == {s[2] : s \in S}
<1>1. CopiedSlots(p) = NewSpace \cup S \cup Tables(W)
  BY DEF CopiedSlots, Kinds
<1>2. \A kind \in Kinds : Pages(p, kind) \in SUBSET Vpn
  BY DEF Pages
<1>3. \A s \in S : \E kind \in Kinds, v \in Vpn : s = <<kind, v>>
  BY SMTT(30), <1>2 DEF Slots
<1>4. \A kind \in Kinds : Slots(kind, Pages(p, kind)) \subseteq S
  OBVIOUS
<1>5. S \in SUBSET Slot /\ W \in SUBSET Vpn
  <2> HIDE DEF S
  <2> QED BY SMTT(30), <1>3, SlotFacts
<1>6. \A kind \in Kinds : Pages(p, kind) \subseteq W
  <2> TAKE kind \in Kinds
  <2> SUFFICES ASSUME NEW v \in Pages(p, kind) PROVE v \in W
    OBVIOUS
  <2>1. <<kind, v>> \in Slots(kind, Pages(p, kind))
    BY DEF Slots
  <2>2. <<kind, v>> \in S /\ <<kind, v>>[2] = v
    BY <1>4, <2>1
  <2> HIDE DEF S
  <2> QED BY <2>2
<1> HIDE DEF S, W
<1>7. \A kind \in Kinds : Tables(Pages(p, kind)) \subseteq Tables(W)
  BY <1>6 DEF Tables
<1> QED BY <1>1, <1>4, <1>5, <1>7, NewSpaceFacts

\* Later pages leave earlier ones alone.
LEMMA StillThere ==
  ASSUME NEW m, NEW R, NEW p \in Proc, NEW kind \in Kinds, NEW V \in SUBSET Vpn, There(m, p, kind, V),
         NEW j \in Kinds, NEW W \in SUBSET Vpn, j # kind, V \cap W = {}, Mapped(m, R, p, j, W)
  PROVE  There(R, p, kind, V)
<1>1. Pages1(m, R, p, j, W)
  BY MappedPages
<1>2. /\ \A v \in Vpn \ W : R.pte[p][v] = m.pte[p][v]
      /\ \A i \in Kinds, v \in Vpn : ~(i = j /\ v \in W) => R.own[p][<<i, v>>] = m.own[p][<<i, v>>]
  BY <1>1 DEF Pages1
<1>3. \A v \in V : R.pte[p][v] = m.pte[p][v] /\ R.own[p][<<kind, v>>] = m.own[p][<<kind, v>>]
  BY <1>2
<1> QED BY <1>3 DEF There

\* from_existed_user.
LEMMA CopiedFresh ==
  ASSUME Inv, NEW p \in Proc, NEW c \in Proc, state[p] = "live", state[c] = "none",
         NEW B \in SUBSET Slot, CopiedSlots(p) \subseteq B, Budget(mem, c, B), NEW R, R = Copied(p, c)
  PROVE  Fresh(mem, R, c, Vpn) /\ Budget(R, c, B) /\ There(R, c, "area", Pages(p, "area"))
<1> DEFINE A == Pages(p, "area")
           H == Pages(p, "heap")
           M == Pages(p, "mmap")
           n == Grab(mem, c, NewSpace)
           a == Map(n, c, "area", A)
           h == Map(a, c, "heap", H)
<1>1. R = Map(h, c, "mmap", M)
  BY DEF Copied
<1>2. Sound(mem) /\ Reach(mem, p, unmapped[p])
  BY LiveFacts
<1>3. NoSpace(mem, c) /\ Blank(mem, c)
  BY DEF Inv, ProcInv
<1>4. "area" \in Kinds /\ "heap" \in Kinds /\ "mmap" \in Kinds
  BY DEF Kinds
<1>5. /\ A \in SUBSET Vpn /\ H \in SUBSET Vpn /\ M \in SUBSET Vpn
      /\ A \cap H = {} /\ A \cap M = {} /\ H \cap M = {}
  BY <1>2, <1>4, PagesFacts
<1>6. /\ NewSpace \subseteq B /\ Slots("area", A) \subseteq B /\ Slots("heap", H) \subseteq B
      /\ Slots("mmap", M) \subseteq B /\ Tables(A) \subseteq B /\ Tables(H) \subseteq B /\ Tables(M) \subseteq B
  BY <1>4, CopiedSlotsFacts
<1> HIDE DEF A, H, M
<1>7. \A s \in NewSpace : mem.own[c][s] = None
  BY <1>3, NewSpaceFacts DEF NoSpace
<1>8. Fresh(mem, n, c, {}) /\ Budget(n, c, B)
  BY <1>2, <1>3, <1>6, <1>7, NewSpaceFresh
<1> HIDE DEF n
<1>9. Fresh(mem, a, c, A) /\ Budget(a, c, B) /\ There(a, c, "area", A)
  <2>1. Sound(n) /\ \A v \in A : n.own[c][<<"area", v>>] = None
    BY <1>4, <1>5, <1>8 DEF Fresh
  <2>2. Mapped(n, a, c, "area", A) /\ Budget(a, c, B)
    BY <1>4, <1>5, <1>6, <1>8, <2>1, MapBudget
  <2>3. A \cap {} = {} /\ {} \cup A = A
    OBVIOUS
  <2>4. Fresh(mem, a, c, {} \cup A) /\ There(a, c, "area", A)
    BY <1>4, <1>5, <1>8, <2>2, <2>3, MapFresh
  <2> QED BY <2>2, <2>3, <2>4
<1> HIDE DEF a
<1>10. Fresh(mem, h, c, A \cup H) /\ Budget(h, c, B) /\ There(h, c, "area", A)
  <2>1. Sound(a) /\ \A v \in H : a.own[c][<<"heap", v>>] = None
    BY <1>4, <1>5, <1>9 DEF Fresh
  <2>2. Mapped(a, h, c, "heap", H) /\ Budget(h, c, B)
    BY <1>4, <1>5, <1>6, <1>9, <2>1, MapBudget
  <2>3. H \cap A = {}
    BY <1>5
  <2>4. Fresh(mem, h, c, A \cup H)
    BY <1>4, <1>5, <1>9, <2>2, <2>3, MapFresh
  <2>5. There(h, c, "area", A)
    BY <1>4, <1>5, <1>9, <2>2, StillThere
  <2> QED BY <2>2, <2>4, <2>5
<1> HIDE DEF h
<1>11. Fresh(mem, R, c, (A \cup H) \cup M) /\ Budget(R, c, B) /\ There(R, c, "area", A)
  <2>1. Sound(h) /\ \A v \in M : h.own[c][<<"mmap", v>>] = None
    BY <1>4, <1>5, <1>10 DEF Fresh
  <2>2. Mapped(h, R, c, "mmap", M) /\ Budget(R, c, B)
    BY <1>1, <1>4, <1>5, <1>6, <1>10, <2>1, MapBudget
  <2>3. M \cap (A \cup H) = {}
    BY <1>5
  <2> DEFINE Q == A \cup H
  <2> HIDE DEF Q
  <2>4. Fresh(mem, R, c, Q \cup M)
    BY <1>4, <1>5, <1>10, <2>2, <2>3, MapFresh DEF Q
  <2>5. There(R, c, "area", A)
    BY <1>4, <1>5, <1>10, <2>2, StillThere
  <2> QED BY <2>2, <2>4, <2>5 DEF Q
<1>12. Fresh(mem, R, c, Vpn)
  BY <1>11 DEF Fresh
<1> QED BY <1>11, <1>12 DEF A

\* fork.
LEMMA ForkInv == ASSUME Inv, NEW p \in Proc, NEW c \in Proc, Fork(p, c) PROVE Inv'
<1> DEFINE k == FreeKid(mem, c)
           K == {Kstack(k)}
           B == CopiedSlots(p) \cup K
           a == Copied(p, c)
           b == Map(a, c, "area", {})
<1>1. state[p] = "live" /\ state[c] = "none" /\ FreeKids(mem, c) # {}
  BY DEF Fork, Running
<1>2. Sound(mem) /\ TypeOK /\ TrapInv(p) /\ ThreadsInv(p)
  BY <1>1, LiveFacts
<1>3. /\ mem.own[c][Bare] = None /\ threads[c] = {} /\ tasks[c] = [t \in Tid |-> None]
  BY <1>1 DEF Inv, ProcInv
<1>4. k \in Kid /\ mem.own[c][Kstack(k)] = None
  BY <1>1, FreeKidFacts
<1>5. CASE tasks_len[p] # 1
  <2>1. Panic("threads")
    BY <1>5 DEF Fork
  <2> QED BY <2>1, PanicKeeps
<1>6. CASE tasks_len[p] = 1 /\ ~ Fits(mem, B)
  <2>1. Panic("oom")
    BY <1>6 DEF Fork, OrPanic
  <2> QED BY <2>1, PanicKeeps
<1>7. CASE tasks_len[p] = 1 /\ Fits(mem, B)
  <2>1. /\ mem' = NewThread(a, c, {})
        /\ heap_end' = [heap_end EXCEPT ![c] = HEAP_BASE]
        /\ mmap_end' = [mmap_end EXCEPT ![c] = mmap_end[p]]
        /\ state' = [state EXCEPT ![c] = "live"]
        /\ threads' = [threads EXCEPT ![c] = {0}]
        /\ tasks' = [tasks EXCEPT ![c][0] = k]
        /\ tasks_len' = [tasks_len EXCEPT ![c] = 1]
        /\ trap_cx' = [trap_cx EXCEPT ![c][0] = mem'.pte[c][TrapCx(0)]]
        /\ UNCHANGED <<unmapped, halt>>
    BY <1>7 DEF Fork, OrPanic, TrapFrame
  <2>2. K \in SUBSET Slot /\ Kstack(k) \in K
    BY <1>4, SlotFacts
  <2>3. Fits(mem, B)
    BY <1>7
  <2> HIDE DEF k
  <2>4. B \in SUBSET Slot /\ CopiedSlots(p) \subseteq B /\ K \subseteq B
    <3> HIDE DEF K
    <3> QED BY <2>2, CopiedSlotsFacts
  <2> HIDE DEF B
  <2>5. Budget(mem, c, B)
    BY <1>2, <2>3, <2>4, BudgetFromFits
  <2>6. Fresh(mem, a, c, Vpn) /\ Budget(a, c, B) /\ There(a, c, "area", Pages(p, "area"))
    BY <1>1, <2>4, <2>5, CopiedFresh
  <2> HIDE DEF a
  <2>7. Sound(a) /\ \A i \in Kid : a.own[c][Kstack(i)] = mem.own[c][Kstack(i)]
    BY SMTT(30), <2>6, FreshKeeps
  <2>8. FreeKid(a, c) = k
    BY <2>7, SameFreeKid DEF k
  <2>9. mem' = Grab(b, c, K)
    BY <2>1, <2>8 DEF NewThread
  <2>10. "area" \in Kinds /\ {} \in SUBSET Vpn /\ Slots("area", {}) \subseteq B /\ Tables({}) \subseteq B
    BY DEF Kinds, Slots, Tables
  <2>11. Mapped(a, b, c, "area", {}) /\ Budget(b, c, B)
    <3> DEFINE E == {}
    <3>1. E \in SUBSET Vpn /\ Slots("area", E) \subseteq B /\ Tables(E) \subseteq B /\ \A v \in E : a.own[c][<<"area", v>>] = None
      BY <2>10
    <3>2. b = Map(a, c, "area", E)
      OBVIOUS
    <3> HIDE DEF E, b
    <3>3. Mapped(a, b, c, "area", E) /\ Budget(b, c, B)
      BY <2>4, <2>6, <2>7, <2>10, <3>1, <3>2, MapBudget
    <3> QED BY <3>3 DEF E
  <2> HIDE DEF b
  <2>12. Fresh(mem, b, c, Vpn)
    <3>1. {} \cap Vpn = {} /\ Vpn \cup {} = Vpn
      OBVIOUS
    <3>2. Fresh(mem, b, c, Vpn \cup {})
      BY <2>6, <2>10, <2>11, <3>1, MapFresh
    <3> QED BY <3>1, <3>2
  <2>13. There(b, c, "area", Pages(p, "area"))
    <3>1. Pages1(a, b, c, "area", {})
      BY <2>10, <2>11, MappedPages
    <3>2. /\ \A v \in Vpn : b.pte[c][v] = a.pte[c][v]
          /\ \A j \in Kinds, v \in Vpn : b.own[c][<<j, v>>] = a.own[c][<<j, v>>]
      BY <3>1 DEF Pages1
    <3>3. Pages(p, "area") \subseteq Vpn
      BY DEF Pages
    <3> QED BY <2>6, <2>10, <3>2, <3>3 DEF There
  <2>14. /\ Sound(b) /\ \A q \in Proc \ {c} : b.own[q] = mem.own[q] /\ b.pte[q] = mem.pte[q]
         /\ b.own[c][Bare] = None /\ \A i \in Kid : b.own[c][Kstack(i)] = mem.own[c][Kstack(i)]
         /\ \A U : Reach(b, c, U)
    BY SMTT(30), <1>3, <2>12, FreshKeeps
  <2>15. Fits(b, K)
    <3> DEFINE C == {s \in B : b.own[c][s] = None}
    <3>1. b.own[c][Kstack(k)] = None
      BY <1>4, <2>14
    <3>2. K \in SUBSET C /\ C \in SUBSET Slot
      BY <2>4, <3>1
    <3>3. Fits(b, C)
      BY <2>11 DEF Budget
    <3> HIDE DEF C, K
    <3> QED BY <2>14, <3>2, <3>3, FitsPart
  <2>16. Stacked(b, mem', c, k)
    BY <1>4, <2>9, <2>14, <2>15, StackGrabbed
  <2>17. /\ Sound(mem') /\ \A q \in Proc \ {c} : mem'.own[q] = b.own[q] /\ mem'.pte[q] = b.pte[q]
         /\ mem'.own[c][Kstack(k)] # None
         /\ \A j \in Kinds, v \in Vpn : mem'.own[c][<<j, v>>] = b.own[c][<<j, v>>]
         /\ \A v \in Vpn : mem'.pte[c][v] = b.pte[c][v]
         /\ mem'.own[c][Bare] = b.own[c][Bare]
    BY <2>16 DEF Stacked
  <2>18. /\ mem'.own[c][<<"area", TrapCx(0)>>] \in Frame
         /\ mem'.pte[c][TrapCx(0)] = mem'.own[c][<<"area", TrapCx(0)>>]
    <3>1. TrapCx(0) \in Vpn /\ mem.own[p][<<"area", TrapCx(0)>>] # None
      BY <1>2, UserFacts DEF TrapInv, ThreadsInv
    <3>2. TrapCx(0) \in Pages(p, "area")
      BY <3>1 DEF Pages
    <3> QED BY <2>10, <2>13, <2>17, <3>1, <3>2 DEF There
  <2>19. 0 \in Tid
    BY UserFacts
  <2>20. /\ state' \in [Proc -> {"none", "live", "zombie"}] /\ state'[c] = "live"
         /\ \A q \in Proc \ {c} : state'[q] = state[q]
    BY <1>2, <2>1 DEF TypeOK
  <2>21. /\ threads' \in [Proc -> SUBSET Tid] /\ threads'[c] = {0} /\ \A q \in Proc \ {c} : threads'[q] = threads[q]
    BY <1>2, <2>1, <2>19 DEF TypeOK
  <2>22. /\ tasks' \in [Proc -> [Tid -> Kid \cup {None}]] /\ tasks'[c][0] = k
         /\ \A t \in Tid \ {0} : tasks'[c][t] = None
         /\ \A q \in Proc \ {c} : tasks'[q] = tasks[q]
    BY <1>2, <1>3, <1>4, <2>1, <2>19 DEF TypeOK
  <2>23. /\ tasks_len' \in [Proc -> Nat] /\ tasks_len'[c] = 1 /\ \A q \in Proc \ {c} : tasks_len'[q] = tasks_len[q]
    BY <1>2, <2>1 DEF TypeOK
  <2>24. /\ trap_cx' \in [Proc -> [Tid -> Frame \cup {None}]] /\ trap_cx'[c][0] = mem'.pte[c][TrapCx(0)]
         /\ \A q \in Proc \ {c} : trap_cx'[q] = trap_cx[q]
    <3>1. mem'.pte[c][TrapCx(0)] \in Frame
      BY <2>18
    <3> QED BY <1>2, <2>1, <2>19, <3>1 DEF TypeOK
  <2>25. /\ heap_end' \in [Proc -> Nat] /\ mmap_end' \in [Proc -> Nat] /\ heap_end'[c] = HEAP_BASE
         /\ \A q \in Proc \ {c} : heap_end'[q] = heap_end[q]
    BY <1>2, <2>1, MemoryConstants DEF TypeOK
  <2>26. TcbInv(c)'
    <3>1. k # None
      BY SMTT(30), <1>4, MemoryConstants DEF Kid
    <3>2. \A t \in Tid : tasks'[c][t] # None => t = 0
      BY <2>22
    <3> QED BY <2>17, <2>19, <2>22, <3>1, <3>2 DEF TcbInv, Owned
  <2>27. TrapInv(c)'
    BY <2>18, <2>21, <2>24, NoneIsNoFrame DEF TrapInv
  <2>28. ThreadsInv(c)'
    BY SMTT(30), <2>21, <2>23 DEF ThreadsInv
  <2>29. HeapInv(c)'
    BY <2>25, NoHeap
  <2>30. Reach(mem', c, unmapped'[c])
    <3>1. Reach(b, c, unmapped'[c])
      BY <2>14
    <3> QED BY SMTT(30), <2>17, <3>1, SameReach
  <2>31. ProcInv(c)'
    BY <2>14, <2>17, <2>20, <2>26, <2>27, <2>28, <2>29, <2>30 DEF ProcInv
  <2>32. TypeOK'
    BY <1>2, <2>1, <2>17, <2>20, <2>21, <2>22, <2>23, <2>24, <2>25, SoundType DEF TypeOK
  <2>33. \A q \in Proc \ {c} : Same(q)
    <3> TAKE q \in Proc \ {c}
    <3>1. mem'.own[q] = mem.own[q] /\ mem'.pte[q] = mem.pte[q]
      BY <2>14, <2>17
    <3>2. heap_end'[q] = heap_end[q] /\ state'[q] = state[q]
      BY <2>20, <2>25
    <3>3. unmapped'[q] = unmapped[q]
      BY <2>1, <1>2 DEF TypeOK
    <3>4. /\ threads'[q] = threads[q] /\ tasks'[q] = tasks[q]
          /\ tasks_len'[q] = tasks_len[q] /\ trap_cx'[q] = trap_cx[q]
      BY <2>21, <2>22, <2>23, <2>24
    <3> QED BY <3>1, <3>2, <3>3, <3>4 DEF Same
  <2> QED BY <2>17, <2>31, <2>32, <2>33, OneProcess
<1> QED BY <1>5, <1>6, <1>7

-----------------------------------------------------------------------------
(* The first process. *)

\* The memory before the first process.
LEMMA EmptySound ==
  /\ Sound(EmptyMem) /\ EmptyMem.current = 0 /\ EmptyMem.recycled = <<>>
  /\ \A p \in Proc, s \in Slot : EmptyMem.own[p][s] = None
  /\ \A p \in Proc, v \in Vpn : EmptyMem.pte[p][v] = None
<1> DEFINE o == [p \in Proc |-> NoFrames]
           e == [p \in Proc |-> NoPages]
           r == <<>>
<1>1. EmptyMem = [current |-> 0, recycled |-> r, own |-> o, pte |-> e]
  BY DEF EmptyMem
<1>2. o \in [Proc -> [Slot -> Frame \cup {None}]] /\ \A p \in Proc, s \in Slot : o[p][s] = None
  BY DEF NoFrames
<1>3. e \in [Proc -> [Vpn -> Frame \cup {None}]] /\ \A p \in Proc, v \in Vpn : e[p][v] = None
  BY DEF NoPages
<1>4. r \in Seq(Frame) /\ Len(r) = 0
  BY SMTT(30)
<1>5. NoDup(r) /\ ToSet(r) = {}
  BY DEF NoDup, ToSet
<1>6. 0 \in 0 .. FRAMES
  BY MemoryConstants
<1> HIDE DEF o, e
<1>7. EmptyMem.current = 0 /\ EmptyMem.recycled = r /\ EmptyMem.own = o /\ EmptyMem.pte = e
  BY <1>1
<1> HIDE DEF r
<1>8. EmptyMem \in Mem
  BY <1>1, <1>2, <1>3, <1>4, <1>6 DEF Mem
<1>9. 0 .. (0 - 1) = {}
  OBVIOUS
<1>10. Sound(EmptyMem)
  BY <1>2, <1>5, <1>7, <1>8, <1>9 DEF Sound
<1> QED BY <1>2, <1>3, <1>7, <1>10 DEF r

\* The memory is enough for the first process.
LEMMA BootBudget ==
  ASSUME NEW k \in Kid
  PROVE  LET B == (NewSpace \cup Slots("area", BootPages) \cup Tables(BootPages)) \cup {Kstack(k)} IN
         B \in SUBSET Slot /\ Fits(EmptyMem, B)
<1> DEFINE S == NewSpace \cup Slots("area", BootPages) \cup Tables(BootPages)
           x == Kstack(k)
<1>1. BootPages \in SUBSET Vpn /\ "area" \in Kinds
  BY UserFacts, MemoryConstants DEF BootPages, Kinds
<1>2. S \in SUBSET Slot
  BY <1>1, NewSpaceFacts, SlotsOf
<1>3. x \in Slot
  BY SlotFacts
<1>4. Count(S) < FRAMES
  BY BootFits
<1> HIDE DEF S, x
<1>5. S \cup {x} \in SUBSET Slot /\ S \in SUBSET (S \cup {x}) /\ (S \cup {x}) \ S \in SUBSET {x} /\ {x} \in SUBSET Slot
  BY <1>2, <1>3
<1> DEFINE D == (S \cup {x}) \ S
<1>6. /\ Count(S) \in Nat /\ Count(D) \in Nat /\ Count(S \cup {x}) = Count(S) + Count(D)
      /\ Count({x}) <= 1 /\ Count({x}) \in Nat
  BY <1>3, <1>5, CountMinus, CountOne
<1>7. Count(S \cup {x}) <= FRAMES
  <2> HIDE DEF D
  <2>1. D \in SUBSET {x}
    BY <1>5 DEF D
  <2>2. Count({x} \ D) \in Nat /\ Count({x}) = Count(D) + Count({x} \ D)
    BY <1>5, <2>1, CountMinus
  <2>3. Count(D) <= 1
    BY <1>6, <2>2
  <2> QED BY <1>4, <1>6, <2>3, NoneIsNoFrame
<1>8. Len(EmptyMem.recycled) + FRAMES - EmptyMem.current = FRAMES
  <2>1. EmptyMem.current = 0 /\ Len(EmptyMem.recycled) = 0
    BY EmptySound
  <2> QED BY SMTT(30), <2>1, NoneIsNoFrame
<1>9. Fits(EmptyMem, S \cup {x})
  BY <1>7, <1>8 DEF Fits
<1>10. S \cup {x} \in SUBSET Slot
  BY <1>2, <1>3
<1> QED BY <1>9, <1>10 DEF S, x

\* ProcessControlBlock::new.
LEMMA InitInv == ASSUME Init PROVE Inv
<1> DEFINE i == InitProc
           k == FreeKid(EmptyMem, i)
           K == {Kstack(k)}
           B == (NewSpace \cup Slots("area", BootPages) \cup Tables(BootPages)) \cup K
           V == User(0)
           a == Loaded(EmptyMem, i)
           b == Map(a, i, "area", V)
<1>1. i \in Proc /\ "area" \in Kinds /\ 0 \in Tid
  BY MemoryConstants DEF Kinds
<1>2. FreeKids(EmptyMem, i) # {}
  <2>1. 0 \in Kid
    BY SMTT(30), BootFits, MemoryConstants DEF Kid
  <2> QED BY <1>1, <2>1, EmptySound, SlotFacts DEF FreeKids
<1>3. k \in Kid /\ EmptyMem.own[i][Kstack(k)] = None
  BY <1>2, FreeKidFacts
<1>4. B \in SUBSET Slot /\ Fits(EmptyMem, B)
  BY <1>3, BootBudget
<1>5. /\ ProgramSlots \subseteq B /\ Slots("area", V) \subseteq B /\ Tables(V) \subseteq B /\ K \subseteq B
      /\ Kstack(k) \in K
  BY DEF ProgramSlots, BootPages, Slots, Tables
<1>6. V \in SUBSET Vpn /\ V \cap Program = {} /\ TrapCx(0) \in V
  BY <1>1, UserFacts, BootFits
<1>7. /\ mem = NewThread(a, i, V)
      /\ heap_end = [p \in Proc |-> HEAP_BASE]
      /\ mmap_end = [p \in Proc |-> MMAP_BASE]
      /\ state = [p \in Proc |-> IF p = i THEN "live" ELSE "none"]
      /\ threads = [p \in Proc |-> IF p = i THEN {0} ELSE {}]
      /\ tasks = [p \in Proc |-> [t \in Tid |-> IF t \in threads[p] THEN FreeKid(EmptyMem, p) ELSE None]]
      /\ tasks_len = [p \in Proc |-> IF p = i THEN 1 ELSE 0]
      /\ trap_cx = [p \in Proc |-> [t \in Tid |-> IF t \in threads[p] THEN mem.pte[p][TrapCx(0)] ELSE None]]
      /\ unmapped = [p \in Proc |-> {}]
      /\ halt = "no"
  BY DEF Init, TrapFrame
<1> HIDE DEF V, B
<1>8. Blank(EmptyMem, i) /\ \A s \in NewSpace : EmptyMem.own[i][s] = None
  BY SMTT(30), <1>1, EmptySound, NewSpaceFacts, SlotFacts DEF Blank
<1>9. Budget(EmptyMem, i, B)
  BY <1>4, EmptySound, BudgetFromFits
<1>10. Fresh(EmptyMem, a, i, Program) /\ Budget(a, i, B)
  BY <1>1, <1>4, <1>5, <1>8, <1>9, EmptySound, LoadedFresh
<1> HIDE DEF a
<1>11. Sound(a) /\ \A j \in Kid : a.own[i][Kstack(j)] = EmptyMem.own[i][Kstack(j)]
  <2> HIDE DEF i
  <2>1. Fresh(EmptyMem, a, i, Program)
    BY <1>10
  <2> QED BY <2>1, FreshKeeps
<1>12. FreeKid(a, i) = k
  <2> HIDE DEF i
  <2> QED BY <1>11, SameFreeKid
<1>13. mem = Grab(b, i, K)
  BY <1>7, <1>12 DEF NewThread
<1> HIDE DEF k
<1>14. Mapped(a, b, i, "area", V) /\ Budget(b, i, B)
  <2>1. \A v \in V : a.own[i][<<"area", v>>] = None
    BY <1>1, <1>6, <1>10 DEF Fresh
  <2> QED BY <1>1, <1>4, <1>5, <1>6, <1>10, <1>11, <2>1, MapBudget
<1> HIDE DEF b
<1>15. Fresh(EmptyMem, b, i, Program \cup V) /\ There(b, i, "area", V)
  BY <1>1, <1>6, <1>10, <1>14, MapFresh
<1>16. /\ Sound(b) /\ \A q \in Proc \ {i} : b.own[q] = EmptyMem.own[q] /\ b.pte[q] = EmptyMem.pte[q]
       /\ b.own[i][Bare] = EmptyMem.own[i][Bare] /\ \A j \in Kid : b.own[i][Kstack(j)] = EmptyMem.own[i][Kstack(j)]
       /\ \A U : Reach(b, i, U)
  BY <1>15, FreshKeeps
<1>17. Fits(b, K)
  <2> DEFINE C == {s \in B : b.own[i][s] = None}
  <2>1. b.own[i][Kstack(k)] = None
    BY <1>3, <1>16
  <2>2. K \in SUBSET C /\ C \in SUBSET Slot
    BY <1>4, <1>5, <2>1
  <2>3. Fits(b, C)
    BY <1>14 DEF Budget
  <2> HIDE DEF C, K
  <2> QED BY <1>16, <2>2, <2>3, FitsPart
<1>18. Stacked(b, mem, i, k)
  BY <1>1, <1>3, <1>13, <1>16, <1>17, StackGrabbed
<1>19. /\ Sound(mem) /\ \A q \in Proc \ {i} : mem.own[q] = b.own[q] /\ mem.pte[q] = b.pte[q]
       /\ mem.own[i][Kstack(k)] # None
       /\ \A j \in Kinds, v \in Vpn : mem.own[i][<<j, v>>] = b.own[i][<<j, v>>]
       /\ \A v \in Vpn : mem.pte[i][v] = b.pte[i][v]
       /\ mem.own[i][Bare] = b.own[i][Bare]
  BY <1>18 DEF Stacked
<1>20. mem.own[i][<<"area", TrapCx(0)>>] \in Frame /\ mem.pte[i][TrapCx(0)] = mem.own[i][<<"area", TrapCx(0)>>]
  <2>1. TrapCx(0) \in Vpn
    BY <1>6
  <2> QED BY <1>1, <1>6, <1>15, <1>19, <2>1 DEF There
<1>21. threads[i] = {0} /\ \A q \in Proc \ {i} : threads[q] = {}
  BY <1>1, <1>7
<1>22. /\ tasks[i][0] = k /\ \A t \in Tid \ {0} : tasks[i][t] = None
       /\ \A q \in Proc \ {i} : tasks[q] = [t \in Tid |-> None]
  BY <1>1, <1>7, <1>21 DEF k
<1>23. tasks_len[i] = 1 /\ \A q \in Proc \ {i} : tasks_len[q] = 0
  BY <1>1, <1>7
<1>24. trap_cx[i][0] = mem.pte[i][TrapCx(0)]
  BY <1>1, <1>7, <1>21
<1>25. TypeOK
  <2>1. mem \in Mem
    BY <1>19, SoundType
  <2>2. threads \in [Proc -> SUBSET Tid]
    BY <1>1, <1>7
  <2>3. tasks \in [Proc -> [Tid -> Kid \cup {None}]]
    <3>1. \A q \in Proc, t \in Tid : t \in threads[q] => q = i
      BY <1>21
    <3>2. \A q \in Proc, t \in Tid : (IF t \in threads[q] THEN FreeKid(EmptyMem, q) ELSE None) \in Kid \cup {None}
      BY <1>3, <3>1 DEF k
    <3> QED BY <1>7, <3>2
  <2>4. tasks_len \in [Proc -> Nat]
    <3>1. \A q \in Proc : tasks_len[q] \in Nat
      BY SMTT(30), <1>23
    <3>2. tasks_len = [q \in Proc |-> tasks_len[q]]
      BY <1>7
    <3> QED BY <3>1, <3>2
  <2>5. trap_cx \in [Proc -> [Tid -> Frame \cup {None}]]
    <3>1. \A q \in Proc, t \in Tid : t \in threads[q] => q = i
      BY <1>21
    <3>2. \A q \in Proc, t \in Tid : (IF t \in threads[q] THEN mem.pte[q][TrapCx(0)] ELSE None) \in Frame \cup {None}
      BY <1>20, <3>1
    <3> QED BY <1>7, <3>2
  <2>6. heap_end \in [Proc -> Nat] /\ mmap_end \in [Proc -> Nat]
    BY <1>7, MemoryConstants
  <2>7. unmapped \in [Proc -> SUBSET Vpn] /\ state \in [Proc -> {"none", "live", "zombie"}] /\ halt = "no"
    BY <1>7
  <2> QED BY <2>1, <2>2, <2>3, <2>4, <2>5, <2>6, <2>7 DEF TypeOK
<1>26. ProcInv(i)
  <2>1. k # None
    BY SMTT(30), <1>3, MemoryConstants DEF Kid
  <2>2. \A t \in Tid : tasks[i][t] # None => t = 0
    BY <1>22
  <2>3. TcbInv(i)
    BY <1>1, <1>19, <1>22, <2>1, <2>2 DEF TcbInv, Owned
  <2>4. TrapInv(i)
    BY <1>20, <1>21, <1>24, NoneIsNoFrame DEF TrapInv
  <2>5. ThreadsInv(i)
    BY <1>21, <1>23 DEF ThreadsInv
  <2>6. HeapInv(i)
    <3>1. heap_end[i] = HEAP_BASE /\ HEAP_BASE \in Nat
      BY <1>1, <1>7, MemoryConstants
    <3>2. \A v \in Vpn : v * PAGE_SIZE \in Nat
      BY SMTT(30), MemoryConstants, TimesSucc DEF Vpn
    <3>3. \A x \in Nat : ~(HEAP_BASE <= x /\ x < HEAP_BASE)
      BY <3>1
    <3> QED BY <3>1, <3>2, <3>3 DEF HeapInv
  <2>7. Reach(mem, i, unmapped[i])
    <3>1. Reach(b, i, unmapped[i])
      BY <1>16
    <3> QED BY <1>19, <3>1, SameReach
  <2>8. mem.own[i][Bare] = None /\ state[i] = "live"
    BY <1>1, <1>7, <1>16, <1>19, EmptySound, SlotFacts
  <2> QED BY <2>3, <2>4, <2>5, <2>6, <2>7, <2>8 DEF ProcInv
<1>27. \A q \in Proc \ {i} : ProcInv(q)
  <2> TAKE q \in Proc \ {i}
  <2>1. mem.own[q] = EmptyMem.own[q] /\ mem.pte[q] = EmptyMem.pte[q]
    BY <1>16, <1>19
  <2>2. NoSpace(mem, q) /\ mem.own[q][Bare] = None
    BY SMTT(30), <2>1, EmptySound, SlotFacts DEF NoSpace
  <2>3. Blank(mem, q)
    BY SMTT(30), <2>1, EmptySound, SlotFacts DEF Blank
  <2>4. state[q] = "none" /\ threads[q] = {} /\ tasks[q] = [t \in Tid |-> None]
    BY <1>7, <1>21, <1>22
  <2> QED BY <2>2, <2>3, <2>4 DEF ProcInv, TcbInv, TrapInv
<1> QED BY <1>19, <1>25, <1>26, <1>27 DEF Inv

-----------------------------------------------------------------------------
(* The theorems. *)

\* All actions of a process.
LEMMA StepInv == ASSUME Inv, NEW p \in Proc, Step(p) PROVE Inv'
<1>1. ASSUME NEW a \in Breaks, BrkWithin(p, a) \/ BrkGrow(p, a) PROVE Inv'
  BY <1>1, BrkWithinInv, BrkGrowInv
<1>2. ASSUME NEW a \in Addr \cup {0}, NEW n \in Lens, MmapAnonymous(p, a, n) \/ \E o \in Offsets : MmapFile(p, a, n, o)
      PROVE  Inv'
  BY <1>2, MmapInv
<1>3. ASSUME NEW a \in Addr, NEW n \in Lens, Munmap(p, a, n) PROVE Inv'
  BY <1>3, MunmapInv
<1>4. ASSUME NEW c \in Proc, Fork(p, c) PROVE Inv'
  BY <1>4, ForkInv
<1>5. ASSUME Exec(p) \/ Reap(p) PROVE Inv'
  BY <1>5, ExecInv, ReapInv
<1>6. ASSUME NEW t \in Tid, CloneThread(p, t) \/ ExitThread(p, t) \/ WaitTid(p, t) PROVE Inv'
  BY <1>6, CloneThreadInv, ExitThreadInv, WaitTidInv
<1>7. ASSUME NEW held \in SUBSET Tid, ExitMain(p, held) PROVE Inv'
  BY <1>7, ExitMainInv
<1> QED BY <1>1, <1>2, <1>3, <1>4, <1>5, <1>6, <1>7 DEF Step

\* Steps that change nothing.
LEMMA StutterInv == ASSUME Inv, UNCHANGED vars PROVE Inv'
<1>1. UNCHANGED <<mem, bounds, state, tcbs>> /\ halt' = halt
  BY DEF vars
<1>2. TypeOK'
  BY <1>1 DEF Inv, TypeOK, bounds, tcbs
<1>3. \A q \in Proc : Same(q)
  BY <1>1 DEF Same, bounds, tcbs
<1> QED BY <1>1, <1>2, <1>3, SameKeeps DEF Inv

\* The invariant is inductive.
LEMMA NextInv == ASSUME Inv, [Next]_vars PROVE Inv'
BY StepInv, StutterInv DEF Next, Halted

\* The invariant always holds.
LEMMA Invariance == Spec => []Inv
<1>1. Init => Inv
  BY InitInv
<1>2. Inv /\ [Next]_vars => Inv'
  BY NextInv
<1> QED BY <1>1, <1>2, PTL DEF Spec

\* A sound memory accounts for all frames.
LEMMA SoundAccounts == Inv => FramesAccounted
<1> SUFFICES ASSUME Inv PROVE FramesAccounted
  OBVIOUS
<1> DEFINE own(x) == mem.own[x[1]][x[2]]
           owned == {own(x) : x \in Trackers}
           rec == ToSet(mem.recycled)
           below == 0 .. mem.current - 1
<1>1. TypeOK /\ Sound(mem)
  BY DEF Inv
<1>2. /\ NoDup(mem.recycled) /\ rec \subseteq below
      /\ \A p \in Proc, s \in Slot : mem.own[p][s] # None =>
           mem.own[p][s] \in below /\ mem.own[p][s] \notin rec
      /\ \A p, q \in Proc, r, s \in Slot :
           mem.own[p][r] # None /\ mem.own[p][r] = mem.own[q][s] => p = q /\ r = s
      /\ \A f \in below : f \in rec \/ \E p \in Proc, s \in Slot : mem.own[p][s] = f
  BY <1>1 DEF Sound
<1>3. \A x \in Trackers : x[1] \in Proc /\ x[2] \in Slot /\ own(x) # None /\ x = <<x[1], x[2]>>
  BY DEF Trackers, Owned
<1>4. \A p \in Proc, s \in Slot : mem.own[p][s] # None => <<p, s>> \in Trackers /\ own(<<p, s>>) = mem.own[p][s]
  BY DEF Trackers, Owned
<1> HIDE DEF rec, below
<1>5. \A x \in Trackers : own(x) \in below /\ own(x) \notin rec
  BY <1>2, <1>3
<1>6. \A x, y \in Trackers : own(x) = own(y) => x = y
  <2> SUFFICES ASSUME NEW x \in Trackers, NEW y \in Trackers, own(x) = own(y) PROVE x = y
    OBVIOUS
  <2> DEFINE p == x[1]
             r == x[2]
             q == y[1]
             s == y[2]
  <2>1. /\ p \in Proc /\ r \in Slot /\ x = <<p, r>> /\ q \in Proc /\ s \in Slot /\ y = <<q, s>>
        /\ mem.own[p][r] # None /\ mem.own[p][r] = mem.own[q][s]
    BY <1>3
  <2> HIDE DEF p, r, q, s
  <2>2. p = q /\ r = s
    BY SMTT(30), <1>2, <2>1
  <2> QED BY <2>1, <2>2
<1>7. \A f \in below : f # None
  BY SMTT(30), MemoryConstants DEF below
<1>8. \A f \in below : f \in rec \/ \E x \in Trackers : own(x) = f
  <2> SUFFICES ASSUME NEW f \in below, f \notin rec PROVE \E x \in Trackers : own(x) = f
    OBVIOUS
  <2>1. PICK p \in Proc, s \in Slot : mem.own[p][s] = f
    BY <1>2
  <2> DEFINE x == <<p, s>>
  <2>2. x \in Trackers /\ own(x) = f
    BY <1>4, <1>7, <2>1
  <2> HIDE DEF x, own
  <2> QED BY <2>2
<1>9. owned \cap rec = {} /\ owned \cup rec = below
  <2> HIDE DEF own
  <2> QED BY <1>2, <1>5, <1>8
<1> QED BY <1>1, <1>2, <1>6, <1>9 DEF FramesAccounted, rec, below

\* No frame is lost or owned twice, whatever forks, execs, exits, mappings and
\* panics come in whatever order: StackFrameAllocator::dealloc never meets a
\* frame that it has not given out or has already got back.
THEOREM FramesAlwaysAccounted == Spec => []FramesAccounted
BY Invariance, SoundAccounts, PTL

\* The frame that the kernel tracks for a page of a live process is the one
\* that its page table shows to the user, and the table shows no others but
\* those of pages that munmap has left in it.
THEOREM UserReachesOwnFrames == Spec => []ReachesOwnFrames
<1>1. Inv => ReachesOwnFrames
  BY DEF Inv, ProcInv, Reach, ReachesOwnFrames, Owned, Kinds
<1> QED BY <1>1, Invariance, PTL

\* The heap has all the pages up to the break that sys_brk reports.
THEOREM HeapAlwaysCovered == Spec => []HeapCovered
<1>1. Inv => HeapCovered
  BY DEF Inv, ProcInv, HeapInv, HeapCovered
<1> QED BY <1>1, Invariance, PTL

\* The cached trap_cx_ppn of a thread is the frame of its trap context.
THEOREM TrapContextsValid == Spec => []TrapContextValid
<1>1. Inv => TrapContextValid
  BY DEF Inv, ProcInv, TrapInv, TrapContextValid
<1> QED BY <1>1, Invariance, PTL

\* Every TCB has a kernel stack of its own, also after a tid was used again.
THEOREM KstacksOwned == Spec => []KstackOwned
<1>1. Inv => KstackOwned
  BY DEF Inv, ProcInv, TcbInv, KstackOwned
<1> QED BY <1>1, Invariance, PTL
=============================================================================
