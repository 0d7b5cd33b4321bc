----------------------------- MODULE MemorySet ------------------------------
(***************************************************************************)
(* User address spaces and physical frames: kernel/src/mm/{memory_set,     *)
(* page_table, frame_allocator}.rs with the system calls and the process   *)
(* operations that change them (brk, mmap, munmap, fork, exec, clone,      *)
(* exit, wait4, waittid).                                                  *)
(*                                                                         *)
(* A FrameTracker is a slot that owns a frame: a page of the heap, of mmap *)
(* or of an area, or a node of a page table.  Page tables have two levels  *)
(* here, a root and tables of PTES entries, and no permissions, so that    *)
(* mprotect changes nothing.  A kernel stack is a slot of its process, of  *)
(* one frame, outside of the user's page table.                            *)
(***************************************************************************)
EXTENDS Queue, FiniteSets

CONSTANTS
  Proc, InitProc,           \* processes, and the first one
  None,
  FRAMES,                   \* number of frames: MEMORY_END - ekernel
  PAGE_SIZE, PTES,          \* bytes per page, entries per table
  MAX_VPN,                  \* bound of the model on page numbers
  Program,                  \* pages of the loadable segments
  HEAP_BASE,                \* address, aligned: a page above the program
  MMAP_BASE,                \* address, aligned
  STACK,                    \* page of the user stack of the main thread
  TRAP_CONTEXT,             \* page of the trap context of the main thread
  Tid,                      \* threads of a process: 0 is the main one
  KSTACKS,                  \* bound of the model on kernel stacks per process
  Breaks, Addr, Lens,       \* arguments of brk; addresses and lengths of mmap
  Offsets, FileLen,         \* offsets into, and length of, the file to map
  SlotOrder                 \* order in which a step takes or drops trackers

Vpn == 0 .. MAX_VPN
Frame == 0 .. FRAMES - 1
Kid == 0 .. KSTACKS - 1
Root == <<"root", 0>>
Bare == <<"bare", 0>>       \* the root that exec makes before it frees memory

TrapCx(t) == TRAP_CONTEXT - t
Table(v) == <<"table", v - (v % PTES)>>
Ceil(a) == (a + PAGE_SIZE - 1) \div PAGE_SIZE
Floor(a) == a \div PAGE_SIZE
Slots(kind, V) == {kind} \X V
Tables(V) == {Table(v) : v \in V}
Slot == ({"heap", "mmap", "area"} \X Vpn) \cup Tables(Vpn) \cup ({"kstack"} \X Kid) \cup {Root, Bare}
Trampolines == {TRAP_CONTEXT + 1, TRAP_CONTEXT + 2}

ASSUME MemoryConstants ==
  /\ InitProc \in Proc
  /\ FRAMES \in Nat /\ KSTACKS \in Nat /\ MAX_VPN \in Nat /\ PAGE_SIZE \in Nat \ {0} /\ PTES \in Nat \ {0}
  /\ None \notin Nat
  /\ SlotOrder \in Seq(Slot) /\ NoDup(SlotOrder) /\ ToSet(SlotOrder) = Slot
  /\ Program \subseteq Vpn /\ STACK \in Vpn /\ Trampolines \subseteq Vpn
  /\ HEAP_BASE \in Nat /\ MMAP_BASE \in Nat /\ Breaks \subseteq Nat /\ Addr \subseteq Nat /\ Lens \subseteq Nat
  /\ Offsets \subseteq Nat /\ FileLen \in Nat
  /\ TRAP_CONTEXT \in Nat /\ IsFiniteSet(Tid) /\ Tid \subseteq Nat /\ 0 \in Tid /\ \A t \in Tid : TrapCx(t) \in Vpn

VARIABLES
  mem,          \* the frame allocator, the trackers and the page tables
  heap_end, mmap_end,
  state,        \* "none", "live" or "zombie"
  threads,      \* the threads that have not exited
  tasks,        \* the kernel stack of the TCB in tasks[tid], or None
  tasks_len,    \* tasks.len()
  trap_cx,      \* trap_cx_ppn of a thread
  unmapped,     \* history: pages that munmap took from the process
  halt          \* "no", or why the kernel stopped

bounds == <<heap_end, mmap_end, unmapped>>
tcbs == <<threads, tasks, tasks_len, trap_cx>>
vars == <<mem, bounds, state, tcbs, halt>>

-----------------------------------------------------------------------------
(* Operations on mem = [current, recycled, own, pte]. *)

NoFrames == [s \in Slot |-> None]
NoPages == [v \in Vpn |-> None]
EmptyMem == [current |-> 0, recycled |-> <<>>,
             own |-> [p \in Proc |-> NoFrames], pte |-> [p \in Proc |-> NoPages]]

\* The slots S in their order, and how many there are.
List(S) == Without(SlotOrder, Slot \ S)
Count(S) == Len(List(S))

\* StackFrameAllocator::alloc, the k-th time in a row.
Taken(m, k) ==
  LET n == Len(m.recycled)
  IN  IF k <= n THEN m.recycled[n + 1 - k] ELSE m.current + k - n - 1
Fits(m, S) == Count(S) <= Len(m.recycled) + FRAMES - m.current

\* New trackers for the slots S of p.
Grab(m, p, S) ==
  LET l == List(S)
      n == Len(m.recycled)
      k == Len(l)
  IN [m EXCEPT !.recycled = IF k <= n THEN SubSeq(@, 1, n - k) ELSE <<>>,
               !.current = IF k <= n THEN @ ELSE @ + k - n,
               !.own[p] = [s \in Slot |->
                 IF s \in S THEN Taken(m, CHOOSE i \in 1 .. k : l[i] = s) ELSE @[s]]]

\* Mutant: the trackers only cover their frames.
DropCovered(m, p, S) ==
  [m EXCEPT !.own[p] = [s \in Slot |-> IF s \in S THEN None ELSE @[s]]]

\* The trackers of the slots S of p are dropped: frame_dealloc.
Drop(m, p, S) ==
  LET l == List({s \in S : m.own[p][s] # None})
  IN [m EXCEPT !.recycled = @ \o [i \in DOMAIN l |-> m.own[p][l[i]]],
               !.own[p] = [s \in Slot |-> IF s \in S THEN None ELSE @[s]]]

\* PageTable::map of the pages V under their trackers of this kind, with the
\* tables that find_pte_create adds.
Needed(m, p, kind, V) ==
  Slots(kind, V) \cup {s \in Tables(V) : m.own[p][s] = None}
Map(m, p, kind, V) ==
  LET n == Grab(m, p, Needed(m, p, kind, V))
  IN  [n EXCEPT !.pte[p] = [v \in Vpn |-> IF v \in V THEN n.own[p][<<kind, v>>] ELSE @[v]]]

\* Mutant: the entries stay.
UnmapTrackers(m, p, V) == Drop(m, p, Slots("area", V))

\* MapArea::unmap, remove_area_with_start_vpn.
Unmap(m, p, V) ==
  [Drop(m, p, Slots("area", V)) EXCEPT !.pte[p] = [v \in Vpn |-> IF v \in V THEN None ELSE @[v]]]

\* The page table is dropped with all trackers.
DropSpace(m, p, S) == [Drop(m, p, S) EXCEPT !.pte[p] = NoPages]

\* MemorySet::new_bare and map_trampoline, map_signaltrampoline.
NewSpace == {Root} \cup Tables(Trampolines)

User(t) == {TrapCx(t)} \cup (IF t = 0 THEN {STACK} ELSE {})
Kstack(k) == <<"kstack", k>>
FreeKids(m, p) == {k \in Kid : m.own[p][Kstack(k)] = None}
FreeKid(m, p) == CHOOSE k \in FreeKids(m, p) : TRUE

\* TaskControlBlock::new: the user pages V, if any, and a kernel stack.
NewThread(m, p, V) == Grab(Map(m, p, "area", V), p, {Kstack(FreeKid(m, p))})

\* from_elf into a space without pages.
Loaded(m, p) == Map(Grab(m, p, NewSpace), p, "area", Program)

\* The program does not overlap with the stack and the trap context, and the
\* memory is enough for the first process with its kernel stack.
BootPages == Program \cup User(0)
ASSUME BootFits ==
  /\ Program \cap User(0) = {}
  /\ Count(NewSpace \cup Slots("area", BootPages) \cup Tables(BootPages)) < FRAMES
  /\ KSTACKS # 0

-----------------------------------------------------------------------------
Panic(why) == halt' = why /\ UNCHANGED <<mem, bounds, state, tcbs>>

\* frame_alloc().unwrap(), for all the frames of the step.
OrPanic(enough, step) == IF enough THEN step ELSE Panic("oom")

\* PageTable::map asserts that the entry is not valid.
Valid(p, v) == mem.pte[p][v] # None \/ v \in Trampolines

\* Mutant: the page of the main thread.
TrapFrameOfMain(m, p, t) == m.pte[p][TrapCx(0)]

\* TaskUserRes::trap_cx_ppn.
TrapFrame(m, p, t) == m.pte[p][TrapCx(t)]

\* ProcessControlBlock::new.
Init ==
  LET m == NewThread(Loaded(EmptyMem, InitProc), InitProc, User(0)) IN
  /\ mem = m
  /\ heap_end = [p \in Proc |-> HEAP_BASE]
  /\ mmap_end = [p \in Proc |-> MMAP_BASE]
  /\ state = [p \in Proc |-> IF p = InitProc THEN "live" ELSE "none"]
  /\ threads = [p \in Proc |-> IF p = InitProc THEN {0} ELSE {}]
  /\ tasks = [p \in Proc |-> [t \in Tid |-> IF t \in threads[p] THEN FreeKid(EmptyMem, p) ELSE None]]
  /\ tasks_len = [p \in Proc |-> IF p = InitProc THEN 1 ELSE 0]
  /\ trap_cx = [p \in Proc |-> [t \in Tid |-> IF t \in threads[p] THEN TrapFrame(m, p, 0) ELSE None]]
  /\ unmapped = [p \in Proc |-> {}]
  /\ halt = "no"

Running(p) == halt = "no" /\ state[p] = "live"

-----------------------------------------------------------------------------
\* sys_brk up to the end of the last page, and down.
BrkWithin(p, addr) ==
  /\ Running(p) /\ HEAP_BASE <= addr /\ addr <= Ceil(heap_end[p]) * PAGE_SIZE
  /\ heap_end' = [heap_end EXCEPT ![p] = addr]
  /\ UNCHANGED <<mem, mmap_end, unmapped, state, tcbs, halt>>

\* Mutant: the new break is rounded down.
HeapPagesFloor(p, addr) == Floor(heap_end[p]) .. Floor(addr) - 1

\* sys_brk beyond it: map_heap goes in steps of a page from heap_end, which
\* may lie inside a page.
HeapPages(p, addr) == Floor(heap_end[p]) .. Ceil(addr) - 1
BrkGrow(p, addr) ==
  LET V == HeapPages(p, addr) IN
  /\ Running(p) /\ Ceil(heap_end[p]) * PAGE_SIZE < addr /\ V \subseteq Vpn
  /\ IF \E v \in V : Valid(p, v) THEN Panic("brk_mapped")
     ELSE OrPanic(Fits(mem, Needed(mem, p, "heap", V)),
            /\ mem' = Map(mem, p, "heap", V)
            /\ heap_end' = [heap_end EXCEPT ![p] = Ceil(addr) * PAGE_SIZE]
            /\ UNCHANGED <<mmap_end, unmapped, state, tcbs, halt>>)

\* MemorySet::mmap of len bytes at start with MAP_FIXED, or (start = 0) at
\* mmap_end; MAP_FIXED keeps the pages that mmap_area has.
MmapStart(p, start) == IF start # 0 THEN start ELSE mmap_end[p]
MmapPages(p, start, len) ==
  Ceil(MmapStart(p, start)) .. Ceil(MmapStart(p, start) + len) - 1
NewPages(p, start, len) ==
  {v \in MmapPages(p, start, len) : start = 0 \/ mem.own[p][<<"mmap", v>>] = None}

\* The copy of the contents of a file from offset on, page by page from the
\* first page: it panics if the slice ends before it starts, or if a page it
\* writes to is not there (for an empty slice: if its table is not).
CopyFails(p, start, len, offset) ==
  LET first == Ceil(MmapStart(p, start))
      there == NewPages(p, start, len)
  IN  \/ offset > len
      \/ offset = len /\ first \notin there /\ mem.own[p][Table(first)] = None
      \/ \E v \in (first .. first + Ceil(len - offset) - 1) \ there : ~ Valid(p, v)

MmapLen(p, start, len, fails) ==
  LET V == NewPages(p, start, len) IN
  /\ MmapPages(p, start, len) \subseteq Vpn
  /\ IF \E v \in V : Valid(p, v) THEN Panic("mmap_mapped")
     ELSE OrPanic(Fits(mem, Needed(mem, p, "mmap", V)),
            IF fails THEN Panic("mmap_copy")
            ELSE /\ mem' = Map(mem, p, "mmap", V)
                 /\ mmap_end' = [mmap_end EXCEPT
                      ![p] = (Ceil(MmapStart(p, start) + len) + 1) * PAGE_SIZE]
                 /\ UNCHANGED <<heap_end, unmapped, state, tcbs, halt>>)

\* sys_mmap, anonymous or of a file of FileLen bytes.
MmapAnonymous(p, start, len) == Running(p) /\ MmapLen(p, start, len, FALSE)
MmapFile(p, start, len, offset) ==
  LET length == IF len <= FileLen - offset THEN len ELSE FileLen - offset IN
  /\ Running(p) /\ offset < FileLen /\ Ceil(MmapStart(p, start)) \in Vpn
  /\ MmapLen(p, start, length, CopyFails(p, start, length, offset))

\* sys_munmap drops the trackers and leaves the page table alone.
Munmap(p, start, len) ==
  LET V == {v \in Vpn : Ceil(start) <= v /\ v < Ceil(start + len)} IN
  /\ Running(p)
  /\ mem' = Drop(mem, p, Slots("mmap", V))
  /\ unmapped' = [unmapped EXCEPT ![p] = @ \cup {v \in V : mem.own[p][<<"mmap", v>>] # None}]
  /\ UNCHANGED <<heap_end, mmap_end, state, tcbs, halt>>

-----------------------------------------------------------------------------
\* from_existed_user: c gets a page for every tracked page of p.
Pages(p, kind) == {v \in Vpn : mem.own[p][<<kind, v>>] # None}
Copied(p, c) ==
  LET areas == Map(Grab(mem, c, NewSpace), c, "area", Pages(p, "area"))
  IN  Map(Map(areas, c, "heap", Pages(p, "heap")), c, "mmap", Pages(p, "mmap"))
CopiedSlots(p) ==
  LET S == UNION {Slots(kind, Pages(p, kind)) : kind \in {"area", "heap", "mmap"}}
  IN  NewSpace \cup S \cup Tables({s[2] : s \in S})

\* ProcessControlBlock::fork: only of a process with a single task.
Fork(p, c) ==
  LET m == NewThread(Copied(p, c), c, {}) IN
  /\ Running(p) /\ state[c] = "none" /\ FreeKids(mem, c) # {}
  /\ IF tasks_len[p] # 1 THEN Panic("threads")
     ELSE OrPanic(Fits(mem, CopiedSlots(p) \cup {Kstack(FreeKid(mem, c))}),
            /\ mem' = m
            /\ heap_end' = [heap_end EXCEPT ![c] = HEAP_BASE]
            /\ mmap_end' = [mmap_end EXCEPT ![c] = mmap_end[p]]
            /\ state' = [state EXCEPT ![c] = "live"]
            /\ threads' = [threads EXCEPT ![c] = {0}]
            /\ tasks' = [tasks EXCEPT ![c][0] = FreeKid(mem, c)]
            /\ tasks_len' = [tasks_len EXCEPT ![c] = 1]
            /\ trap_cx' = [trap_cx EXCEPT ![c][0] = TrapFrame(m, c, 0)]
            /\ UNCHANGED <<unmapped, halt>>)

\* ProcessControlBlock::exec: the old space goes before the program is loaded,
\* the bare one after it; then the user pages of the only thread.
Exec(p) ==
  LET freed == DropSpace(Grab(mem, p, {Bare}), p, {s \in Slot : s # Bare /\ s[1] # "kstack"})
      loaded == Drop(Loaded(freed, p), p, {Bare})
      m == Map(loaded, p, "area", User(0))
  IN
  /\ Running(p)
  /\ IF tasks_len[p] # 1 THEN Panic("threads")
     ELSE OrPanic(/\ Fits(mem, {Bare})
                  /\ Fits(freed, NewSpace \cup Slots("area", Program) \cup Tables(Program))
                  /\ Fits(loaded, Needed(loaded, p, "area", User(0))),
            /\ mem' = m
            /\ heap_end' = [heap_end EXCEPT ![p] = HEAP_BASE]
            /\ mmap_end' = [mmap_end EXCEPT ![p] = MMAP_BASE]
            /\ trap_cx' = [trap_cx EXCEPT ![p][0] = TrapFrame(m, p, 0)]
            /\ unmapped' = [unmapped EXCEPT ![p] = {}]
            /\ UNCHANGED <<state, threads, tasks, tasks_len, halt>>)

\* Mutant: the new TCB is dropped instead.
DropNewTcb(m, p, t) == Drop(m, p, {Kstack(FreeKid(mem, p))})

\* The TCB in tasks[t] is dropped with its kernel stack.
DropTcb(m, p, t) == Drop(m, p, {Kstack(k) : k \in {tasks[p][t]} \ {None}})

\* clone2 with CLONE_THREAD: a tid is free once its thread has exited, so that
\* the new TCB may take the place of one that was not waited for.
CloneThread(p, t) ==
  LET m == NewThread(mem, p, User(t)) IN
  /\ Running(p) /\ t \in Tid \ threads[p] /\ FreeKids(mem, p) # {}
  /\ IF Valid(p, TrapCx(t)) THEN Panic("clone_mapped")
     ELSE OrPanic(Fits(mem, {Kstack(FreeKid(mem, p))} \cup Needed(mem, p, "area", User(t))),
            /\ mem' = DropTcb(m, p, t)
            /\ threads' = [threads EXCEPT ![p] = @ \cup {t}]
            /\ tasks' = [tasks EXCEPT ![p][t] = FreeKid(mem, p)]
            /\ tasks_len' = [tasks_len EXCEPT ![p] = IF @ < t + 1 THEN t + 1 ELSE @]
            /\ trap_cx' = [trap_cx EXCEPT ![p][t] = TrapFrame(m, p, t)]
            /\ UNCHANGED <<bounds, state, halt>>)

\* exit_current_and_run_next of a thread other than the main one drops its
\* TaskUserRes; sys_waittid then drops the TCB.
ExitThread(p, t) ==
  /\ Running(p) /\ t \in threads[p] \ {0}
  /\ mem' = Unmap(mem, p, User(t))
  /\ threads' = [threads EXCEPT ![p] = @ \ {t}]
  /\ UNCHANGED <<bounds, state, tasks, tasks_len, trap_cx, halt>>
WaitTid(p, t) ==
  /\ Running(p) /\ t \in Tid \ threads[p] /\ tasks[p][t] # None
  /\ mem' = DropTcb(mem, p, t)
  /\ tasks' = [tasks EXCEPT ![p][t] = None]
  /\ UNCHANGED <<bounds, state, threads, tasks_len, trap_cx, halt>>

\* exit_current_and_run_next of the main thread: the TaskUserRes of all
\* threads, the areas, the TCBs but for those that the block queue holds.
ExitMain(p, held) ==
  LET pages == UNION {User(t) : t \in threads[p]}
      kids == {tasks[p][t] : t \in Tid \ held} \ {None}
  IN
  /\ Running(p) /\ held \subseteq threads[p] \ {0}
  /\ IF p = InitProc THEN Panic("shutdown")
     ELSE /\ mem' = Drop(Drop(Unmap(mem, p, pages), p, Slots("area", Vpn)), p, Slots("kstack", kids))
          /\ state' = [state EXCEPT ![p] = "zombie"]
          /\ threads' = [threads EXCEPT ![p] = {}]
          /\ tasks' = [tasks EXCEPT ![p] = [t \in Tid |-> None]]
          /\ tasks_len' = [tasks_len EXCEPT ![p] = 0]
          /\ UNCHANGED <<bounds, trap_cx, halt>>

\* sys_wait4 drops the PCB: heap, mmap_area, page table.  The block queue keeps
\* its TCBs with their kernel stacks.
Reap(p) ==
  /\ halt = "no" /\ state[p] = "zombie"
  /\ mem' = DropSpace(mem, p, {s \in Slot : s[1] # "kstack"})
  /\ heap_end' = [heap_end EXCEPT ![p] = HEAP_BASE]
  /\ mmap_end' = [mmap_end EXCEPT ![p] = MMAP_BASE]
  /\ unmapped' = [unmapped EXCEPT ![p] = {}]
  /\ state' = [state EXCEPT ![p] = "none"]
  /\ trap_cx' = [trap_cx EXCEPT ![p] = [t \in Tid |-> None]]
  /\ UNCHANGED <<threads, tasks, tasks_len, halt>>

Step(p) ==
  \/ \E a \in Breaks : BrkWithin(p, a) \/ BrkGrow(p, a)
  \/ \E a \in Addr \cup {0}, n \in Lens :
       MmapAnonymous(p, a, n) \/ \E o \in Offsets : MmapFile(p, a, n, o)
  \/ \E a \in Addr, n \in Lens : Munmap(p, a, n)
  \/ \E c \in Proc : Fork(p, c)
  \/ Exec(p) \/ Reap(p)
  \/ \E t \in Tid : CloneThread(p, t) \/ ExitThread(p, t) \/ WaitTid(p, t)
  \/ \E held \in SUBSET Tid : ExitMain(p, held)

Halted == halt # "no" /\ UNCHANGED vars
Next == (\E p \in Proc : Step(p)) \/ Halted
Spec == Init /\ [][Next]_vars

-----------------------------------------------------------------------------
Owned(p, s) == mem.own[p][s] # None
Trackers == {x \in Proc \X Slot : Owned(x[1], x[2])}

Mem == [current : 0 .. FRAMES, recycled : Seq(Frame),
        own : [Proc -> [Slot -> Frame \cup {None}]],
        pte : [Proc -> [Vpn -> Frame \cup {None}]]]

\* Types of the variables; why the kernel may stop.
TypeOK ==
  /\ mem \in Mem
  /\ heap_end \in [Proc -> Nat] /\ mmap_end \in [Proc -> Nat]
  /\ unmapped \in [Proc -> SUBSET Vpn]
  /\ state \in [Proc -> {"none", "live", "zombie"}]
  /\ threads \in [Proc -> SUBSET Tid] /\ tasks \in [Proc -> [Tid -> Kid \cup {None}]]
  /\ tasks_len \in [Proc -> Nat] /\ trap_cx \in [Proc -> [Tid -> Frame \cup {None}]]
  /\ halt \in {"no", "oom", "brk_mapped", "mmap_mapped", "mmap_copy", "clone_mapped", "threads", "shutdown"}

\* The state has its types, the panic of frame_dealloc is unreachable and no
\* frame is lost: the frames below current are the recycled ones, each once, and those of the trackers,
\* each of exactly one.
FramesAccounted ==
  LET owned == {mem.own[x[1]][x[2]] : x \in Trackers} IN
  /\ TypeOK
  /\ NoDup(mem.recycled)
  /\ \A x, y \in Trackers : mem.own[x[1]][x[2]] = mem.own[y[1]][y[2]] => x = y
  /\ owned \cap ToSet(mem.recycled) = {}
  /\ owned \cup ToSet(mem.recycled) = 0 .. mem.current - 1

\* The page table and the trackers agree: the frame that the kernel tracks for
\* a page of a live process is the one that the user sees there (fork copies
\* from one and the program wrote to the other), and the user reaches no other
\* frame but through the pages given to munmap, which leaves their entries valid.
ReachesOwnFrames ==
  \A p \in Proc, v \in Vpn : state[p] = "live" =>
    /\ \A kind \in {"heap", "mmap", "area"} :
         Owned(p, <<kind, v>>) => mem.pte[p][v] = mem.own[p][<<kind, v>>]
    /\ mem.pte[p][v] # None /\ v \notin unmapped[p] =>
         \E kind \in {"heap", "mmap", "area"} : mem.own[p][<<kind, v>>] = mem.pte[p][v]

\* Every page between the base of the heap and the break that sys_brk reports
\* is there, whatever brk calls, forks and execs came before.
HeapCovered ==
  \A p \in Proc, v \in Vpn :
    state[p] = "live" /\ HEAP_BASE <= v * PAGE_SIZE /\ v * PAGE_SIZE < heap_end[p] => Owned(p, <<"heap", v>>)

\* The kernel saves the registers of a thread through trap_cx_ppn, which was
\* read from the page table when the thread was made, and the user's page
\* table leads the trampoline to the same frame.
TrapContextValid ==
  \A p \in Proc : \A t \in threads[p] :
    /\ trap_cx[p][t] # None
    /\ trap_cx[p][t] = mem.own[p][<<"area", TrapCx(t)>>]
    /\ trap_cx[p][t] = mem.pte[p][TrapCx(t)]

\* A kernel stack that is tracked belongs to one TCB, and each TCB has one.
KstackOwned ==
  \A p \in Proc, t \in Tid : tasks[p][t] # None =>
    /\ Owned(p, Kstack(tasks[p][t]))
    /\ \A u \in Tid : tasks[p][u] = tasks[p][t] => u = t
=============================================================================
