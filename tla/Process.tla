------------------------------ MODULE Process -------------------------------
(***************************************************************************)
(* Processes, threads and the scheduler: kernel/src/task/{mod, manager,    *)
(* processor, process, task}.rs with the system calls that change them     *)
(* (clone, exit, wait4, waittid, yield, futex).                            *)
(*                                                                         *)
(* There is one hart and no preemption in the kernel, so a handler runs    *)
(* without interruption until it gives up the hart: one action.  A process *)
(* control block (PCB) is named by its pid, a task control block (TCB) by  *)
(* its kernel-stack slot.  A panic stops the kernel: halt records which.   *)
(***************************************************************************)
EXTENDS Queue

CONSTANTS
  Pid, INITPROC,      \* pids, and the one of the initial process
  Task, InitTask,     \* kernel-stack slots, and the one of the first thread
  Addr,               \* futex words (user addresses)
  MaxThreads,         \* bound of the model on the length of a thread table
  MaxWaiters,         \* bound of the model on the length of a futex queue
  None,               \* absent
  Gone,               \* a Weak<ProcessControlBlock> whose PCB was deallocated
  AnyChild            \* the pid argument -1 of wait4

Tid == 0 .. MaxThreads - 1

ASSUME ProcessConstants ==
  /\ INITPROC \in Pid
  /\ InitTask \in Task
  /\ MaxThreads \in Nat \ {0} /\ MaxWaiters \in Nat
  /\ None \notin Pid /\ None \notin Task /\ None \notin Tid
  /\ Gone \notin Pid /\ Gone # None
  /\ AnyChild \notin Pid /\ AnyChild # None

VARIABLES
  live,               \* the PCBs that exist
  zombie,             \* those with is_zombie
  parent,             \* PCB.parent
  children,           \* PCB.children, without its order
  pid2pcb,            \* PID2PCB
  tasks,              \* PCB.tasks by tid
  tlen,               \* PCB.tasks.len(), also its tid allocator's current
  futex,              \* PCB.futex: the wait queue of each word
  process,            \* TCB.process; None: no such TCB
  tid,                \* TCB.res.tid; None: res was taken, the thread exited
  status,             \* TCB.task_status
  kctx,               \* where the thread is in the kernel, "user": nowhere
  wpid,               \* the pid argument of the wait4 the thread is in
  ready_queue, block_queue,     \* TASK_MANAGER; the latter without its order
  current,            \* PROCESSOR.current
  cpu,                \* the kernel stack the hart runs on, None: the idle one
  halt                \* "no", or why the kernel stopped

pcbVars == <<live, zombie, parent, children, pid2pcb>>
threadVars == <<tasks, tlen, futex, process, tid>>
schedVars == <<status, ready_queue, block_queue, current>>
vars == <<pcbVars, threadVars, kctx, wpid, schedVars, cpu, halt>>

NoThreads == [t \in Tid |-> None]
NoWaiters == [a \in Addr |-> <<>>]
\* kernel-side frames that hold a clone of the thread's own TCB: the local
\* task of block_current_and_run_next.
InBlock(k) == kctx[k] \in {"wait", "futex"}

\* ProcessControlBlock::new for the initial process.
Init ==
  /\ live = {INITPROC} /\ zombie = {} /\ pid2pcb = {INITPROC}
  /\ parent = [p \in Pid |-> None]
  /\ children = [p \in Pid |-> {}]
  /\ tasks = [p \in Pid |-> IF p = INITPROC THEN [NoThreads EXCEPT ![0] = InitTask] ELSE NoThreads]
  /\ tlen = [p \in Pid |-> IF p = INITPROC THEN 1 ELSE 0]
  /\ futex = [p \in Pid |-> NoWaiters]
  /\ process = [k \in Task |-> IF k = InitTask THEN INITPROC ELSE None]
  /\ tid = [k \in Task |-> IF k = InitTask THEN 0 ELSE None]
  /\ status = [k \in Task |-> "Ready"]
  /\ kctx = [k \in Task |-> "user"]
  /\ wpid = [k \in Task |-> None]
  /\ ready_queue = <<InitTask>> /\ block_queue = {}
  /\ current = None /\ cpu = None /\ halt = "no"

-----------------------------------------------------------------------------
\* Some Arc to the TCB of k exists.
Referenced(k) ==
  \/ k = current \/ k \in ToSet(ready_queue) \/ k \in block_queue \/ InBlock(k)
  \/ \E p \in Pid, t \in Tid : tasks[p][t] = k
  \/ \E p \in Pid, a \in Addr : k \in ToSet(futex[p][a])

\* The TCBs left without an Arc are dropped, and their kernel stacks freed.
\* (Everything Referenced depends on is given its new value first.)
DropTcbs(proc) == process' = [k \in Task |-> IF Referenced(k)' THEN proc[k] ELSE None]

Panic(why) ==
  /\ halt' = why
  /\ UNCHANGED <<pcbVars, threadVars, kctx, wpid, schedVars, cpu>>

Running(k) == halt = "no" /\ current = k
InUser(k) == Running(k) /\ kctx[k] = "user"

-----------------------------------------------------------------------------
(* The scheduler. *)

\* run_tasks: one turn of the idle loop that finds a task.
Dispatch ==
  /\ halt = "no" /\ current = None /\ cpu = None /\ ready_queue # <<>>
  /\ LET k == Head(ready_queue) IN
       /\ current' = k /\ cpu' = k
       /\ status' = [status EXCEPT ![k] = "Running"]
  /\ ready_queue' = Tail(ready_queue)
  /\ UNCHANGED <<pcbVars, threadVars, kctx, wpid, block_queue, halt>>

\* run_tasks: nothing is ready, the loop spins.
IdleSpin ==
  /\ halt = "no" /\ current = None /\ cpu = None /\ ready_queue = <<>>
  /\ UNCHANGED vars

\* schedule: __switch leaves the stack of the thread that gave up the hart.
Schedule ==
  /\ halt = "no" /\ current = None /\ cpu # None
  /\ cpu' = None
  /\ UNCHANGED <<pcbVars, threadVars, kctx, wpid, schedVars, halt>>

\* suspend_current_and_run_next puts the task to the front of the queue.
SuspendToFront(k) ==
  /\ status' = [status EXCEPT ![k] = "Ready"]
  /\ ready_queue' = Cons(k, ready_queue)
  /\ current' = None
  /\ UNCHANGED <<pcbVars, threadVars, block_queue, cpu, halt>>

\* suspend_current_and_run_next: to the back of the ready queue.
SuspendCurrent(k) ==
  /\ status' = [status EXCEPT ![k] = "Ready"]
  /\ ready_queue' = Append(ready_queue, k)
  /\ current' = None
  /\ UNCHANGED <<pcbVars, threadVars, block_queue, cpu, halt>>

\* block_current_and_run_next.
BlockCurrent(k) ==
  /\ status' = [status EXCEPT ![k] = "Blocked"]
  /\ block_queue' = block_queue \cup {k}
  /\ current' = None
  /\ UNCHANGED <<ready_queue, cpu, halt>>

\* unblock_task(m): to the front of the ready queue, if it is blocked at all.
UnblockStatus(m) == [k \in Task |-> IF k = m THEN "Ready" ELSE status[k]]
UnblockReady(m) == IF m \in block_queue THEN Cons(m, ready_queue) ELSE ready_queue

\* trap_handler, SupervisorTimer.
TimerInterrupt(k) == InUser(k) /\ SuspendCurrent(k) /\ UNCHANGED <<kctx, wpid>>

\* sys_yield, and what follows when the thread is scheduled again.
Yield(k) ==
  /\ InUser(k)
  /\ kctx' = [kctx EXCEPT ![k] = "yield"]
  /\ SuspendCurrent(k)
  /\ UNCHANGED wpid
YieldResume(k) == Running(k) /\ kctx[k] = "yield" /\ Panic("sys_yield")

-----------------------------------------------------------------------------
(* Creation of processes and threads. *)

\* TaskControlBlock::new and add_task, for the thread t of p in slot k.
NewTcb(k, p, t) ==
  /\ tid' = [tid EXCEPT ![k] = t]
  /\ status' = [status EXCEPT ![k] = "Ready"]
  /\ kctx' = [kctx EXCEPT ![k] = "user"]
  /\ wpid' = [wpid EXCEPT ![k] = None]
  /\ ready_queue' = Append(ready_queue, k)

\* ProcessControlBlock::fork, reached through sys_clone without CLONE_THREAD.
Fork(k) ==
  LET p == process[k] IN
  /\ InUser(k)
  /\ \/ tlen[p] # 1 /\ Panic("fork_thread_count")
     \/ /\ tlen[p] = 1
        /\ \E c \in Pid \ live, j \in {j \in Task : process[j] = None} :
             /\ live' = live \cup {c}
             /\ parent' = [parent EXCEPT ![c] = p]
             /\ children' = [children EXCEPT ![p] = @ \cup {c}]
             /\ pid2pcb' = pid2pcb \cup {c}
             /\ tasks' = [tasks EXCEPT ![c] = [NoThreads EXCEPT ![0] = j]]
             /\ tlen' = [tlen EXCEPT ![c] = 1]
             /\ process' = [process EXCEPT ![j] = c]
             /\ NewTcb(j, c, 0)
        /\ UNCHANGED <<zombie, futex, block_queue, current, cpu, halt>>

\* ProcessControlBlock::exec: only memory changes, after the same assertion.
Exec(k) ==
  /\ InUser(k)
  /\ \/ tlen[process[k]] # 1 /\ Panic("exec_thread_count")
     \/ tlen[process[k]] = 1 /\ UNCHANGED vars

\* alloc_tid: a tid given back by an exited thread, else a new one.
AllocTid(p) ==
  LET free == {t \in Tid : t < tlen[p] /\ \A k \in Task : process[k] = p => tid[k] # t}
  IN  IF free # {} THEN free ELSE {tlen[p]} \cap Tid

\* clone2: the length of a table of length n once it has room for tid t.
Grow(n, t) == IF t < n THEN n ELSE t + 1

\* clone2, reached through sys_clone with CLONE_THREAD.
CloneThread(k) ==
  LET p == process[k] IN
  /\ InUser(k)
  /\ \E t \in AllocTid(p), j \in {j \in Task : process[j] = None} :
       /\ tasks' = [tasks EXCEPT ![p][t] = j]
       /\ tlen' = [tlen EXCEPT ![p] = Grow(@, t)]
       /\ NewTcb(j, p, t)
       /\ UNCHANGED <<futex, block_queue, current>>
       /\ DropTcbs([process EXCEPT ![j] = p])
  /\ UNCHANGED <<pcbVars, cpu, halt>>

-----------------------------------------------------------------------------
(* Exit. *)

\* exit_current_and_run_next does not unblock the parent.
WakesNobody(p) == None

\* exit_current_and_run_next sends exit_signal to the parent and unblocks the
\* parent's main thread.  Only the initial process has no exit signal.
WokenByExit(p) ==
  IF p # INITPROC /\ status[tasks[parent[p]][0]] = "Blocked"
  THEN tasks[parent[p]][0] ELSE None

\* Every unwrap, index and panic on the way of the exit of k succeeds.  One
\* that does not stops the kernel: the step has no successor then, and
\* ExitNeverPanics says that this does not happen.
ExitSucceeds(k) ==
  LET p == process[k] IN
  /\ p # INITPROC => parent[p] \in live /\ tasks[parent[p]][0] # None
  /\ tid[k] # None
  /\ tid[k] = 0 => p \in pid2pcb

\* A thread other than the main one exits: its tid and user resources are
\* given back, its TCB stays in the thread table.
ExitThread(k) ==
  LET p == process[k] IN
  /\ InUser(k) /\ tid[k] # 0 /\ ExitSucceeds(k)
  /\ LET m == WokenByExit(p) IN
       /\ status' = UnblockStatus(m)
       /\ ready_queue' = UnblockReady(m)
       /\ block_queue' = block_queue \ {m}
  /\ tid' = [tid EXCEPT ![k] = None]
  /\ current' = None
  /\ UNCHANGED <<pcbVars, tasks, tlen, futex, process, kctx, wpid, cpu, halt>>

\* The threads in the table of p.
Threads(p) == {tasks[p][t] : t \in Tid} \ {None}

\* The children stay with the parent that exits.
KeepsParent(p) == parent

\* The children of p go to the initial process.
Reparented(p) == [c \in Pid |-> IF c \in children[p] THEN INITPROC ELSE parent[c]]

\* The threads of p stay in the ready queue.
ThreadsStayReady(p) == UnblockReady(WokenByExit(p))

\* The ready queue after the exit of p: remove_inactive_task of its threads.
ReadyAfterExit(p) == Without(UnblockReady(WokenByExit(p)), Threads(p))

\* remove_from_pid2process is forgotten.
StaysInPid2pcb(p) == pid2pcb

\* remove_from_pid2process(p).
RemoveFromPid2pcb(p) == pid2pcb \ {p}

\* The main thread exits and takes the process with it: the process becomes a
\* zombie, its children go to the initial process, its ready threads leave
\* the ready queue and its thread table is cleared.
ExitMain(k) ==
  LET p == process[k]
      m == WokenByExit(p)
  IN
  /\ InUser(k) /\ tid[k] = 0 /\ p # INITPROC /\ ExitSucceeds(k)
  /\ pid2pcb' = RemoveFromPid2pcb(p)
  /\ zombie' = zombie \cup {p}
  /\ parent' = Reparented(p)
  /\ children' = [children EXCEPT ![INITPROC] = @ \cup children[p], ![p] = {}]
  /\ status' = UnblockStatus(m)
  /\ ready_queue' = ReadyAfterExit(p)
  /\ block_queue' = block_queue \ {m}
  /\ tid' = [j \in Task |-> IF j \in Threads(p) THEN None ELSE tid[j]]
  /\ tasks' = [tasks EXCEPT ![p] = NoThreads]
  /\ tlen' = [tlen EXCEPT ![p] = 0]
  /\ current' = None
  /\ UNCHANGED <<live, futex, kctx, wpid, cpu, halt>>
  /\ DropTcbs(process)

\* The main thread of the initial process exits: shutdown.
ExitInit(k) == InUser(k) /\ tid[k] = 0 /\ process[k] = INITPROC /\ Panic("shutdown")

Exit(k) == ExitThread(k) \/ ExitMain(k) \/ ExitInit(k)

-----------------------------------------------------------------------------
(* Waiting. *)

\* The children of p that a wait4 for pid w is about.
Awaited(p, w) == {c \in children[p] : w \in {AnyChild, c}}

\* The PCB of c, just taken out of the children of p, has no other Arc: the
\* assertion of sys_wait4 on its strong count.
SoleArc(c, p) == c \notin pid2pcb /\ \A q \in Pid \ {p} : c \notin children[q]

\* sys_wait4 found the zombie c: it leaves the list and its PCB is dropped.
Reap(k, c) ==
  LET p == process[k] IN
  /\ SoleArc(c, p)
  /\ children' = [children EXCEPT ![p] = @ \ {c}]
  /\ live' = live \ {c}
  /\ zombie' = zombie \ {c}
  /\ parent' = [parent EXCEPT ![c] = None]
  /\ futex' = [futex EXCEPT ![c] = NoWaiters]
  /\ kctx' = [kctx EXCEPT ![k] = "user"]
  /\ wpid' = [wpid EXCEPT ![k] = None]
  /\ UNCHANGED <<pid2pcb, tasks, tlen, tid, schedVars, cpu, halt>>
  /\ DropTcbs([j \in Task |-> IF process[j] = c THEN Gone ELSE process[j]])

\* One turn of the loop of sys_wait4(w, nohang).
Wait4Turn(k, w, nohang) ==
  LET awaited == Awaited(process[k], w) IN
  \/ \E c \in awaited \cap zombie : Reap(k, c)
  \/ /\ awaited = {} \/ (nohang /\ awaited \cap zombie = {})
     /\ kctx' = [kctx EXCEPT ![k] = "user"]
     /\ wpid' = [wpid EXCEPT ![k] = None]
     /\ UNCHANGED <<pcbVars, threadVars, schedVars, cpu, halt>>
  \/ /\ awaited # {} /\ awaited \cap zombie = {} /\ ~nohang
     /\ kctx' = [kctx EXCEPT ![k] = "wait"]
     /\ wpid' = [wpid EXCEPT ![k] = w]
     /\ BlockCurrent(k)
     /\ UNCHANGED <<pcbVars, threadVars>>

\* The call, and its next turn when the thread runs again.
Wait4(k) ==
  InUser(k) /\ \E w \in Pid \cup {AnyChild}, nohang \in BOOLEAN : Wait4Turn(k, w, nohang)
Wait4Resume(k) == Running(k) /\ kctx[k] = "wait" /\ Wait4Turn(k, wpid[k], FALSE)

\* sys_waittid(t).
WaitTid(k, t) ==
  LET p == process[k] IN
  /\ InUser(k) /\ tid[k] # t
  /\ \/ t >= tlen[p] /\ Panic("waittid_index")
     \/ /\ t < tlen[p]
        /\ tasks[p][t] # None /\ tid[tasks[p][t]] = None
        /\ tasks' = [tasks EXCEPT ![p][t] = None]
        /\ UNCHANGED <<pcbVars, tlen, futex, tid, kctx, wpid, schedVars, cpu, halt>>
        /\ DropTcbs(process)

-----------------------------------------------------------------------------
(* Futexes. *)

\* futex_wait on a word that holds the expected value.
FutexWait(k, a) ==
  LET p == process[k] IN
  /\ InUser(k) /\ Len(futex[p][a]) < MaxWaiters
  /\ futex' = [futex EXCEPT ![p][a] = Cons(k, @)]
  /\ kctx' = [kctx EXCEPT ![k] = "futex"]
  /\ BlockCurrent(k)
  /\ UNCHANGED <<pcbVars, tasks, tlen, process, tid, wpid>>

\* futex_wait returns to the user.
FutexResume(k) ==
  /\ Running(k) /\ kctx[k] = "futex"
  /\ kctx' = [kctx EXCEPT ![k] = "user"]
  /\ UNCHANGED <<pcbVars, threadVars, wpid, schedVars, cpu, halt>>

\* futex_signal takes the waiter out of the queue and does not unblock it.
FutexSignalForgets(k, a) ==
  LET p == process[k] IN
  /\ InUser(k) /\ futex[p][a] # <<>>
  /\ futex' = [futex EXCEPT ![p][a] = Tail(@)]
  /\ UNCHANGED <<pcbVars, tasks, tlen, tid, kctx, wpid, schedVars, cpu, halt>>
  /\ DropTcbs(process)

\* futex_signal of one waiter.  A call for val waiters does what val such
\* calls in a row do.
FutexSignal(k, a) ==
  LET p == process[k]
      q == futex[p][a] IN
  /\ InUser(k) /\ q # <<>>
  /\ futex' = [futex EXCEPT ![p][a] = Tail(q)]
  /\ status' = UnblockStatus(Head(q))
  /\ ready_queue' = UnblockReady(Head(q))
  /\ block_queue' = block_queue \ {Head(q)}
  /\ UNCHANGED <<pcbVars, tasks, tlen, tid, kctx, wpid, current, cpu, halt>>
  /\ DropTcbs(process)

-----------------------------------------------------------------------------
Step(k) ==
  \/ TimerInterrupt(k) \/ Yield(k) \/ YieldResume(k)
  \/ Fork(k) \/ Exec(k) \/ CloneThread(k) \/ Exit(k)
  \/ Wait4(k) \/ Wait4Resume(k)
  \/ \E t \in 0 .. MaxThreads : WaitTid(k, t)
  \/ \E a \in Addr : FutexWait(k, a) \/ FutexSignal(k, a)
  \/ FutexResume(k)

Halted == halt # "no" /\ UNCHANGED vars

Next == Dispatch \/ IdleSpin \/ Schedule \/ (\E k \in Task : Step(k)) \/ Halted

Spec == Init /\ [][Next]_vars

\* The idle loop and the kernel paths run on by themselves; the timer fires
\* for ever, and an interrupt pending in the kernel is taken on the return to
\* user mode, so threads in user mode are interrupted again and again.
Fairness ==
  /\ WF_vars(Dispatch \/ Schedule)
  /\ WF_vars(\E k \in Task : YieldResume(k) \/ Wait4Resume(k) \/ FutexResume(k))
  /\ SF_vars(\E k \in Task : TimerInterrupt(k))

FairSpec == Spec /\ Fairness

-----------------------------------------------------------------------------
\* Processes that run, and their threads that have not exited.
Active == live \ zombie
Alive == {k \in Task : process[k] \in Active /\ tid[k] # None}

TypeOK ==
  /\ live \subseteq Pid /\ zombie \subseteq live /\ pid2pcb \subseteq live
  /\ parent \in [Pid -> Pid \cup {None}]
  /\ children \in [Pid -> SUBSET Pid]
  /\ tasks \in [Pid -> [Tid -> Task \cup {None}]]
  /\ tlen \in [Pid -> 0 .. MaxThreads]
  /\ futex \in [Pid -> [Addr -> Seq(Task)]]
  /\ process \in [Task -> Pid \cup {None, Gone}]
  /\ tid \in [Task -> Tid \cup {None}]
  /\ status \in [Task -> {"Ready", "Running", "Blocked"}]
  /\ kctx \in [Task -> {"user", "yield", "wait", "futex"}]
  /\ wpid \in [Task -> Pid \cup {AnyChild, None}]
  /\ ready_queue \in Seq(Task) /\ block_queue \subseteq Task
  /\ current \in Task \cup {None} /\ cpu \in Task \cup {None}
  /\ halt \in {"no", "shutdown", "sys_yield", "fork_thread_count",
               "exec_thread_count", "waittid_index"}

\* exit_current_and_run_next never fails on an unwrap, an index or the panic
\* of remove_from_pid2process, whoever exits and whatever its parent did.
ExitNeverPanics == \A k \in Task : InUser(k) => ExitSucceeds(k)

\* The process tree: the parent of every process but the first is alive and
\* not a zombie, and lists it among its children; nobody else does.
ProcessTree ==
  \A c \in live \ {INITPROC} :
    /\ parent[c] \in Active
    /\ \A p \in Pid : c \in children[p] <=> p = parent[c]

\* The strong-count assertion of sys_wait4 holds for every zombie it may find.
ReapNeverPanics == \A p \in Pid : \A c \in children[p] \cap zombie : SoleArc(c, p)

\* A thread that has not exited, of a process that is not a zombie, is in
\* exactly one place: on the hart, once in the ready queue, or blocked; and no
\* other thread is in the first two.
OnePlace ==
  /\ NoDup(ready_queue)
  /\ ToSet(ready_queue) \cup ({current} \ {None}) \cup (block_queue \cap Alive) = Alive
  /\ current \notin ToSet(ready_queue) \cup block_queue
  /\ ToSet(ready_queue) \cap block_queue = {}

\* wait4 sleeps only while there is something to wait for: the main thread of
\* a process is not blocked in wait4 while a child it waits for is a zombie.
\* (The exit of a child unblocks task 0 of the parent only, and zombies handed
\* to the initial process do not unblock it: both are excepted.)
NoSleepOnZombie ==
  \A p \in live \ {INITPROC} : \A k \in block_queue :
    tasks[p][0] = k /\ kctx[k] = "wait" => Awaited(p, wpid[k]) \cap zombie = {}

\* A blocked futex waiter of a process that is not a zombie is in a wait queue
\* of that process, so that a futex_signal can find it; and except for the
\* main thread, which the exit of a child may also wake, every entry of a wait
\* queue is a thread that still waits there.
FutexQueues ==
  \A p \in Active :
    /\ \A k \in block_queue : process[k] = p /\ kctx[k] = "futex" =>
         \E a \in Addr : k \in ToSet(futex[p][a])
    /\ \A a \in Addr : \A k \in ToSet(futex[p][a]) \ {tasks[p][0]} :
         k \in block_queue /\ kctx[k] = "futex"

\* A parent whose main thread waits for a child that exited comes back from
\* wait4.
WaitReturns ==
  \A p \in Pid \ {INITPROC}, k \in Task :
    (process[k] = p /\ tid[k] = 0 /\ kctx[k] = "wait" /\ Awaited(p, wpid[k]) \cap zombie # {})
      ~> (kctx[k] # "wait" \/ halt # "no")

\* No starvation: a ready thread gets the hart, although woken threads are
\* put in front of it, unless its process exits first.
ReadyRuns ==
  \A k \in Task : (k \in ToSet(ready_queue)) ~> (k \notin ToSet(ready_queue) \/ halt # "no")

-----------------------------------------------------------------------------
(* The inductive invariant behind the properties above. *)

\* The process tree, with what a zombie has given up.
Tree ==
  /\ INITPROC \in Active /\ pid2pcb = Active
  /\ \A p \in Pid : children[p] \subseteq live \ {INITPROC}
  /\ \A p \in Pid \ Active : children[p] = {}
  /\ \A c \in live \ {INITPROC} : parent[c] # c
  /\ ProcessTree

\* Thread tables and TCBs agree, and the main thread is in slot 0.
Tables ==
  /\ \A p \in Pid, t \in Tid : tasks[p][t] # None =>
       /\ p \in Active /\ t < tlen[p]
       /\ process[tasks[p][t]] = p /\ tid[tasks[p][t]] \in {t, None}
  /\ \A k \in Alive : tasks[process[k]][tid[k]] = k
  /\ \A p \in Active : tasks[p][0] # None /\ tid[tasks[p][0]] = 0

\* A dropped TCB is referenced from nowhere; a Weak reference to a PCB that
\* was dropped does not upgrade.
Refs ==
  /\ \A k \in Task : Referenced(k) => process[k] # None
  /\ \A k \in Task : process[k] \in Pid => process[k] \in live

\* The task status says Blocked exactly for the tasks of the block queue.
BlockedStatus == \A k \in Task : status[k] = "Blocked" <=> k \in block_queue

\* Futex queues: only threads of the process; a thread other than the main
\* one is queued at most once; a new process has none.
Waiters ==
  /\ \A p \in Pid \ live : futex[p] = NoWaiters
  /\ \A p \in Active, a \in Addr : \A k \in ToSet(futex[p][a]) : k \in Alive /\ process[k] = p
  /\ \A p \in Active, a \in Addr : Once(futex[p][a], tasks[p][0])
  /\ \A p \in Active, a, b \in Addr : a # b =>
       ToSet(futex[p][a]) \cap ToSet(futex[p][b]) \subseteq {tasks[p][0]}

Inductive ==
  /\ TypeOK /\ Tree /\ Tables /\ Refs /\ OnePlace /\ BlockedStatus
  /\ NoSleepOnZombie /\ Waiters /\ FutexQueues
=============================================================================
