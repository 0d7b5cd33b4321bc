---------------------------- MODULE ProcessProofs ---------------------------
(* Proofs about Process.  Every action preserves the invariant Inductive,   *)
(* which therefore holds whatever the number of processes, threads and      *)
(* futex words; the properties of the runs follow from it.                  *)
EXTENDS Process, SeqLemmas

\* Most leaves are first-order: Zenon has a short try before the SMT solver.
USE ZenonT(6), SMTT(20), ZenonT(40)

-----------------------------------------------------------------------------
(* What a state that satisfies the invariant looks like to one thread. *)

\* 0 is a tid.
LEMMA ZeroTid == 0 \in Tid
BY ProcessConstants DEF Tid

\* The thread on the hart belongs to a process that runs, has not exited, is
\* in its slot of the thread table and in no queue.
LEMMA RunningFacts ==
  ASSUME Inductive, NEW k \in Task, Running(k)
  PROVE  /\ k = current /\ k # None /\ k \in Alive
         /\ process[k] \in Active /\ process[k] \in Pid
         /\ tid[k] \in Tid /\ tid[k] # None
         /\ tasks[process[k]][tid[k]] = k
         /\ k \notin ToSet(ready_queue) /\ k \notin block_queue
<1>1. k = current /\ k # None
  BY ProcessConstants DEF Running
<1>2. k \in Alive /\ k \notin ToSet(ready_queue) /\ k \notin block_queue
  BY <1>1 DEF Inductive, OnePlace
<1>3. process[k] \in Active /\ tid[k] # None
  BY <1>2 DEF Alive
<1>4. process[k] \in Pid /\ tid[k] \in Tid
  BY <1>3 DEF Inductive, TypeOK, Active
<1> QED BY <1>1, <1>2, <1>3, <1>4 DEF Inductive, Tables

\* The main thread of a process that runs.
LEMMA MainFacts ==
  ASSUME Inductive, NEW p \in Active
  PROVE  /\ p \in Pid /\ tasks[p][0] \in Task /\ tasks[p][0] \in Alive
         /\ process[tasks[p][0]] = p /\ tid[tasks[p][0]] = 0
<1>1. p \in Pid /\ tasks[p][0] \in Task
  BY ZeroTid DEF Inductive, TypeOK, Active, Tables
<1>2. process[tasks[p][0]] = p /\ tid[tasks[p][0]] = 0
  BY <1>1, ZeroTid DEF Inductive, Tables
<1> QED BY <1>1, <1>2, ZeroTid, ProcessConstants DEF Alive

\* The initial states satisfy the invariant.
LEMMA InitInductive == Init => Inductive
<1> SUFFICES ASSUME Init PROVE Inductive
  OBVIOUS
<1>a. InitTask \in Task /\ InitTask # None /\ INITPROC \in Pid /\ INITPROC # None /\ 0 # None
  BY ProcessConstants, ZeroTid
<1>b. /\ <<>> \in Seq(Task) /\ <<InitTask>> \in Seq(Task) /\ ToSet(<<InitTask>>) = {InitTask}
      /\ NoDup(<<InitTask>>)
  BY <1>a, SingletonFacts
<1>c. Active = {INITPROC} /\ Alive = {InitTask}
  BY <1>a DEF Init, Active, Alive
<1>d. \A p \in Pid, a \in Addr : futex[p][a] = <<>> /\ ToSet(futex[p][a]) = {} /\ Len(futex[p][a]) = 0
  BY EmptyFacts DEF Init, NoWaiters
<1>1. TypeOK
  BY <1>a, <1>b, ZeroTid, ProcessConstants DEF Init, TypeOK, NoThreads, NoWaiters
<1>2. Tree
  BY <1>a, <1>c DEF Init, Tree, ProcessTree
<1>3. Tables
  BY <1>a, <1>c, ZeroTid DEF Init, Tables, NoThreads
<1>4. Refs
  <2>1. \A p \in Pid, t \in Tid : tasks[p][t] \in {InitTask, None}
    BY ZeroTid DEF Init, NoThreads
  <2> QED BY <1>a, <1>b, <1>d, <2>1, ProcessConstants DEF Init, Refs, Referenced, InBlock
<1>5. OnePlace
  BY <1>a, <1>b, <1>c DEF Init, OnePlace
<1>6. BlockedStatus /\ NoSleepOnZombie
  BY DEF Init, BlockedStatus, NoSleepOnZombie
<1>7. Waiters /\ FutexQueues
  <2>1. \A p \in Pid : futex[p] = NoWaiters
    BY DEF Init
  <2>a. \A p \in Active, a \in Addr : Once(futex[p][a], tasks[p][0])
    BY <1>a, <1>c, <1>d DEF Once
  <2>2. Waiters
    BY <1>a, <1>c, <1>d, <2>1, <2>a DEF Waiters
  <2>3. FutexQueues
    BY <1>a, <1>c, <1>d DEF Init, FutexQueues
  <2> QED BY <2>2, <2>3
<1> QED BY <1>1, <1>2, <1>3, <1>4, <1>5, <1>6, <1>7 DEF Inductive

-----------------------------------------------------------------------------
(* Steps that leave a part of the state alone. *)

\* The tree depends on the PCBs alone.
LEMMA TreeFrame == Tree /\ UNCHANGED pcbVars => Tree'
BY DEF Tree, ProcessTree, Active, pcbVars

\* The thread tables depend on the PCBs that exist and on the threads.
LEMMA TablesFrame == Tables /\ UNCHANGED <<live, zombie, tasks, tlen, process, tid>> => Tables'
BY DEF Tables, Active, Alive

\* The contents of the futex queues depend on the same and the queues.
LEMMA WaitersFrame ==
  Waiters /\ UNCHANGED <<live, zombie, tasks, futex, process, tid>> => Waiters'
BY DEF Waiters, Active, Alive

\* Who is alive depends on the PCBs that exist and on the TCBs.
LEMMA AliveFrame == UNCHANGED <<live, zombie, process, tid>> => Active' = Active /\ Alive' = Alive
BY DEF Active, Alive

\* A step that makes no new reference and changes no TCB.
LEMMA RefsFrame ==
  ASSUME Refs, UNCHANGED <<live, process>>, \A j \in Task : Referenced(j)' => Referenced(j)
  PROVE  Refs'
BY DEF Refs

\* A step that changes nothing, or only halt.
LEMMA StutterInductive ==
  ASSUME Inductive, UNCHANGED <<pcbVars, threadVars, kctx, wpid, schedVars, cpu>>,
         halt' \in {"no", "shutdown", "sys_yield", "fork_thread_count",
                    "exec_thread_count", "waittid_index"}
  PROVE  Inductive'
<1> USE DEF pcbVars, threadVars, schedVars
<1>1. TypeOK'
  BY DEF Inductive, TypeOK
<1>2. Tree' /\ Tables' /\ Waiters'
  BY TreeFrame, TablesFrame, WaitersFrame DEF Inductive
<1>3. Refs'
  BY DEF Inductive, Refs, Referenced, InBlock
<1>4. OnePlace' /\ BlockedStatus'
  BY DEF Inductive, OnePlace, BlockedStatus, Active, Alive
<1>5. NoSleepOnZombie' /\ FutexQueues'
  BY DEF Inductive, NoSleepOnZombie, FutexQueues, Active, Awaited
<1> QED BY <1>1, <1>2, <1>3, <1>4, <1>5 DEF Inductive

\* What concerns blocked threads does not depend on where the thread on the
\* hart is in the kernel.
LEMMA BlockedFrame ==
  ASSUME Inductive, NEW k \in Task, Running(k),
         UNCHANGED <<pcbVars, threadVars, block_queue>>,
         \A j \in Task \ {k} : kctx'[j] = kctx[j] /\ wpid'[j] = wpid[j]
  PROVE  NoSleepOnZombie' /\ FutexQueues'
<1>1. k \notin block_queue /\ block_queue \subseteq Task
  BY RunningFacts DEF Inductive, TypeOK
<1>2. \A j \in block_queue : kctx'[j] = kctx[j] /\ wpid'[j] = wpid[j]
  BY <1>1
<1>3. NoSleepOnZombie'
  BY <1>1, <1>2 DEF Inductive, NoSleepOnZombie, Awaited, pcbVars, threadVars
<1>4. FutexQueues'
  BY <1>1, <1>2 DEF Inductive, FutexQueues, Active, pcbVars, threadVars
<1> QED BY <1>3, <1>4

-----------------------------------------------------------------------------
(* The scheduler. *)

\* run_tasks takes the head of the ready queue to the hart.
LEMMA DispatchInductive == ASSUME Inductive, Dispatch PROVE Inductive'
<1> DEFINE k == Head(ready_queue)
<1> USE DEF pcbVars, threadVars
<1>1. ready_queue \in Seq(Task) /\ ready_queue # <<>> /\ NoDup(ready_queue)
  BY DEF Inductive, TypeOK, Dispatch, OnePlace
<1>2. /\ k \in Task /\ ready_queue' = Tail(ready_queue) /\ ready_queue' \in Seq(Task)
      /\ ToSet(ready_queue) = ToSet(ready_queue') \cup {k}
      /\ NoDup(ready_queue') /\ k \notin ToSet(ready_queue')
  BY <1>1, TailFacts DEF Dispatch
<1>3. /\ current = None /\ current' = k /\ cpu' = k /\ status' = [status EXCEPT ![k] = "Running"]
      /\ UNCHANGED <<pcbVars, threadVars, kctx, wpid, block_queue, halt>>
  BY DEF Dispatch
<1> HIDE DEF k
<1>4. k # None /\ k \notin block_queue
  BY <1>2, ProcessConstants DEF Inductive, OnePlace
<1>5. TypeOK'
  BY <1>2, <1>3 DEF Inductive, TypeOK
<1>6. Tree' /\ Tables' /\ Waiters'
  BY <1>3, TreeFrame, TablesFrame, WaitersFrame DEF Inductive
<1>7. Refs'
  BY <1>2, <1>3 DEF Inductive, Refs, Referenced, InBlock
<1>8. OnePlace'
  BY <1>2, <1>3, <1>4 DEF Inductive, OnePlace, Active, Alive
<1>9. BlockedStatus'
  BY <1>2, <1>3, <1>4 DEF Inductive, TypeOK, BlockedStatus
<1>10. NoSleepOnZombie' /\ FutexQueues'
  BY <1>3 DEF Inductive, NoSleepOnZombie, FutexQueues, Active, Awaited
<1> QED BY <1>5, <1>6, <1>7, <1>8, <1>9, <1>10 DEF Inductive

\* schedule goes back to the idle loop.
LEMMA ScheduleInductive == ASSUME Inductive, Schedule PROVE Inductive'
<1> USE DEF pcbVars, threadVars, schedVars
<1>1. cpu' = None /\ UNCHANGED <<pcbVars, threadVars, kctx, wpid, schedVars, halt>>
  BY DEF Schedule
<1>2. TypeOK'
  BY <1>1 DEF Inductive, TypeOK
<1>3. Tree' /\ Tables' /\ Waiters'
  BY <1>1, TreeFrame, TablesFrame, WaitersFrame DEF Inductive
<1>4. Refs'
  BY <1>1 DEF Inductive, Refs, Referenced, InBlock
<1>5. OnePlace' /\ BlockedStatus'
  BY <1>1 DEF Inductive, OnePlace, BlockedStatus, Active, Alive
<1>6. NoSleepOnZombie' /\ FutexQueues'
  BY <1>1 DEF Inductive, NoSleepOnZombie, FutexQueues, Active, Awaited
<1> QED BY <1>2, <1>3, <1>4, <1>5, <1>6 DEF Inductive

\* suspend_current_and_run_next, from the timer interrupt or sys_yield.
LEMMA SuspendInductive ==
  ASSUME Inductive, NEW k \in Task, Running(k), SuspendCurrent(k),
         NEW c \in {"user", "yield"}, kctx' = [kctx EXCEPT ![k] = c], UNCHANGED wpid
  PROVE  Inductive'
<1> USE DEF pcbVars, threadVars
<1>1. k = current /\ k # None /\ k \in Alive /\ k \notin ToSet(ready_queue) /\ k \notin block_queue
  BY RunningFacts
<1>2. /\ ready_queue' \in Seq(Task)
      /\ ToSet(ready_queue') = ToSet(ready_queue) \cup {k} /\ NoDup(ready_queue')
  BY <1>1, AppendFacts DEF Inductive, TypeOK, OnePlace, SuspendCurrent
<1>3. /\ current' = None /\ status' = [status EXCEPT ![k] = "Ready"]
      /\ UNCHANGED <<pcbVars, threadVars, block_queue, cpu, halt>>
  BY DEF SuspendCurrent
<1>4. TypeOK'
  BY <1>2, <1>3 DEF Inductive, TypeOK
<1>5. Tree' /\ Tables' /\ Waiters'
  BY <1>3, TreeFrame, TablesFrame, WaitersFrame DEF Inductive
<1>6. Refs'
  <2>1. \A j \in Task : InBlock(j)' => InBlock(j)
    BY DEF Inductive, TypeOK, InBlock
  <2>2. \A j \in Task : Referenced(j)' => Referenced(j)
    BY <1>1, <1>2, <1>3, <2>1, ProcessConstants DEF Referenced
  <2> QED BY <1>3, <2>2, RefsFrame DEF Inductive
<1>7. OnePlace'
  <2>1. Alive' = Alive
    BY <1>3, AliveFrame
  <2>2. None \notin ToSet(ready_queue') /\ None \notin block_queue
    BY <1>2, ToSetSubset, ProcessConstants DEF Inductive, TypeOK
  <2> QED BY <1>1, <1>2, <1>3, <2>1, <2>2 DEF Inductive, OnePlace
<1>8. BlockedStatus'
  BY <1>1, <1>3 DEF Inductive, TypeOK, BlockedStatus
<1>9. NoSleepOnZombie' /\ FutexQueues'
  BY <1>3, BlockedFrame DEF Inductive, TypeOK
<1> QED BY <1>4, <1>5, <1>6, <1>7, <1>8, <1>9 DEF Inductive

\* A thread on the hart goes back to user mode.
LEMMA ReturnInductive ==
  ASSUME Inductive, NEW k \in Task, Running(k),
         NEW w \in Pid \cup {AnyChild, None}, wpid' = [wpid EXCEPT ![k] = w],
         kctx' = [kctx EXCEPT ![k] = "user"],
         UNCHANGED <<pcbVars, threadVars, schedVars, cpu, halt>>
  PROVE  Inductive'
<1> USE DEF pcbVars, threadVars, schedVars
<1>1. TypeOK'
  BY DEF Inductive, TypeOK
<1>2. Tree' /\ Tables' /\ Waiters'
  BY TreeFrame, TablesFrame, WaitersFrame DEF Inductive
<1>3. Refs'
  BY DEF Inductive, TypeOK, Refs, Referenced, InBlock
<1>4. OnePlace' /\ BlockedStatus'
  BY DEF Inductive, OnePlace, BlockedStatus, Active, Alive
<1>5. NoSleepOnZombie' /\ FutexQueues'
  BY BlockedFrame DEF Inductive, TypeOK
<1> QED BY <1>1, <1>2, <1>3, <1>4, <1>5 DEF Inductive

-----------------------------------------------------------------------------
(* Blocking. *)

\* What block_current_and_run_next does to the queues.
LEMMA BlockFacts ==
  ASSUME Inductive, NEW k \in Task, Running(k), BlockCurrent(k),
         UNCHANGED <<live, zombie, process, tid>>
  PROVE  OnePlace' /\ BlockedStatus'
<1>1. k = current /\ k # None /\ k \in Alive /\ k \notin ToSet(ready_queue) /\ k \notin block_queue
  BY RunningFacts
<1>2. /\ status' = [status EXCEPT ![k] = "Blocked"]
      /\ block_queue' = block_queue \cup {k} /\ current' = None /\ ready_queue' = ready_queue
  BY DEF BlockCurrent
<1>3. Alive' = Alive
  BY AliveFrame
<1>4. None \notin ToSet(ready_queue) /\ None \notin block_queue
  BY ToSetSubset, ProcessConstants DEF Inductive, TypeOK
<1>5. OnePlace'
  BY <1>1, <1>2, <1>3, <1>4 DEF Inductive, OnePlace
<1>6. BlockedStatus'
  BY <1>2 DEF Inductive, TypeOK, BlockedStatus
<1> QED BY <1>5, <1>6

\* sys_wait4 blocks: none of the children it is about is a zombie.
LEMMA WaitBlockInductive ==
  ASSUME Inductive, NEW k \in Task, Running(k), NEW w \in Pid \cup {AnyChild, None},
         Awaited(process[k], w) \cap zombie = {}, BlockCurrent(k),
         kctx' = [kctx EXCEPT ![k] = "wait"], wpid' = [wpid EXCEPT ![k] = w],
         UNCHANGED <<pcbVars, threadVars>>
  PROVE  Inductive'
<1> USE DEF pcbVars, threadVars
<1>1. k = current /\ k # None /\ process[k] \in Pid /\ k \notin block_queue
  BY RunningFacts
<1>2. /\ status' = [status EXCEPT ![k] = "Blocked"]
      /\ block_queue' = block_queue \cup {k} /\ current' = None
      /\ UNCHANGED <<ready_queue, cpu, halt>>
  BY DEF BlockCurrent
<1>3. TypeOK'
  BY <1>2 DEF Inductive, TypeOK
<1>4. Tree' /\ Tables' /\ Waiters'
  BY TreeFrame, TablesFrame, WaitersFrame DEF Inductive
<1>5. Refs'
  <2>1. \A j \in Task : InBlock(j)' => InBlock(j) \/ j = k
    BY DEF Inductive, TypeOK, InBlock
  <2>2. \A j \in Task : Referenced(j)' => Referenced(j)
    BY <1>1, <1>2, <2>1, ProcessConstants DEF Referenced
  <2> QED BY <2>2, RefsFrame DEF Inductive
<1>6. OnePlace' /\ BlockedStatus'
  BY BlockFacts
<1>7. \A j \in block_queue : j # k /\ kctx'[j] = kctx[j] /\ wpid'[j] = wpid[j]
  BY <1>1 DEF Inductive, TypeOK
<1>8. NoSleepOnZombie'
  <2> SUFFICES ASSUME NEW p \in live \ {INITPROC}, NEW j \in block_queue',
                      tasks[p][0] = j, kctx'[j] = "wait"
               PROVE  Awaited(p, wpid'[j]) \cap zombie = {}
    BY DEF NoSleepOnZombie, Awaited
  <2>1. CASE j = k
    <3>1. p = process[k] /\ wpid'[k] = w
      BY <1>1, <2>1, ZeroTid DEF Inductive, Tables, TypeOK
    <3> QED BY <2>1, <3>1
  <2>2. CASE j # k
    BY <1>2, <1>7, <2>2 DEF Inductive, NoSleepOnZombie
  <2> QED BY <2>1, <2>2
<1>9. FutexQueues'
  <2>1. kctx'[k] # "futex"
    BY DEF Inductive, TypeOK
  <2> QED BY <1>2, <1>7, <2>1 DEF Inductive, FutexQueues, Active
<1> QED BY <1>3, <1>4, <1>5, <1>6, <1>8, <1>9 DEF Inductive

\* A thread other than the main one that is on the hart waits in no futex
\* queue.
LEMMA RunningNotQueued ==
  ASSUME Inductive, NEW k \in Task, Running(k), NEW b \in Addr,
         k \in ToSet(futex[process[k]][b])
  PROVE  k = tasks[process[k]][0]
BY RunningFacts DEF Inductive, FutexQueues

\* futex_wait queues the running thread and blocks it.
LEMMA FutexWaitInductive ==
  ASSUME Inductive, NEW k \in Task, NEW a \in Addr, FutexWait(k, a)
  PROVE  Inductive'
<1> DEFINE p == process[k]
           q == futex[p][a]
<1> USE DEF pcbVars
<1>0. Running(k)
  BY DEF FutexWait, InUser
<1>1. /\ k = current /\ k # None /\ k \in Alive /\ p \in Active /\ p \in Pid /\ k \notin block_queue
      /\ p \in live
  BY <1>0, RunningFacts DEF Active
<1>2. /\ status' = [status EXCEPT ![k] = "Blocked"]
      /\ block_queue' = block_queue \cup {k} /\ current' = None
      /\ kctx' = [kctx EXCEPT ![k] = "futex"]
      /\ UNCHANGED <<pcbVars, tasks, tlen, process, tid, wpid, ready_queue, cpu, halt>>
  BY DEF FutexWait, BlockCurrent
<1>3. q \in Seq(Task)
  BY <1>1 DEF Inductive, TypeOK
<1>4. /\ futex'[p][a] = Cons(k, q)
      /\ \A r \in Pid, b \in Addr : r # p \/ b # a => futex'[r][b] = futex[r][b]
      /\ \A r \in Pid : r # p => futex'[r] = futex[r]
  BY <1>1 DEF Inductive, TypeOK, FutexWait
<1>5. Cons(k, q) \in Seq(Task) /\ ToSet(Cons(k, q)) = ToSet(q) \cup {k}
  <2> HIDE DEF p, q
  <2> QED BY <1>3, ConsFacts
<1>6. futex' \in [Pid -> [Addr -> Seq(Task)]]
  <2>1. futex' = [futex EXCEPT ![p][a] = Cons(k, q)]
    BY DEF FutexWait
  <2> HIDE DEF p, q
  <2> QED BY <1>1, <1>5, <2>1 DEF Inductive, TypeOK
<1> HIDE DEF p, q
<1>7. TypeOK'
  BY <1>2, <1>6 DEF Inductive, TypeOK
<1>8. Tree' /\ Tables'
  BY <1>2, TreeFrame, TablesFrame DEF Inductive
<1>9. \A r \in Pid, b \in Addr, j \in Task :
        j \in ToSet(futex'[r][b]) <=> j \in ToSet(futex[r][b]) \/ (j = k /\ r = p /\ b = a)
  BY <1>1, <1>3, <1>4, <1>5 DEF q
<1>10. Refs'
  <2>1. \A j \in Task : InBlock(j)' => InBlock(j) \/ j = k
    BY <1>2 DEF Inductive, TypeOK, InBlock
  <2>2. \A j \in Task : Referenced(j)' => Referenced(j)
    BY <1>1, <1>2, <1>9, <2>1, ProcessConstants DEF Referenced
  <2> QED BY <1>2, <2>2, RefsFrame DEF Inductive
<1>11. OnePlace' /\ BlockedStatus'
  BY <1>0, <1>2, BlockFacts DEF FutexWait
<1>12. \A j \in block_queue : j # k /\ j \in Task /\ kctx'[j] = kctx[j] /\ wpid'[j] = wpid[j]
  BY <1>1, <1>2 DEF Inductive, TypeOK
<1>13. NoSleepOnZombie'
  <2>1. kctx'[k] # "wait"
    BY <1>2 DEF Inductive, TypeOK
  <2> QED BY <1>2, <1>12, <2>1 DEF Inductive, NoSleepOnZombie, Awaited
<1>14. FutexQueues'
  <2>1. kctx'[k] = "futex" /\ Active' = Active
    BY <1>2 DEF Inductive, TypeOK, Active
  <2>2. ASSUME NEW r \in Active, NEW j \in block_queue', process[j] = r, kctx'[j] = "futex"
        PROVE  \E b \in Addr : j \in ToSet(futex'[r][b])
    <3>1. r \in Pid
      BY DEF Inductive, TypeOK, Active
    <3>2. CASE j = k
      BY <1>1, <1>9, <2>2, <3>1, <3>2 DEF p
    <3>3. CASE j \in block_queue
      <4>1. \E b \in Addr : j \in ToSet(futex[r][b])
        BY <1>12, <2>2, <3>3 DEF Inductive, FutexQueues
      <4> QED BY <1>9, <1>12, <3>1, <3>3, <4>1
    <3> QED BY <1>2, <3>2, <3>3
  <2>3. ASSUME NEW r \in Active, NEW b \in Addr, NEW j \in ToSet(futex'[r][b]), j # tasks[r][0]
        PROVE  j \in block_queue' /\ kctx'[j] = "futex"
    <3>1. r \in Pid /\ j \in Task
      BY <1>6, ToSetSubset DEF Inductive, TypeOK, Active
    <3> QED BY <1>2, <1>9, <1>12, <2>1, <2>3, <3>1 DEF Inductive, FutexQueues
  <2> QED BY <1>2, <2>1, <2>2, <2>3 DEF FutexQueues
<1>15. Waiters'
  <2>0. Active' = Active /\ Alive' = Alive /\ Active \subseteq Pid
    BY <1>2, AliveFrame DEF Inductive, TypeOK, Active
  <2>1. \A r \in Pid \ live : futex'[r] = NoWaiters
    BY <1>1, <1>4 DEF Inductive, Waiters
  <2>2. \A r \in Active, b \in Addr : ToSet(futex'[r][b]) \subseteq Task
    BY <1>6, <2>0, ToSetSubset
  <2>3. \A r \in Active, b \in Addr : \A j \in ToSet(futex'[r][b]) : j \in Alive /\ process[j] = r
    BY <1>1, <1>9, <2>0, <2>2 DEF Inductive, Waiters, p
  <2>4. \A b \in Addr : k \in ToSet(futex[p][b]) => k = tasks[p][0]
    BY <1>0, RunningNotQueued DEF p
  <2>5. Once(Cons(k, q), tasks[p][0])
    <3>1. Once(q, tasks[p][0]) /\ (k = tasks[p][0] \/ k \notin ToSet(q))
      BY <1>1, <2>4 DEF Inductive, Waiters, q
    <3> QED BY <1>3, <3>1, OnceCons
  <2>6. \A r \in Active, b \in Addr : Once(futex'[r][b], tasks[r][0])
    BY <1>4, <2>0, <2>5 DEF Inductive, Waiters
  <2>7. ASSUME NEW r \in Active, NEW b \in Addr, NEW c \in Addr, b # c
        PROVE  ToSet(futex'[r][b]) \cap ToSet(futex'[r][c]) \subseteq {tasks[r][0]}
    <3> SUFFICES ASSUME NEW j \in Task, j \in ToSet(futex'[r][b]), j \in ToSet(futex'[r][c])
                 PROVE  j = tasks[r][0]
      BY <2>2
    <3>1. CASE j = k
      <4>1. r = p
        BY <2>3, <3>1 DEF p
      <4> QED BY <1>9, <2>0, <2>4, <2>7, <3>1, <4>1
    <3>2. CASE j # k
      <4>1. j \in ToSet(futex[r][b]) \cap ToSet(futex[r][c])
        BY <1>9, <2>0, <3>2
      <4> QED BY <2>7, <4>1 DEF Inductive, Waiters
    <3> QED BY <3>1, <3>2
  <2> QED BY <1>2, <2>0, <2>1, <2>3, <2>6, <2>7 DEF Waiters
<1> QED BY <1>7, <1>8, <1>10, <1>11, <1>13, <1>14, <1>15 DEF Inductive

-----------------------------------------------------------------------------
(* Waking up, and dropping TCBs. *)

\* push_front on the ready queue.
LEMMA PushFront ==
  \A s \in Seq(Task), x \in Task :
    /\ Cons(x, s) \in Seq(Task)
    /\ ToSet(Cons(x, s)) = ToSet(s) \cup {x}
    /\ NoDup(s) /\ x \notin ToSet(s) => NoDup(Cons(x, s))
BY ConsFacts

\* unblock_task(m).
LEMMA UnblockFacts ==
  ASSUME Inductive, NEW m, NEW rq, rq = UnblockReady(m),
         status' = UnblockStatus(m), block_queue' = block_queue \ {m}
  PROVE  /\ rq \in Seq(Task) /\ NoDup(rq)
         /\ ToSet(rq) = ToSet(ready_queue) \cup ({m} \cap block_queue)
         /\ BlockedStatus'
         /\ status' \in [Task -> {"Ready", "Running", "Blocked"}]
<1>1. /\ ready_queue \in Seq(Task) /\ block_queue \subseteq Task /\ NoDup(ready_queue)
      /\ ToSet(ready_queue) \cap block_queue = {}
  BY DEF Inductive, TypeOK, OnePlace
<1>2. /\ rq \in Seq(Task) /\ NoDup(rq)
      /\ ToSet(rq) = ToSet(ready_queue) \cup ({m} \cap block_queue)
  <2>1. CASE m \in block_queue
    <3>1. rq = Cons(m, ready_queue) /\ m \in Task /\ m \notin ToSet(ready_queue)
      BY <1>1, <2>1 DEF UnblockReady
    <3>2. /\ Cons(m, ready_queue) \in Seq(Task) /\ NoDup(Cons(m, ready_queue))
          /\ ToSet(Cons(m, ready_queue)) = ToSet(ready_queue) \cup {m}
      <4>1. ready_queue \in Seq(Task) /\ NoDup(ready_queue)
        BY <1>1
      <4>2. /\ Cons(m, ready_queue) \in Seq(Task)
            /\ ToSet(Cons(m, ready_queue)) = ToSet(ready_queue) \cup {m}
            /\ NoDup(ready_queue) /\ m \notin ToSet(ready_queue) => NoDup(Cons(m, ready_queue))
        BY <3>1, <4>1, PushFront
      <4> QED BY <3>1, <4>1, <4>2
    <3> QED BY <2>1, <3>1, <3>2
  <2>2. CASE m \notin block_queue
    BY <1>1, <2>2 DEF UnblockReady
  <2> QED BY <2>1, <2>2
<1>3. BlockedStatus' /\ status' \in [Task -> {"Ready", "Running", "Blocked"}]
  BY DEF Inductive, TypeOK, BlockedStatus, UnblockStatus
<1> QED BY <1>2, <1>3

\* Dropping TCBs leaves the process of a TCB alone or makes it None, and
\* never drops a TCB that is in a thread table.
LEMMA DropFacts ==
  ASSUME NEW proc, DropTcbs(proc), TypeOK, tasks' \in [Pid -> [Tid -> Task \cup {None}]]
  PROVE  /\ \A j \in Task : process'[j] = proc[j] \/ process'[j] = None
         /\ \A j \in Task : Referenced(j)' => process'[j] = proc[j]
         /\ \A j \in Task : ~ Referenced(j)' => process'[j] = None
         /\ \A r \in Pid, t \in Tid : tasks'[r][t] # None => process'[tasks'[r][t]] = proc[tasks'[r][t]]
<1>1. \A j \in Task : process'[j] = IF Referenced(j)' THEN proc[j] ELSE None
  BY DEF DropTcbs
<1>2. \A j \in Task, r \in Pid, t \in Tid : j = tasks'[r][t] => Referenced(j)'
  BY DEF Referenced
<1>3. \A r \in Pid, t \in Tid : tasks'[r][t] # None => tasks'[r][t] \in Task
  OBVIOUS
<1>4. \A j \in Task, r \in Pid, t \in Tid : j = tasks'[r][t] => process'[j] = proc[j]
  BY <1>1, <1>2
<1>5. \A r \in Pid, t \in Tid : tasks'[r][t] # None => process'[tasks'[r][t]] = proc[tasks'[r][t]]
  BY <1>3, <1>4
<1> QED BY <1>1, <1>5

\* futex_signal takes the head of the wait queue and unblocks it.
LEMMA FutexSignalInductive ==
  ASSUME Inductive, NEW k \in Task, NEW a \in Addr, FutexSignal(k, a)
  PROVE  Inductive'
<1> DEFINE p == process[k]
           q == futex[p][a]
           h == Head(q)
<1> USE DEF pcbVars
<1>0. Running(k)
  BY DEF FutexSignal, InUser
<1>1. p \in Active /\ p \in Pid /\ p \in live
  BY <1>0, RunningFacts DEF Active
<1>2. /\ status' = UnblockStatus(h) /\ ready_queue' = UnblockReady(h)
      /\ block_queue' = block_queue \ {h} /\ DropTcbs(process)
      /\ futex' = [futex EXCEPT ![p][a] = Tail(q)] /\ q # <<>>
      /\ UNCHANGED <<pcbVars, tasks, tlen, tid, kctx, wpid, current, cpu, halt>>
  BY DEF FutexSignal
<1>3. q \in Seq(Task)
  BY <1>1 DEF Inductive, TypeOK
<1>4. Once(q, tasks[p][0]) /\ \A j \in ToSet(q) : j \in Alive /\ process[j] = p
  BY <1>1 DEF Inductive, Waiters
<1>5. /\ futex'[p][a] = Tail(q)
      /\ \A r \in Pid, b \in Addr : r # p \/ b # a => futex'[r][b] = futex[r][b]
      /\ \A r \in Pid : r # p => futex'[r] = futex[r]
  BY <1>1, <1>2 DEF Inductive, TypeOK
<1> HIDE DEF p, q
<1>6. /\ Tail(q) \in Seq(Task) /\ h \in Task /\ ToSet(q) = ToSet(Tail(q)) \cup {h}
      /\ Once(Tail(q), tasks[p][0]) /\ (h # tasks[p][0] => h \notin ToSet(Tail(q)))
  BY <1>2, <1>3, <1>4, TailFacts, OnceTail
<1> HIDE DEF h
<1>7. futex' \in [Pid -> [Addr -> Seq(Task)]]
  BY <1>1, <1>2, <1>6 DEF Inductive, TypeOK
<1>8. h \in Alive /\ process[h] = p /\ h \in ToSet(futex[p][a])
  BY <1>4, <1>6 DEF q
<1>9. /\ ready_queue' \in Seq(Task) /\ NoDup(ready_queue')
      /\ ToSet(ready_queue') = ToSet(ready_queue) \cup ({h} \cap block_queue)
      /\ BlockedStatus' /\ status' \in [Task -> {"Ready", "Running", "Blocked"}]
  BY <1>2, UnblockFacts
<1>10. /\ \A j \in Task : process'[j] = process[j] \/ process'[j] = None
       /\ \A j \in Task : Referenced(j)' => process'[j] = process[j]
       /\ \A r \in Pid, t \in Tid : tasks[r][t] # None => process'[tasks[r][t]] = process[tasks[r][t]]
  <2>1. TypeOK /\ tasks' \in [Pid -> [Tid -> Task \cup {None}]] /\ tasks' = tasks
    BY <1>2 DEF Inductive, TypeOK
  <2> QED BY <1>2, <2>1, DropFacts
<1>11. process' \in [Task -> Pid \cup {None, Gone}]
  BY <1>2, <1>10 DEF DropTcbs, Inductive, TypeOK
<1>12. TypeOK'
  BY <1>2, <1>7, <1>9, <1>11 DEF Inductive, TypeOK
<1>13. Tree'
  BY <1>2, TreeFrame DEF Inductive
<1>14. /\ Active' = Active /\ Active \subseteq Pid /\ Alive' = Alive
       /\ \A j \in Alive : j \in Task /\ process'[j] = process[j]
  <2>1. Active' = Active /\ Active \subseteq Pid /\ None \notin Active
    BY <1>2, ProcessConstants DEF Inductive, TypeOK, Active
  <2>2. \A j \in Alive : j \in Task /\ process'[j] = process[j]
    <3> SUFFICES ASSUME NEW j \in Alive PROVE j \in Task /\ process'[j] = process[j]
      OBVIOUS
    <3>1. j \in Task /\ process[j] \in Active /\ tid[j] # None
      BY DEF Alive
    <3>2. process[j] \in Pid /\ tid[j] \in Tid /\ tasks[process[j]][tid[j]] = j
      BY <2>1, <3>1 DEF Inductive, Tables, TypeOK
    <3> QED BY <1>10, <3>1, <3>2, ProcessConstants
  <2>3. \A j \in Task : j \in Alive' <=> j \in Alive
    BY <1>2, <1>10, <2>1, <2>2 DEF Alive
  <2> QED BY <2>1, <2>2, <2>3 DEF Alive
<1>15. Tables'
  <2>1. \A r \in Pid, t \in Tid : tasks[r][t] # None =>
          /\ r \in Active /\ t < tlen[r]
          /\ process'[tasks[r][t]] = r /\ tid[tasks[r][t]] \in {t, None}
    BY <1>10 DEF Inductive, Tables
  <2>2. \A j \in Alive : tasks[process'[j]][tid[j]] = j
    BY <1>14 DEF Inductive, Tables
  <2> QED BY <1>2, <1>14, <2>1, <2>2 DEF Inductive, Tables
<1>16. \A r \in Pid, b \in Addr, j \in Task :
         /\ j \in ToSet(futex'[r][b]) => j \in ToSet(futex[r][b])
         /\ j \in ToSet(futex[r][b]) => j \in ToSet(futex'[r][b]) \/ (j = h /\ r = p /\ b = a)
  BY <1>5, <1>6 DEF q
<1>17. Refs'
  <2>1. \A j \in Task : Referenced(j)' => Referenced(j)
    BY <1>1, <1>2, <1>8, <1>9, <1>16 DEF Referenced, InBlock
  <2>2. \A j \in Task : Referenced(j)' => process'[j] # None
    BY <1>10, <2>1 DEF Inductive, Refs
  <2>3. \A j \in Task : process'[j] \in Pid => process'[j] \in live'
    BY <1>2, <1>10, ProcessConstants DEF Inductive, Refs
  <2> QED BY <2>2, <2>3 DEF Refs
<1>18. OnePlace'
  BY <1>2, <1>8, <1>9, <1>14 DEF Inductive, OnePlace
<1>19. NoSleepOnZombie'
  BY <1>2 DEF Inductive, NoSleepOnZombie, Awaited
<1>20. FutexQueues'
  <2>1. ASSUME NEW r \in Active, NEW j \in block_queue', process'[j] = r, kctx[j] = "futex"
        PROVE  \E b \in Addr : j \in ToSet(futex'[r][b])
    <3>1. j \in block_queue /\ j # h /\ j \in Task /\ r \in Pid
      BY <1>2, <1>14 DEF Inductive, TypeOK
    <3>2. process[j] = r
      BY <1>10, <2>1, <3>1, ProcessConstants
    <3>3. \E b \in Addr : j \in ToSet(futex[r][b])
      BY <2>1, <3>1, <3>2 DEF Inductive, FutexQueues
    <3> QED BY <1>16, <3>1, <3>3
  <2>2. ASSUME NEW r \in Active, NEW b \in Addr, NEW j \in ToSet(futex'[r][b]), j # tasks[r][0]
        PROVE  j \in block_queue' /\ kctx[j] = "futex"
    <3>1. r \in Pid /\ j \in Task
      BY <1>7, <1>14, ToSetSubset
    <3>2. j \in ToSet(futex[r][b])
      BY <1>16, <3>1
    <3>3. j \in block_queue /\ kctx[j] = "futex"
      BY <2>2, <3>2 DEF Inductive, FutexQueues
    <3>4. j # h
      <4> SUFFICES ASSUME j = h PROVE FALSE
        OBVIOUS
      <4>1. r = p
        BY <1>8, <3>2 DEF Inductive, Waiters
      <4>2. CASE b = a
        BY <1>5, <1>6, <2>2, <4>1, <4>2
      <4>3. CASE b # a
        <5>1. ToSet(futex[p][b]) \cap ToSet(futex[p][a]) \subseteq {tasks[p][0]}
          BY <4>1, <4>3 DEF Inductive, Waiters
        <5> QED BY <1>8, <2>2, <3>2, <4>1, <5>1
      <4> QED BY <4>2, <4>3
    <3> QED BY <1>2, <3>3, <3>4
  <2> QED BY <1>2, <1>14, <2>1, <2>2 DEF FutexQueues
<1>21. Waiters'
  <2>1. \A r \in Pid \ live : futex'[r] = NoWaiters
    BY <1>1, <1>5 DEF Inductive, Waiters
  <2>2. \A r \in Active, b \in Addr : ToSet(futex'[r][b]) \subseteq ToSet(futex[r][b])
    <3>1. \A r \in Active, b \in Addr : ToSet(futex'[r][b]) \subseteq Task
      BY <1>7, <1>14, ToSetSubset
    <3> QED BY <1>14, <1>16, <3>1
  <2>3. \A r \in Active, b \in Addr : \A j \in ToSet(futex'[r][b]) : j \in Alive /\ process'[j] = r
    BY <1>14, <2>2 DEF Inductive, Waiters
  <2>4. ASSUME NEW r \in Active, NEW b \in Addr PROVE Once(futex'[r][b], tasks[r][0])
    <3>1. Once(futex[r][b], tasks[r][0])
      BY DEF Inductive, Waiters
    <3> QED BY <1>5, <1>6, <1>14, <3>1
  <2>5. \A r \in Active, b, c \in Addr : b # c =>
          ToSet(futex'[r][b]) \cap ToSet(futex'[r][c]) \subseteq {tasks[r][0]}
    BY <2>2 DEF Inductive, Waiters
  <2> QED BY <1>2, <1>14, <2>1, <2>3, <2>4, <2>5 DEF Waiters
<1> QED BY <1>9, <1>12, <1>13, <1>15, <1>17, <1>18, <1>19, <1>20, <1>21 DEF Inductive

-----------------------------------------------------------------------------
(* The creation of processes and threads. *)

\* A slot without a TCB is referenced from nowhere.
LEMMA FreshFacts ==
  ASSUME Inductive, NEW j \in Task, process[j] = None
  PROVE  /\ j # None /\ j # current /\ j \notin ToSet(ready_queue) /\ j \notin block_queue
         /\ ~ InBlock(j) /\ j \notin Alive
         /\ \A r \in Pid, s \in Tid : tasks[r][s] # j
         /\ \A r \in Pid, b \in Addr : j \notin ToSet(futex[r][b])
<1>1. ~ Referenced(j)
  BY DEF Inductive, Refs
<1>2. None \notin Active
  BY ProcessConstants DEF Inductive, TypeOK, Active
<1> QED BY <1>1, <1>2, ProcessConstants DEF Referenced, Alive

\* What TaskControlBlock::new and add_task do for a free slot.
LEMMA NewTcbFacts ==
  ASSUME Inductive, NEW j \in Task, process[j] = None, NEW p, NEW t \in Tid, NewTcb(j, p, t),
         UNCHANGED <<block_queue, current>>
  PROVE  /\ tid' \in [Task -> Tid \cup {None}] /\ tid'[j] = t
         /\ status' \in [Task -> {"Ready", "Running", "Blocked"}] /\ BlockedStatus'
         /\ kctx' \in [Task -> {"user", "yield", "wait", "futex"}] /\ kctx'[j] = "user"
         /\ wpid' \in [Task -> Pid \cup {AnyChild, None}]
         /\ \A i \in Task \ {j} : tid'[i] = tid[i] /\ kctx'[i] = kctx[i] /\ wpid'[i] = wpid[i]
         /\ ready_queue' \in Seq(Task) /\ NoDup(ready_queue')
         /\ ToSet(ready_queue') = ToSet(ready_queue) \cup {j}
<1>1. j \notin ToSet(ready_queue) /\ j \notin block_queue
  BY FreshFacts
<1>2. /\ ready_queue' \in Seq(Task) /\ NoDup(ready_queue')
      /\ ToSet(ready_queue') = ToSet(ready_queue) \cup {j}
  BY <1>1, AppendFacts DEF NewTcb, Inductive, TypeOK, OnePlace
<1>3. status' \in [Task -> {"Ready", "Running", "Blocked"}] /\ BlockedStatus'
  BY <1>1 DEF NewTcb, Inductive, TypeOK, BlockedStatus
<1>4. /\ tid' \in [Task -> Tid \cup {None}] /\ tid'[j] = t
      /\ kctx' \in [Task -> {"user", "yield", "wait", "futex"}] /\ kctx'[j] = "user"
      /\ wpid' \in [Task -> Pid \cup {AnyChild, None}]
      /\ \A i \in Task \ {j} : tid'[i] = tid[i] /\ kctx'[i] = kctx[i] /\ wpid'[i] = wpid[i]
  BY DEF NewTcb, Inductive, TypeOK
<1> QED BY <1>2, <1>3, <1>4

\* alloc_tid returns a tid that no thread of the process holds.
LEMMA AllocTidFacts ==
  ASSUME Inductive, NEW p \in Active, NEW t \in AllocTid(p)
  PROVE  /\ t \in Tid /\ t # 0
         /\ \A i \in Task : process[i] = p => tid[i] # t
         /\ Grow(tlen[p], t) \in 0 .. MaxThreads /\ t < Grow(tlen[p], t)
         /\ tlen[p] <= Grow(tlen[p], t)
<1>1. p \in Pid /\ tlen[p] \in 0 .. MaxThreads /\ MaxThreads \in Nat
  BY ProcessConstants DEF Inductive, TypeOK, Active
<1>2. t \in Tid /\ (t = tlen[p] \/ \A i \in Task : process[i] = p => tid[i] # t)
  BY DEF AllocTid
<1>3. ASSUME t = tlen[p], NEW i \in Task, process[i] = p, tid[i] = t PROVE FALSE
  <2>1. t # None
    BY <1>2, ProcessConstants
  <2>2. i \in Alive /\ i # None
    BY <1>3, <2>1, ProcessConstants DEF Alive
  <2>3. tasks[p][t] = i
    BY <1>3, <2>2 DEF Inductive, Tables
  <2>4. t < tlen[p]
    BY <1>1, <1>2, <2>2, <2>3 DEF Inductive, Tables
  <2> QED BY <1>1, <1>3, <2>4
<1>4. \A i \in Task : process[i] = p => tid[i] # t
  BY <1>2, <1>3
<1>5. t # 0
  BY <1>4, MainFacts
<1>6. t \in Nat /\ t + 1 <= MaxThreads
  BY <1>1, <1>2 DEF Tid
<1> QED BY <1>1, <1>2, <1>4, <1>5, <1>6 DEF Grow

\* clone2 adds a thread, in a free slot or one left by an exited thread.
LEMMA CloneThreadInductive ==
  ASSUME Inductive, NEW k \in Task, CloneThread(k)
  PROVE  Inductive'
<1> DEFINE p == process[k]
<1> USE DEF pcbVars
<1>0. Running(k)
  BY DEF CloneThread, InUser
<1>1. p \in Active /\ p \in Pid
  BY <1>0, RunningFacts
<1>2. PICK t \in AllocTid(p), j \in {j \in Task : process[j] = None} :
        /\ tasks' = [tasks EXCEPT ![p][t] = j]
        /\ tlen' = [tlen EXCEPT ![p] = Grow(@, t)]
        /\ NewTcb(j, p, t)
        /\ UNCHANGED <<futex, block_queue, current>>
        /\ DropTcbs([process EXCEPT ![j] = p])
  BY DEF CloneThread
<1>3. UNCHANGED <<pcbVars, cpu, halt>>
  BY DEF CloneThread
<1> HIDE DEF p
<1>4. j \in Task /\ process[j] = None
  BY <1>2
<1>5. /\ t \in Tid /\ t # 0 /\ \A i \in Task : process[i] = p => tid[i] # t
      /\ Grow(tlen[p], t) \in 0 .. MaxThreads /\ t < Grow(tlen[p], t) /\ tlen[p] <= Grow(tlen[p], t)
  BY <1>1, AllocTidFacts
<1>6. /\ j # None /\ j # current /\ j \notin block_queue /\ j \notin Alive
      /\ \A r \in Pid, s \in Tid : tasks[r][s] # j
      /\ \A r \in Pid, b \in Addr : j \notin ToSet(futex[r][b])
  BY <1>4, FreshFacts
<1>7. /\ tid' \in [Task -> Tid \cup {None}] /\ tid'[j] = t
      /\ status' \in [Task -> {"Ready", "Running", "Blocked"}] /\ BlockedStatus'
      /\ kctx' \in [Task -> {"user", "yield", "wait", "futex"}] /\ kctx'[j] = "user"
      /\ wpid' \in [Task -> Pid \cup {AnyChild, None}]
      /\ \A i \in Task \ {j} : tid'[i] = tid[i] /\ kctx'[i] = kctx[i] /\ wpid'[i] = wpid[i]
      /\ ready_queue' \in Seq(Task) /\ NoDup(ready_queue')
      /\ ToSet(ready_queue') = ToSet(ready_queue) \cup {j}
  BY <1>2, <1>4, <1>5, NewTcbFacts
<1>8. /\ tasks' \in [Pid -> [Tid -> Task \cup {None}]] /\ tlen' \in [Pid -> 0 .. MaxThreads]
      /\ tasks'[p][t] = j
      /\ \A r \in Pid, s \in Tid : r # p \/ s # t => tasks'[r][s] = tasks[r][s]
      /\ \A r \in Pid : r # p => tlen'[r] = tlen[r]
      /\ tlen'[p] = Grow(tlen[p], t)
  BY <1>1, <1>2, <1>4, <1>5 DEF Inductive, TypeOK
<1> DEFINE proc == [process EXCEPT ![j] = p]
<1>9. proc \in [Task -> Pid \cup {None, Gone}] /\ proc[j] = p /\ \A i \in Task \ {j} : proc[i] = process[i]
  BY <1>1, <1>4 DEF Inductive, TypeOK
<1>10. DropTcbs(proc)
  BY <1>2
<1> HIDE DEF proc
<1>11. /\ \A i \in Task : process'[i] = proc[i] \/ process'[i] = None
       /\ \A i \in Task : Referenced(i)' => process'[i] = proc[i]
       /\ \A r \in Pid, s \in Tid : tasks'[r][s] # None => process'[tasks'[r][s]] = proc[tasks'[r][s]]
  BY <1>8, <1>10, DropFacts DEF Inductive
<1>12. process' \in [Task -> Pid \cup {None, Gone}]
  BY <1>9, <1>10, <1>11 DEF DropTcbs
<1>13. TypeOK'
  BY <1>2, <1>3, <1>7, <1>8, <1>12 DEF Inductive, TypeOK
<1>14. Tree'
  BY <1>3, TreeFrame DEF Inductive
<1>15. /\ Active' = Active /\ Active \subseteq Pid /\ None \notin Active
       /\ \A i \in Alive : /\ i \in Task /\ i # j /\ process'[i] = process[i] /\ tid'[i] = tid[i]
                           /\ tasks'[process[i]][tid[i]] = i
  <2>1. Active' = Active /\ Active \subseteq Pid /\ None \notin Active
    BY <1>3, ProcessConstants DEF Inductive, TypeOK, Active
  <2> SUFFICES ASSUME NEW i \in Alive
               PROVE  /\ i \in Task /\ i # j /\ process'[i] = process[i] /\ tid'[i] = tid[i]
                      /\ tasks'[process[i]][tid[i]] = i
    BY <2>1
  <2>2. i \in Task /\ process[i] \in Active /\ tid[i] # None /\ i # j /\ i # None
    BY <1>6, ProcessConstants DEF Alive
  <2>3. process[i] \in Pid /\ tid[i] \in Tid /\ tasks[process[i]][tid[i]] = i
    BY <2>1, <2>2 DEF Inductive, Tables, TypeOK
  <2>4. tasks'[process[i]][tid[i]] = i
    BY <1>5, <1>8, <2>2, <2>3
  <2>5. process'[i] = process[i]
    BY <1>9, <1>11, <2>2, <2>3, <2>4
  <2> QED BY <1>7, <2>2, <2>4, <2>5
<1>16. process'[j] = p /\ Alive' = Alive \cup {j}
  <2>1. process'[j] = p
    BY <1>1, <1>5, <1>6, <1>8, <1>9, <1>11
  <2>2. \A i \in Task : i \in Alive' <=> i \in Alive \/ i = j
    <3> TAKE i \in Task
    <3>1. CASE i = j
      <4>1. t # None
        BY <1>5, ProcessConstants
      <4> QED BY <1>1, <1>7, <1>15, <2>1, <3>1, <4>1 DEF Alive
    <3>2. CASE i # j
      <4>1. tid'[i] = tid[i] /\ (process'[i] = process[i] \/ process'[i] = None)
        BY <1>7, <1>9, <1>11, <3>2
      <4> QED BY <1>15, <3>2, <4>1 DEF Alive
    <3> QED BY <3>1, <3>2
  <2> QED BY <1>4, <2>1, <2>2 DEF Alive
<1>17. Tables'
  <2>1. ASSUME NEW r \in Pid, NEW s \in Tid, tasks'[r][s] # None
        PROVE  /\ r \in Active /\ s < tlen'[r]
               /\ process'[tasks'[r][s]] = r /\ tid'[tasks'[r][s]] \in {s, None}
    <3>1. CASE r = p /\ s = t
      BY <1>1, <1>5, <1>7, <1>8, <1>16, <3>1
    <3>2. CASE r # p \/ s # t
      <4>1. tasks'[r][s] = tasks[r][s] /\ tasks[r][s] # j /\ tasks[r][s] \in Task
        BY <1>6, <1>8, <2>1, <3>2 DEF Inductive, TypeOK
      <4>2. r \in Active /\ s < tlen[r] /\ process[tasks[r][s]] = r /\ tid[tasks[r][s]] \in {s, None}
        BY <2>1, <4>1 DEF Inductive, Tables
      <4>3. process'[tasks[r][s]] = process[tasks[r][s]] /\ tid'[tasks[r][s]] = tid[tasks[r][s]]
        BY <1>7, <1>9, <1>11, <2>1, <4>1
      <4>4. s < tlen'[r]
        <5>1. tlen[r] \in Int /\ tlen'[r] \in Int /\ s \in Int /\ tlen[r] <= tlen'[r]
          <6>1. MaxThreads \in Nat /\ tlen[r] \in 0 .. MaxThreads /\ tlen'[r] \in 0 .. MaxThreads
            BY <1>8, ProcessConstants DEF Inductive, TypeOK
          <6>2. tlen[r] <= tlen'[r]
            BY <1>5, <1>8, <6>1
          <6> QED BY <6>1, <6>2 DEF Tid
        <5> QED BY <4>2, <5>1
      <4> QED BY <4>1, <4>2, <4>3, <4>4
    <3> QED BY <3>1, <3>2
  <2>2. \A i \in Alive' : tasks'[process'[i]][tid'[i]] = i
    BY <1>7, <1>8, <1>15, <1>16
  <2>3. \A r \in Active : tasks'[r][0] # None /\ tid'[tasks'[r][0]] = 0
    <3> TAKE r \in Active
    <3>1. r \in Pid /\ tasks[r][0] \in Task /\ tasks[r][0] # j /\ tid[tasks[r][0]] = 0
      BY <1>6, <1>15, MainFacts, ZeroTid
    <3>2. tasks'[r][0] = tasks[r][0]
      BY <1>5, <1>8, <3>1, ZeroTid
    <3> QED BY <1>7, <3>1, <3>2, ProcessConstants
  <2> QED BY <1>15, <2>1, <2>2, <2>3 DEF Tables
<1>18. \A r \in Pid : tasks'[r][0] = tasks[r][0]
  BY <1>5, <1>8, ZeroTid
<1>19. Refs'
  <2>1. \A i \in Task : InBlock(i)' => InBlock(i)
    BY <1>7 DEF InBlock
  <2>2. \A r \in Pid, s \in Tid : tasks'[r][s] = tasks[r][s] \/ tasks'[r][s] = j
    BY <1>8
  <2>3. \A i \in Task : Referenced(i)' => Referenced(i) \/ i = j
    BY <1>2, <1>7, <2>1, <2>2 DEF Referenced
  <2>4. \A i \in Task : Referenced(i)' => process'[i] # None
    BY <1>1, <1>9, <1>11, <1>15, <1>16, <2>3 DEF Inductive, Refs
  <2>5. \A i \in Task : process'[i] \in Pid => process'[i] \in live'
    BY <1>1, <1>3, <1>9, <1>11, <1>16, ProcessConstants DEF Inductive, Refs, Active
  <2> QED BY <2>4, <2>5 DEF Refs
<1>20. OnePlace'
  BY <1>2, <1>6, <1>7, <1>16 DEF Inductive, OnePlace
<1>21. \A i \in block_queue : i \in Task /\ i # j /\ kctx'[i] = kctx[i] /\ wpid'[i] = wpid[i]
  BY <1>6, <1>7 DEF Inductive, TypeOK
<1>22. NoSleepOnZombie'
  <2>1. live \subseteq Pid
    BY DEF Inductive, TypeOK
  <2> QED BY <1>2, <1>3, <1>18, <1>21, <2>1 DEF Inductive, NoSleepOnZombie, Awaited
<1>23. \A r \in Active, b \in Addr : \A i \in ToSet(futex[r][b]) : i \in Task /\ i # j
  <2>1. \A r \in Active, b \in Addr : ToSet(futex[r][b]) \subseteq Task
    BY <1>15, ToSetSubset DEF Inductive, TypeOK
  <2> QED BY <1>6, <1>15, <2>1
<1>24. FutexQueues'
  <2>1. \A i \in block_queue : \A r \in Active : process'[i] = r => process[i] = r
    BY <1>9, <1>11, <1>15, <1>21
  <2>2. \A r \in Active, b \in Addr : \A i \in ToSet(futex[r][b]) : kctx'[i] = kctx[i]
    BY <1>7, <1>23
  <2> QED BY <1>2, <1>15, <1>18, <1>21, <2>1, <2>2 DEF Inductive, FutexQueues
<1>25. Waiters'
  <2>1. \A r \in Active, b \in Addr : \A i \in ToSet(futex[r][b]) : i \in Alive' /\ process'[i] = r
    BY <1>15, <1>16 DEF Inductive, Waiters
  <2>2. futex' = futex /\ live' = live /\ Active' = Active
    BY <1>2, <1>3, <1>15
  <2>3. Waiters
    BY DEF Inductive
  <2>4. \A r \in Active : tasks'[r][0] = tasks[r][0]
    BY <1>15, <1>18
  <2> QED BY <2>1, <2>2, <2>3, <2>4 DEF Waiters
<1> QED BY <1>7, <1>13, <1>14, <1>17, <1>19, <1>20, <1>22, <1>24, <1>25 DEF Inductive

\* What fork does when it finds a free pid and a free thread.
ForkStep(k, c, j) ==
  /\ live' = live \cup {c}
  /\ parent' = [parent EXCEPT ![c] = process[k]]
  /\ children' = [children EXCEPT ![process[k]] = @ \cup {c}]
  /\ pid2pcb' = pid2pcb \cup {c}
  /\ tasks' = [tasks EXCEPT ![c] = [NoThreads EXCEPT ![0] = j]]
  /\ tlen' = [tlen EXCEPT ![c] = 1]
  /\ process' = [process EXCEPT ![j] = c]
  /\ NewTcb(j, c, 0)
  /\ UNCHANGED <<zombie, futex, block_queue, current, cpu, halt>>

\* fork adds a process with one thread.
LEMMA ForkInductive ==
  ASSUME Inductive, NEW k \in Task, Running(k), NEW c \in Pid \ live,
         NEW j \in Task, process[j] = None, ForkStep(k, c, j)
  PROVE  Inductive'
<1>0. /\ live' = live \cup {c} /\ pid2pcb' = pid2pcb \cup {c} /\ zombie' = zombie
      /\ futex' = futex /\ block_queue' = block_queue /\ current' = current
      /\ cpu' = cpu /\ halt' = halt
  BY DEF ForkStep
<1> DEFINE p == process[k]
<1>1. p \in Active /\ p \in Pid /\ p # c /\ INITPROC \in live /\ INITPROC # c
  BY RunningFacts DEF Inductive, Tree, Active
<1> HIDE DEF p
<1>2. /\ j # None /\ j # current /\ j \notin block_queue /\ j \notin Alive
      /\ \A r \in Pid, s \in Tid : tasks[r][s] # j
      /\ \A r \in Pid, b \in Addr : j \notin ToSet(futex[r][b])
  BY FreshFacts
<1>3. /\ tid'[j] = 0 /\ kctx'[j] = "user"
      /\ \A i \in Task \ {j} : tid'[i] = tid[i] /\ kctx'[i] = kctx[i] /\ wpid'[i] = wpid[i]
      /\ NoDup(ready_queue') /\ ToSet(ready_queue') = ToSet(ready_queue) \cup {j}
      /\ BlockedStatus'
  BY NewTcbFacts, ZeroTid DEF ForkStep
<1>4. /\ tasks'[c][0] = j /\ \A s \in Tid \ {0} : tasks'[c][s] = None
      /\ \A r \in Pid \ {c} : tasks'[r] = tasks[r]
  BY ZeroTid DEF ForkStep, Inductive, TypeOK, NoThreads
<1>5. tlen'[c] = 1 /\ \A r \in Pid \ {c} : tlen'[r] = tlen[r]
  BY DEF ForkStep, Inductive, TypeOK
<1>6. /\ parent'[c] = p /\ \A x \in Pid \ {c} : parent'[x] = parent[x]
      /\ children'[p] = children[p] \cup {c} /\ \A r \in Pid \ {p} : children'[r] = children[r]
  BY <1>1 DEF ForkStep, Inductive, TypeOK, p
<1>7. process'[j] = c /\ \A i \in Task \ {j} : process'[i] = process[i] /\ process[i] # c
  BY DEF ForkStep, Inductive, TypeOK, Refs
<1>8. TypeOK'
  <2>1. /\ tid' \in [Task -> Tid \cup {None}] /\ wpid' \in [Task -> Pid \cup {AnyChild, None}]
        /\ status' \in [Task -> {"Ready", "Running", "Blocked"}]
        /\ kctx' \in [Task -> {"user", "yield", "wait", "futex"}] /\ ready_queue' \in Seq(Task)
    BY NewTcbFacts, ZeroTid DEF ForkStep
  <2>2. tasks' \in [Pid -> [Tid -> Task \cup {None}]]
    BY ZeroTid DEF ForkStep, Inductive, TypeOK, NoThreads
  <2>3. tlen' \in [Pid -> 0 .. MaxThreads]
    BY ProcessConstants DEF ForkStep, Inductive, TypeOK
  <2>4. parent' \in [Pid -> Pid \cup {None}] /\ children' \in [Pid -> SUBSET Pid]
    BY <1>1 DEF ForkStep, Inductive, TypeOK, p
  <2>5. process' \in [Task -> Pid \cup {None, Gone}]
    BY DEF ForkStep, Inductive, TypeOK
  <2> QED BY <1>0, <2>1, <2>2, <2>3, <2>4, <2>5 DEF Inductive, TypeOK
<1>9. Active' = Active \cup {c} /\ Active \subseteq Pid /\ c \notin Active
  BY <1>0 DEF Inductive, TypeOK, Active
<1>10. Tree'
  <2>1. INITPROC \in Active' /\ pid2pcb' = Active'
    BY <1>0, <1>9 DEF Inductive, Tree
  <2>2. \A r \in Pid : children'[r] \subseteq live' \ {INITPROC}
    <3>1. \A r \in Pid : children[r] \subseteq live \ {INITPROC}
      BY DEF Inductive, Tree
    <3> QED BY <1>0, <1>1, <1>6, <3>1
  <2>3. \A r \in Pid \ Active' : children'[r] = {}
    BY <1>0, <1>1, <1>6, <1>9 DEF Inductive, Tree
  <2>4. ASSUME NEW x \in live' \ {INITPROC}
        PROVE  /\ parent'[x] # x /\ parent'[x] \in Active'
               /\ \A r \in Pid : x \in children'[r] <=> r = parent'[x]
    <3>1. CASE x = c
      <4>1. \A r \in Pid : c \notin children[r]
        BY <1>0 DEF Inductive, Tree
      <4> QED BY <1>0, <1>1, <1>6, <1>9, <3>1, <4>1
    <3>2. CASE x # c
      <4>1. x \in live \ {INITPROC} /\ x \in Pid
        BY <1>0, <3>2 DEF Inductive, TypeOK
      <4>2. /\ parent[x] # x /\ parent[x] \in Active
            /\ \A r \in Pid : x \in children[r] <=> r = parent[x]
        BY <1>0, <4>1 DEF Inductive, Tree, ProcessTree
      <4> QED BY <1>1, <1>6, <1>9, <3>2, <4>1, <4>2
    <3> QED BY <3>1, <3>2
  <2> QED BY <1>0, <2>1, <2>2, <2>3, <2>4 DEF Tree, ProcessTree
<1>11. Alive' = Alive \cup {j}
  <2>1. 0 # None
    BY <1>0, ZeroTid, ProcessConstants
  <2>2. \A i \in Task : i \in Alive' <=> i \in Alive \/ i = j
    BY <1>0, <1>3, <1>7, <1>9, <2>1 DEF Alive
  <2> QED BY <1>0, <2>2 DEF Alive
<1>12. \A i \in Alive : i \in Task /\ i # j
  BY <1>0, <1>2 DEF Alive
<1>13. Tables'
  <2>1. ASSUME NEW r \in Pid, NEW s \in Tid, tasks'[r][s] # None
        PROVE  /\ r \in Active' /\ s < tlen'[r]
               /\ process'[tasks'[r][s]] = r /\ tid'[tasks'[r][s]] \in {s, None}
    <3>1. CASE r = c
      <4>1. s = 0 /\ tasks'[r][s] = j
        BY <1>4, <2>1, <3>1
      <4>2. r \in Active' /\ s < tlen'[r]
        BY <1>5, <1>9, <3>1, <4>1
      <4>3. process'[j] = r /\ tid'[j] = s
        BY <1>3, <1>7, <3>1, <4>1
      <4> QED BY <4>1, <4>2, <4>3
    <3>2. CASE r # c
      <4>1. tasks'[r][s] = tasks[r][s] /\ tasks[r][s] \in Task /\ tasks[r][s] # j
        BY <1>0, <1>2, <1>4, <2>1, <3>2 DEF Inductive, TypeOK
      <4>2. r \in Active /\ s < tlen[r] /\ process[tasks[r][s]] = r /\ tid[tasks[r][s]] \in {s, None}
        BY <2>1, <4>1 DEF Inductive, Tables
      <4>3. r \in Active' /\ s < tlen'[r]
        BY <1>5, <1>9, <3>2, <4>2
      <4>4. process'[tasks[r][s]] = r /\ tid'[tasks[r][s]] \in {s, None}
        BY <1>3, <1>7, <4>1, <4>2
      <4> QED BY <4>1, <4>3, <4>4
    <3> QED BY <3>1, <3>2
  <2>2. \A i \in Alive' : tasks'[process'[i]][tid'[i]] = i
    <3> SUFFICES ASSUME NEW i \in Alive, i # j PROVE tasks'[process'[i]][tid'[i]] = i
      BY <1>0, <1>3, <1>4, <1>7, <1>11
    <3>1. i \in Task /\ process[i] \in Active /\ tasks[process[i]][tid[i]] = i
      BY <1>0 DEF Alive, Inductive, Tables
    <3>2. process[i] \in Pid \ {c}
      BY <1>0, <1>9, <3>1
    <3>3. process'[i] = process[i] /\ tid'[i] = tid[i] /\ tasks'[process[i]] = tasks[process[i]]
      BY <1>3, <1>4, <1>7, <3>1, <3>2
    <3> QED BY <3>1, <3>3
  <2>3. \A r \in Active' : tasks'[r][0] # None /\ tid'[tasks'[r][0]] = 0
    <3> TAKE r \in Active'
    <3>1. CASE r = c
      BY <1>0, <1>2, <1>3, <1>4, <3>1
    <3>2. CASE r # c
      <4>1. r \in Active /\ r \in Pid
        BY <1>0, <1>9, <3>2
      <4>2. tasks[r][0] \in Task /\ tid[tasks[r][0]] = 0 /\ tasks[r][0] # j
        BY <1>0, <1>2, <4>1, MainFacts, ZeroTid
      <4> QED BY <1>0, <1>3, <1>4, <3>2, <4>1, <4>2, ProcessConstants
    <3> QED BY <3>1, <3>2
  <2> QED BY <1>0, <2>1, <2>2, <2>3 DEF Tables
<1>14. Refs'
  <2>1. \A i \in Task : InBlock(i)' => InBlock(i)
    BY <1>0, <1>3 DEF InBlock
  <2>2. \A r \in Pid, s \in Tid : tasks'[r][s] \in {tasks[r][s], j, None}
    BY <1>0, <1>4
  <2>3. \A i \in Task : Referenced(i)' => Referenced(i) \/ i = j
    BY <1>0, <1>3, <2>1, <2>2, ProcessConstants DEF Referenced
  <2>4. \A i \in Task : Referenced(i)' => process'[i] # None
    BY <1>0, <1>7, <2>3, ProcessConstants DEF Inductive, Refs
  <2>5. \A i \in Task : process'[i] \in Pid => process'[i] \in live'
    BY <1>0, <1>7 DEF Inductive, Refs
  <2> QED BY <1>0, <2>4, <2>5 DEF Refs
<1>15. OnePlace'
  BY <1>0, <1>2, <1>3, <1>11 DEF Inductive, OnePlace
<1>16. \A i \in block_queue : i \in Task /\ i # j /\ kctx'[i] = kctx[i] /\ wpid'[i] = wpid[i]
  BY <1>0, <1>2, <1>3 DEF Inductive, TypeOK
<1>17. NoSleepOnZombie'
  <2> SUFFICES ASSUME NEW r \in live' \ {INITPROC}, NEW i \in block_queue,
                      tasks'[r][0] = i, kctx'[i] = "wait"
               PROVE  Awaited(r, wpid[i])' \cap zombie = {}
    BY <1>0, <1>16 DEF NoSleepOnZombie, Awaited
  <2>1. r # c /\ r \in live \ {INITPROC} /\ r \in Pid
    BY <1>0, <1>4, <1>16 DEF Inductive, TypeOK
  <2>2. Awaited(r, wpid[i]) \cap zombie = {}
    <3>1. tasks'[r] = tasks[r] /\ kctx'[i] = kctx[i]
      BY <1>4, <1>16, <2>1
    <3>2. tasks[r][0] = i /\ kctx[i] = "wait"
      BY <3>1
    <3>3. NoSleepOnZombie
      BY DEF Inductive
    <3> QED BY <2>1, <3>2, <3>3 DEF NoSleepOnZombie
  <2>3. c \notin zombie
    BY <1>0 DEF Inductive, TypeOK
  <2>4. children'[r] \cap zombie = children[r] \cap zombie
    <3>1. children'[r] = children[r] \/ children'[r] = children[r] \cup {c}
      BY <1>6, <2>1
    <3> QED BY <2>3, <3>1
  <2>5. wpid'[i] = wpid[i]
    BY <1>16
  <2> QED BY <2>2, <2>4, <2>5 DEF Awaited
<1>18. \A b \in Addr : futex[c][b] = <<>> /\ ToSet(futex[c][b]) = {} /\ Len(futex[c][b]) = 0
  <2>1. futex[c] = NoWaiters
    BY DEF Inductive, Waiters
  <2> QED BY <2>1, EmptyFacts DEF NoWaiters
<1>19. FutexQueues'
  <2>1. ASSUME NEW r \in Active', NEW i \in block_queue, process'[i] = r, kctx'[i] = "futex"
        PROVE  \E b \in Addr : i \in ToSet(futex[r][b])
    BY <1>0, <1>7, <1>9, <1>16, <2>1 DEF Inductive, FutexQueues
  <2>2. ASSUME NEW r \in Active', NEW b \in Addr, NEW i \in ToSet(futex[r][b]), i # tasks'[r][0]
        PROVE  i \in block_queue /\ kctx'[i] = "futex"
    <3>1. r # c
      BY <1>18
    <3>2. r \in Active /\ r \in Pid /\ tasks'[r] = tasks[r]
      BY <1>0, <1>4, <1>9, <3>1
    <3>3. i # tasks[r][0]
      BY <1>0, <2>2, <3>2
    <3>4. i \in block_queue /\ kctx[i] = "futex"
      BY <1>0, <2>2, <3>2, <3>3 DEF Inductive, FutexQueues
    <3> QED BY <1>16, <3>4
  <2> QED BY <1>0, <2>1, <2>2 DEF FutexQueues
<1>20. Waiters'
  <2>1. \A r \in Pid \ live' : futex[r] = NoWaiters
    BY <1>0 DEF Inductive, Waiters
  <2>2. \A r \in Active', b \in Addr : \A i \in ToSet(futex[r][b]) : i \in Alive' /\ process'[i] = r
    <3> TAKE r \in Active', b \in Addr
    <3>1. CASE r = c
      BY <1>18, <3>1
    <3>2. CASE r # c
      <4>1. r \in Active
        BY <1>9, <3>2
      <4>2. \A i \in ToSet(futex[r][b]) : i \in Alive /\ process[i] = r
        BY <4>1 DEF Inductive, Waiters
      <4> QED BY <1>7, <1>11, <1>12, <4>2
    <3> QED BY <3>1, <3>2
  <2>3. \A r \in Active', b \in Addr : Once(futex[r][b], tasks'[r][0])
    <3> TAKE r \in Active', b \in Addr
    <3>1. CASE r = c
      BY <1>0, <1>18, <3>1 DEF Once
    <3>2. CASE r # c
      BY <1>0, <1>4, <1>9, <3>2 DEF Inductive, Waiters
    <3> QED BY <3>1, <3>2
  <2>4. \A r \in Active', a, b \in Addr : a # b =>
          ToSet(futex[r][a]) \cap ToSet(futex[r][b]) \subseteq {tasks'[r][0]}
    <3> TAKE r \in Active', a, b \in Addr
    <3>1. CASE r = c
      BY <1>0, <1>18, <3>1
    <3>2. CASE r # c
      BY <1>0, <1>4, <1>9, <3>2 DEF Inductive, Waiters
    <3> QED BY <3>1, <3>2
  <2> QED BY <1>0, <2>1, <2>2, <2>3, <2>4 DEF Waiters
<1> QED BY <1>0, <1>3, <1>8, <1>10, <1>13, <1>14, <1>15, <1>17, <1>19, <1>20 DEF Inductive

-----------------------------------------------------------------------------
(* The exit of a thread and of a process. *)

\* The thread that exit_current_and_run_next wakes: none, or the blocked main
\* thread of the parent; afterwards that thread is not blocked.
LEMMA WokenFacts ==
  ASSUME Inductive, NEW p \in Active, NEW m, m = WokenByExit(p)
  PROVE  /\ {m} \cap block_queue \subseteq Alive
         /\ m # None => m \in Task /\ process[m] # p /\ m = tasks[process[m]][0]
         /\ p # INITPROC => tasks[parent[p]][0] \notin block_queue \ {m}
<1>1. CASE p = INITPROC
  <2>1. m = None /\ None \notin block_queue
    BY <1>1, ProcessConstants DEF WokenByExit, Inductive, TypeOK
  <2> QED BY <1>1, <2>1
<1>2. CASE p # INITPROC
  <2> DEFINE r == parent[p]
             x == tasks[r][0]
  <2>1. p \in live \ {INITPROC}
    BY <1>2 DEF Active
  <2>2. r \in Active /\ r # p
    BY <2>1 DEF Inductive, Tree, ProcessTree
  <2>3. x \in Task /\ x \in Alive /\ process[x] = r
    BY <2>2, MainFacts
  <2>4. m = IF status[x] = "Blocked" THEN x ELSE None
    BY <1>2 DEF WokenByExit
  <2> HIDE DEF r, x
  <2>5. status[x] = "Blocked" <=> x \in block_queue
    BY <2>3 DEF Inductive, BlockedStatus
  <2>6. None \notin block_queue
    BY ProcessConstants DEF Inductive, TypeOK
  <2> QED BY <2>2, <2>3, <2>4, <2>5, <2>6 DEF r, x
<1> QED BY <1>1, <1>2

\* A thread other than the main one exits.
LEMMA ExitThreadInductive ==
  ASSUME Inductive, NEW k \in Task, ExitThread(k)
  PROVE  Inductive'
<1> DEFINE p == process[k]
           m == WokenByExit(p)
<1> USE DEF pcbVars
<1>0. Running(k) /\ tid[k] # 0
  BY DEF ExitThread, InUser
<1>1. /\ k = current /\ k # None /\ k \in Alive /\ p \in Active /\ p \in Pid
      /\ k \notin block_queue /\ k \notin ToSet(ready_queue)
  BY <1>0, RunningFacts
<1>2. /\ status' = UnblockStatus(m) /\ ready_queue' = UnblockReady(m)
      /\ block_queue' = block_queue \ {m}
      /\ tid' = [tid EXCEPT ![k] = None] /\ current' = None
      /\ UNCHANGED <<pcbVars, tasks, tlen, futex, process, kctx, wpid, cpu, halt>>
  BY DEF ExitThread
<1>3. /\ {m} \cap block_queue \subseteq Alive
      /\ m # None => m \in Task /\ process[m] # p /\ m = tasks[process[m]][0]
  BY <1>1, WokenFacts
<1> HIDE DEF p, m
<1>4. /\ ready_queue' \in Seq(Task) /\ NoDup(ready_queue')
      /\ ToSet(ready_queue') = ToSet(ready_queue) \cup ({m} \cap block_queue)
      /\ BlockedStatus' /\ status' \in [Task -> {"Ready", "Running", "Blocked"}]
  BY <1>2, UnblockFacts
<1>5. TypeOK'
  BY <1>2, <1>4 DEF Inductive, TypeOK
<1>6. Tree'
  BY <1>2, TreeFrame DEF Inductive
<1>7. /\ Active' = Active /\ Active \subseteq Pid
      /\ tid'[k] = None /\ \A i \in Task \ {k} : tid'[i] = tid[i]
      /\ Alive' = Alive \ {k}
  <2>1. Active' = Active /\ Active \subseteq Pid
    BY <1>2 DEF Inductive, TypeOK, Active
  <2>2. tid'[k] = None /\ \A i \in Task \ {k} : tid'[i] = tid[i]
    BY <1>2 DEF Inductive, TypeOK
  <2> QED BY <1>2, <2>1, <2>2 DEF Alive
<1>8. Tables'
  <2>1. \A r \in Pid, s \in Tid : tasks[r][s] # None =>
          /\ r \in Active /\ s < tlen[r]
          /\ process[tasks[r][s]] = r /\ tid'[tasks[r][s]] \in {s, None}
    <3>1. \A r \in Pid, s \in Tid : tasks[r][s] # None => tasks[r][s] \in Task
      BY DEF Inductive, TypeOK
    <3> QED BY <1>7, <3>1 DEF Inductive, Tables
  <2>2. \A i \in Alive' : tasks[process[i]][tid'[i]] = i
    <3>1. \A i \in Alive' : i \in Alive /\ i \in Task /\ i # k
      BY <1>7 DEF Alive
    <3> QED BY <1>7, <3>1 DEF Inductive, Tables
  <2>3. \A r \in Active : tasks[r][0] # None /\ tid'[tasks[r][0]] = 0
    <3> TAKE r \in Active
    <3>1. tasks[r][0] \in Task /\ tid[tasks[r][0]] = 0
      BY MainFacts
    <3> QED BY <1>0, <1>7, <3>1, ProcessConstants
  <2> QED BY <1>2, <1>7, <2>1, <2>2, <2>3 DEF Tables
<1>9. Refs'
  <2>1. \A j \in Task : Referenced(j)' => Referenced(j)
    BY <1>2, <1>4, ProcessConstants DEF Referenced, InBlock
  <2> QED BY <1>2, <2>1, RefsFrame DEF Inductive
<1>10. OnePlace'
  <2>1. None \notin ToSet(ready_queue') /\ None \notin block_queue
    BY <1>4, ToSetSubset, ProcessConstants DEF Inductive, TypeOK
  <2> QED BY <1>1, <1>2, <1>3, <1>4, <1>7, <2>1 DEF Inductive, OnePlace
<1>11. NoSleepOnZombie'
  BY <1>2 DEF Inductive, NoSleepOnZombie, Awaited
<1>12. \A r \in Active, b \in Addr : \A i \in ToSet(futex[r][b]) :
         i \in Alive /\ process[i] = r /\ i # k
  <2> SUFFICES ASSUME NEW r \in Active, NEW b \in Addr, NEW i \in ToSet(futex[r][b])
               PROVE  i \in Alive /\ process[i] = r /\ i # k
    OBVIOUS
  <2>1. i \in Alive /\ process[i] = r
    BY DEF Inductive, Waiters
  <2>2. i # k
    <3> SUFFICES ASSUME i = k PROVE FALSE
      OBVIOUS
    <3>1. k = tasks[process[k]][0]
      BY <1>0, <2>1, RunningNotQueued
    <3>2. tid[tasks[process[k]][0]] = 0
      BY <2>1, MainFacts
    <3> QED BY <1>0, <3>1, <3>2
  <2> QED BY <2>1, <2>2
<1>13. FutexQueues'
  <2>1. ASSUME NEW r \in Active, NEW b \in Addr, NEW i \in ToSet(futex[r][b]), i # tasks[r][0]
        PROVE  i \in block_queue' /\ kctx[i] = "futex"
    <3>1. i \in block_queue /\ kctx[i] = "futex" /\ process[i] = r /\ i # None
      BY <1>12, <2>1, ProcessConstants DEF Inductive, FutexQueues, Alive
    <3>2. i # m
      BY <1>3, <2>1, <3>1
    <3> QED BY <1>2, <3>1, <3>2
  <2> QED BY <1>2, <1>7, <2>1 DEF Inductive, FutexQueues
<1>14. Waiters'
  BY <1>2, <1>7, <1>12 DEF Inductive, Waiters
<1> QED BY <1>4, <1>5, <1>6, <1>8, <1>9, <1>10, <1>11, <1>13, <1>14 DEF Inductive

\* The threads in the table of a process belong to it, and every thread of it
\* that has not exited is there.
LEMMA ThreadsFacts ==
  ASSUME Inductive, NEW p \in Active
  PROVE  /\ Threads(p) \subseteq Task
         /\ \A i \in Threads(p) : process[i] = p
         /\ \A i \in Alive : process[i] = p => i \in Threads(p)
<1>1. p \in Pid
  BY DEF Inductive, TypeOK, Active
<1>2. \A i \in Threads(p) : \E s \in Tid : i = tasks[p][s] /\ tasks[p][s] # None
  BY DEF Threads
<1>3. \A i \in Alive : process[i] = p => tid[i] \in Tid /\ tasks[p][tid[i]] = i /\ i # None
  BY ProcessConstants DEF Inductive, TypeOK, Tables, Alive
<1> QED BY <1>1, <1>2, <1>3 DEF Inductive, TypeOK, Tables, Threads

\* The main thread exits and its process becomes a zombie.
LEMMA ExitMainInductive ==
  ASSUME Inductive, NEW k \in Task, ExitMain(k)
  PROVE  Inductive'
<1> DEFINE p == process[k]
           m == WokenByExit(p)
           Th == Threads(p)
<1>0. Running(k) /\ tid[k] = 0 /\ p # INITPROC
  BY DEF ExitMain, InUser
<1>1. /\ k = current /\ k # None /\ k \in Alive /\ p \in Active /\ p \in Pid
      /\ p \in live \ {INITPROC}
  BY <1>0, RunningFacts DEF Active
<1>2. /\ pid2pcb' = pid2pcb \ {p} /\ zombie' = zombie \cup {p}
      /\ parent' = [c \in Pid |-> IF c \in children[p] THEN INITPROC ELSE parent[c]]
      /\ children' = [children EXCEPT ![INITPROC] = @ \cup children[p], ![p] = {}]
      /\ status' = UnblockStatus(m)
      /\ ready_queue' = Without(UnblockReady(m), Th)
      /\ block_queue' = block_queue \ {m}
      /\ tid' = [j \in Task |-> IF j \in Th THEN None ELSE tid[j]]
      /\ tasks' = [tasks EXCEPT ![p] = NoThreads]
      /\ tlen' = [tlen EXCEPT ![p] = 0] /\ current' = None
      /\ UNCHANGED <<live, futex, kctx, wpid, cpu, halt>>
      /\ DropTcbs(process)
  BY DEF ExitMain, RemoveFromPid2pcb, Reparented, ReadyAfterExit
<1>3. /\ {m} \cap block_queue \subseteq Alive
      /\ m # None => m \in Task /\ process[m] # p /\ m = tasks[process[m]][0]
      /\ tasks[parent[p]][0] \notin block_queue \ {m}
  BY <1>0, <1>1, WokenFacts
<1>4. /\ Th \subseteq Task /\ \A i \in Th : process[i] = p
      /\ \A i \in Alive : process[i] = p => i \in Th
  BY <1>1, ThreadsFacts
<1> HIDE DEF p, m, Th
<1>5. /\ k \in Th /\ m \notin Th
  BY <1>1, <1>3, <1>4, ProcessConstants DEF p
<1>6. /\ ready_queue' \in Seq(Task) /\ NoDup(ready_queue')
      /\ ToSet(ready_queue') = (ToSet(ready_queue) \cup ({m} \cap block_queue)) \ Th
      /\ BlockedStatus' /\ status' \in [Task -> {"Ready", "Running", "Blocked"}]
  <2> DEFINE rq == UnblockReady(m)
  <2>1. /\ rq \in Seq(Task) /\ NoDup(rq)
        /\ ToSet(rq) = ToSet(ready_queue) \cup ({m} \cap block_queue)
        /\ BlockedStatus' /\ status' \in [Task -> {"Ready", "Running", "Blocked"}]
    BY <1>2, UnblockFacts
  <2>2. ready_queue' = Without(rq, Th)
    BY <1>2
  <2> HIDE DEF rq
  <2> QED BY <2>1, <2>2, WithoutFacts
<1>7. /\ tasks' \in [Pid -> [Tid -> Task \cup {None}]] /\ tlen' \in [Pid -> 0 .. MaxThreads]
      /\ \A s \in Tid : tasks'[p][s] = None
      /\ \A r \in Pid \ {p} : tasks'[r] = tasks[r] /\ tlen'[r] = tlen[r]
  BY <1>1, <1>2, ProcessConstants DEF Inductive, TypeOK, NoThreads
<1>8. /\ \A i \in Task : process'[i] = process[i] \/ process'[i] = None
      /\ \A i \in Task : Referenced(i)' => process'[i] = process[i]
      /\ \A r \in Pid, s \in Tid : tasks'[r][s] # None => process'[tasks'[r][s]] = process[tasks'[r][s]]
  <2>1. TypeOK /\ DropTcbs(process)
    BY <1>2 DEF Inductive
  <2>2. tasks' \in [Pid -> [Tid -> Task \cup {None}]]
    BY <1>7
  <2> QED BY <2>1, <2>2, DropFacts
<1>9. process' \in [Task -> Pid \cup {None, Gone}]
  BY <1>2, <1>8 DEF DropTcbs, Inductive, TypeOK
<1>10. tid' \in [Task -> Tid \cup {None}] /\ \A i \in Task : tid'[i] = IF i \in Th THEN None ELSE tid[i]
  BY <1>2 DEF Inductive, TypeOK
<1>11. /\ parent' \in [Pid -> Pid \cup {None}] /\ children' \in [Pid -> SUBSET Pid]
       /\ \A c \in Pid : parent'[c] = IF c \in children[p] THEN INITPROC ELSE parent[c]
       /\ children'[p] = {} /\ children'[INITPROC] = children[INITPROC] \cup children[p]
       /\ \A r \in Pid \ {p, INITPROC} : children'[r] = children[r]
  BY <1>0, <1>1, <1>2, ProcessConstants DEF Inductive, TypeOK
<1>12. TypeOK'
  <2>1. live' \subseteq Pid /\ zombie' \subseteq live' /\ pid2pcb' \subseteq live'
    BY <1>1, <1>2 DEF Inductive, TypeOK
  <2>2. block_queue' \subseteq Task /\ current' \in Task \cup {None} /\ cpu' \in Task \cup {None}
    BY <1>2 DEF Inductive, TypeOK
  <2>3. futex' = futex /\ kctx' = kctx /\ wpid' = wpid /\ halt' = halt /\ TypeOK
    BY <1>2 DEF Inductive
  <2> QED BY <1>6, <1>7, <1>9, <1>10, <1>11, <2>1, <2>2, <2>3 DEF TypeOK
<1>13. Active' = Active \ {p} /\ Active \subseteq Pid /\ None \notin Active
  BY <1>2, ProcessConstants DEF Inductive, TypeOK, Active
<1>14. Tree'
  <2>1. INITPROC \in Active' /\ pid2pcb' = Active' /\ INITPROC \in Pid
    BY <1>0, <1>2, <1>13 DEF Inductive, Tree
  <2>2. \A r \in Pid : children'[r] \subseteq live \ {INITPROC}
    BY <1>1, <1>11 DEF Inductive, Tree
  <2>3. \A r \in Pid \ Active' : children'[r] = {}
    BY <1>11, <1>13, <2>1 DEF Inductive, Tree
  <2>4. ASSUME NEW x \in live \ {INITPROC}
        PROVE  /\ parent'[x] # x /\ parent'[x] \in Active'
               /\ \A r \in Pid : x \in children'[r] <=> r = parent'[x]
    <3>1. /\ x \in Pid /\ parent[x] # x /\ parent[x] \in Active /\ parent[x] \in Pid
          /\ \A r \in Pid : x \in children[r] <=> r = parent[x]
      BY <1>13 DEF Inductive, TypeOK, Tree, ProcessTree
    <3>2. CASE parent[x] = p
      BY <1>0, <1>1, <1>11, <1>13, <2>1, <3>1, <3>2
    <3>3. CASE parent[x] # p
      BY <1>0, <1>1, <1>11, <1>13, <2>1, <3>1, <3>3
    <3> QED BY <3>2, <3>3
  <2> QED BY <1>2, <2>1, <2>2, <2>3, <2>4 DEF Tree, ProcessTree
<1>15. \A i \in Alive : i \notin Th =>
         /\ i \in Task /\ process[i] # p /\ process'[i] = process[i] /\ tid'[i] = tid[i]
         /\ tasks'[process[i]][tid[i]] = i
  <2> SUFFICES ASSUME NEW i \in Alive, i \notin Th
               PROVE  /\ i \in Task /\ process[i] # p /\ process'[i] = process[i] /\ tid'[i] = tid[i]
                      /\ tasks'[process[i]][tid[i]] = i
    OBVIOUS
  <2>1. i \in Task /\ i # None /\ process[i] \in Active /\ tid[i] # None /\ process[i] # p
    BY <1>4, ProcessConstants DEF Alive
  <2>2. process[i] \in Pid /\ tid[i] \in Tid /\ tasks[process[i]][tid[i]] = i
    BY <1>13, <2>1 DEF Inductive, TypeOK, Tables
  <2>3. tasks'[process[i]][tid[i]] = i
    BY <1>7, <2>1, <2>2
  <2> QED BY <1>8, <1>10, <2>1, <2>2, <2>3
<1>16. Alive' = Alive \ Th
  <2>1. \A i \in Task : i \in Alive' => i \in Alive \ Th
    BY <1>8, <1>10, <1>13 DEF Alive
  <2>2. \A i \in Alive \ Th : i \in Alive'
    BY <1>13, <1>15 DEF Alive
  <2> QED BY <2>1, <2>2 DEF Alive
<1>17. Tables'
  <2>1. ASSUME NEW r \in Pid, NEW s \in Tid, tasks'[r][s] # None
        PROVE  /\ r \in Active' /\ s < tlen'[r]
               /\ process'[tasks'[r][s]] = r /\ tid'[tasks'[r][s]] \in {s, None}
    <3>1. r # p /\ tasks'[r][s] = tasks[r][s] /\ tasks[r][s] \in Task /\ tlen'[r] = tlen[r]
      BY <1>7, <2>1 DEF Inductive, TypeOK
    <3>2. r \in Active /\ s < tlen[r] /\ process[tasks[r][s]] = r /\ tid[tasks[r][s]] \in {s, None}
      BY <2>1, <3>1 DEF Inductive, Tables
    <3> QED BY <1>8, <1>10, <1>13, <2>1, <3>1, <3>2
  <2>2. \A i \in Alive' : tasks'[process'[i]][tid'[i]] = i
    BY <1>15, <1>16
  <2>3. \A r \in Active' : tasks'[r][0] # None /\ tid'[tasks'[r][0]] = 0
    <3> TAKE r \in Active'
    <3>1. r \in Active /\ r \in Pid /\ r # p
      BY <1>13
    <3>2. tasks[r][0] \in Task /\ process[tasks[r][0]] = r /\ tid[tasks[r][0]] = 0
      BY <3>1, MainFacts
    <3> QED BY <1>4, <1>7, <1>10, <3>1, <3>2, ProcessConstants
  <2> QED BY <2>1, <2>2, <2>3 DEF Tables
<1>18. Refs'
  <2>1. \A r \in Pid, s \in Tid : tasks'[r][s] \in {tasks[r][s], None}
    BY <1>7
  <2>2. \A j \in Task : Referenced(j)' => Referenced(j)
    BY <1>2, <1>6, <2>1, ProcessConstants DEF Referenced, InBlock
  <2>3. \A j \in Task : Referenced(j)' => process'[j] # None
    BY <1>8, <2>2 DEF Inductive, Refs
  <2>4. \A j \in Task : process'[j] \in Pid => process'[j] \in live'
    BY <1>2, <1>8, ProcessConstants DEF Inductive, Refs
  <2> QED BY <2>3, <2>4 DEF Refs
<1>19. OnePlace'
  <2>1. None \notin ToSet(ready_queue') /\ None \notin block_queue
    BY <1>6, ToSetSubset, ProcessConstants DEF Inductive, TypeOK
  <2>2. ToSet(ready_queue') \cup ({current'} \ {None}) \cup (block_queue' \cap Alive') = Alive'
    BY <1>1, <1>2, <1>3, <1>5, <1>6, <1>16 DEF Inductive, OnePlace
  <2>3. ToSet(ready_queue') \cap block_queue' = {}
    BY <1>2, <1>6 DEF Inductive, OnePlace
  <2> QED BY <1>2, <1>6, <2>1, <2>2, <2>3 DEF OnePlace
<1>20. NoSleepOnZombie'
  <2> SUFFICES ASSUME NEW r \in live \ {INITPROC}, NEW i \in block_queue',
                      tasks'[r][0] = i, kctx[i] = "wait"
               PROVE  Awaited(r, wpid[i])' \cap zombie' = {}
    BY <1>2 DEF NoSleepOnZombie, Awaited
  <2>1. r \in Pid /\ i \in block_queue /\ i # m /\ i \in Task /\ i # None
    BY <1>2, ProcessConstants DEF Inductive, TypeOK
  <2>2. r # p /\ tasks[r][0] = i
    BY <1>7, <2>1, ZeroTid
  <2>3. children'[r] = children[r] /\ Awaited(r, wpid[i]) \cap zombie = {}
    BY <1>11, <2>1, <2>2 DEF Inductive, NoSleepOnZombie
  <2>4. p \notin children[r]
    <3> SUFFICES ASSUME p \in children[r] PROVE FALSE
      OBVIOUS
    <3>1. r = parent[p]
      BY <1>1, <2>1 DEF Inductive, Tree, ProcessTree
    <3> QED BY <1>3, <2>1, <2>2, <3>1
  <2> QED BY <1>2, <2>3, <2>4 DEF Awaited
<1>21. \A r \in Active', b \in Addr : \A i \in ToSet(futex[r][b]) :
         i \in Alive /\ i \notin Th /\ process[i] = r
  BY <1>4, <1>13 DEF Inductive, Waiters
<1>22. \A r \in Active' : tasks'[r] = tasks[r]
  BY <1>7, <1>13
<1>23. FutexQueues'
  <2>1. ASSUME NEW r \in Active', NEW i \in block_queue', process'[i] = r, kctx[i] = "futex"
        PROVE  \E b \in Addr : i \in ToSet(futex[r][b])
    <3>1. i \in block_queue /\ i \in Task /\ r \in Active
      BY <1>2, <1>13 DEF Inductive, TypeOK
    <3>2. process[i] = r
      BY <1>8, <1>13, <2>1, <3>1
    <3> QED BY <2>1, <3>1, <3>2 DEF Inductive, FutexQueues
  <2>2. ASSUME NEW r \in Active', NEW b \in Addr, NEW i \in ToSet(futex[r][b]), i # tasks[r][0]
        PROVE  i \in block_queue' /\ kctx[i] = "futex"
    <3>1. i \in block_queue /\ kctx[i] = "futex"
      BY <1>13, <2>2 DEF Inductive, FutexQueues
    <3>2. process[i] = r /\ i # None
      BY <1>21, ProcessConstants DEF Alive
    <3>3. i # m
      BY <1>3, <2>2, <3>2
    <3> QED BY <1>2, <3>1, <3>3
  <2>3. futex' = futex /\ kctx' = kctx
    BY <1>2
  <2>4. \A r \in Active' : tasks'[r][0] = tasks[r][0]
    BY <1>22
  <2> QED BY <2>1, <2>2, <2>3, <2>4 DEF FutexQueues
<1>24. Waiters'
  <2>1. \A r \in Active', b \in Addr : \A i \in ToSet(futex[r][b]) : i \in Alive' /\ process'[i] = r
    BY <1>15, <1>16, <1>21
  <2> QED BY <1>2, <1>13, <1>22, <2>1 DEF Inductive, Waiters
<1> QED BY <1>6, <1>12, <1>14, <1>17, <1>18, <1>19, <1>20, <1>23, <1>24 DEF Inductive

-----------------------------------------------------------------------------
(* Waiting. *)

\* sys_wait4 takes a zombie out of the tree and drops it.
LEMMA ReapInductive ==
  ASSUME Inductive, NEW k \in Task, Running(k),
         NEW c \in children[process[k]] \cap zombie, Reap(k, c)
  PROVE  Inductive'
<1> DEFINE p == process[k]
           proc == [j \in Task |-> IF process[j] = c THEN Gone ELSE process[j]]
<1> USE DEF schedVars
<1>1. k = current /\ p \in Active /\ p \in Pid /\ k \notin block_queue
  BY RunningFacts
<1>2. /\ children' = [children EXCEPT ![p] = @ \ {c}]
      /\ live' = live \ {c} /\ zombie' = zombie \ {c}
      /\ parent' = [parent EXCEPT ![c] = None]
      /\ futex' = [futex EXCEPT ![c] = NoWaiters]
      /\ kctx' = [kctx EXCEPT ![k] = "user"] /\ wpid' = [wpid EXCEPT ![k] = None]
      /\ UNCHANGED <<pid2pcb, tasks, tlen, tid, schedVars, cpu, halt>>
      /\ DropTcbs(proc)
  BY DEF Reap
<1>3. c \in Pid /\ c \in live \ {INITPROC} /\ c \in zombie /\ c \notin Active /\ c # p
  BY <1>1 DEF Inductive, TypeOK, Tree, Active
<1>4. parent[c] = p /\ \A r \in Pid \ {p} : c \notin children[r]
  BY <1>1, <1>3 DEF Inductive, Tree, ProcessTree
<1> HIDE DEF p
<1>5. \A j \in Task : proc[j] = IF process[j] = c THEN Gone ELSE process[j]
  OBVIOUS
<1>6. proc \in [Task -> Pid \cup {None, Gone}]
  BY DEF Inductive, TypeOK
<1> HIDE DEF proc
<1>7. /\ tasks' \in [Pid -> [Tid -> Task \cup {None}]] /\ tasks' = tasks
  BY <1>2 DEF Inductive, TypeOK
<1>8. /\ \A i \in Task : process'[i] = proc[i] \/ process'[i] = None
      /\ \A i \in Task : Referenced(i)' => process'[i] = proc[i]
      /\ \A r \in Pid, s \in Tid : tasks[r][s] # None => process'[tasks[r][s]] = proc[tasks[r][s]]
  <2>1. TypeOK /\ DropTcbs(proc)
    BY <1>2 DEF Inductive
  <2> QED BY <1>7, <2>1, DropFacts
<1>9. process' \in [Task -> Pid \cup {None, Gone}]
  BY <1>2, <1>6, <1>8 DEF DropTcbs
<1>10. /\ parent' \in [Pid -> Pid \cup {None}] /\ children' \in [Pid -> SUBSET Pid]
       /\ \A x \in Pid \ {c} : parent'[x] = parent[x]
       /\ \A r \in Pid : children'[r] = children[r] \ {c}
  BY <1>1, <1>2, <1>3, <1>4 DEF Inductive, TypeOK
<1>11. /\ futex' \in [Pid -> [Addr -> Seq(Task)]] /\ futex'[c] = NoWaiters
       /\ \A r \in Pid \ {c} : futex'[r] = futex[r]
  <2>1. NoWaiters \in [Addr -> Seq(Task)]
    BY DEF NoWaiters
  <2> QED BY <1>2, <1>3, <2>1 DEF Inductive, TypeOK
<1>12. /\ kctx' \in [Task -> {"user", "yield", "wait", "futex"}]
       /\ wpid' \in [Task -> Pid \cup {AnyChild, None}] /\ kctx'[k] = "user"
       /\ \A i \in Task \ {k} : kctx'[i] = kctx[i] /\ wpid'[i] = wpid[i]
  BY <1>2 DEF Inductive, TypeOK
<1>13. Active' = Active /\ Active \subseteq Pid /\ None \notin Active /\ Gone \notin Active
  BY <1>2, <1>3, ProcessConstants DEF Inductive, TypeOK, Active
<1>14. TypeOK'
  <2>1. live' \subseteq Pid /\ zombie' \subseteq live' /\ pid2pcb' \subseteq live'
    BY <1>2, <1>3, <1>13 DEF Inductive, TypeOK, Tree, Active
  <2> QED BY <1>2, <1>9, <1>10, <1>11, <1>12, <2>1 DEF Inductive, TypeOK
<1>15. Tree'
  <2>1. INITPROC \in Active' /\ pid2pcb' = Active'
    BY <1>2, <1>13 DEF Inductive, Tree
  <2>2. /\ \A r \in Pid : children'[r] \subseteq live' \ {INITPROC}
        /\ \A r \in Pid \ Active' : children'[r] = {}
    BY <1>2, <1>10, <1>13 DEF Inductive, Tree
  <2>3. ASSUME NEW x \in live' \ {INITPROC}
        PROVE  /\ parent'[x] # x /\ parent'[x] \in Active'
               /\ \A r \in Pid : x \in children'[r] <=> r = parent'[x]
    <3>1. x \in live \ {INITPROC} /\ x # c /\ x \in Pid
      BY <1>2 DEF Inductive, TypeOK
    <3>2. /\ parent[x] # x /\ parent[x] \in Active
          /\ \A r \in Pid : x \in children[r] <=> r = parent[x]
      BY <3>1 DEF Inductive, Tree, ProcessTree
    <3> QED BY <1>10, <1>13, <3>1, <3>2
  <2> QED BY <2>1, <2>2, <2>3 DEF Tree, ProcessTree
<1>16. /\ \A i \in Alive : i \in Task /\ process'[i] = process[i]
       /\ Alive' = Alive
       /\ \A i \in Task : process'[i] \in Active => process'[i] = process[i]
  <2>1. ASSUME NEW i \in Alive PROVE i \in Task /\ process'[i] = process[i]
    <3>1. i \in Task /\ i # None /\ process[i] \in Active /\ tid[i] # None
      BY ProcessConstants DEF Alive
    <3>2. process[i] \in Pid /\ tid[i] \in Tid /\ tasks[process[i]][tid[i]] = i
      BY <1>13, <3>1 DEF Inductive, TypeOK, Tables
    <3> QED BY <1>3, <1>5, <1>8, <3>1, <3>2
  <2>2. \A i \in Task : process'[i] \in Active => process'[i] = process[i]
    BY <1>5, <1>8, <1>13
  <2>3. \A i \in Task : i \in Alive' <=> i \in Alive
    BY <1>2, <1>13, <2>1, <2>2 DEF Alive
  <2> QED BY <2>1, <2>2, <2>3 DEF Alive
<1>17. Tables'
  <2>1. ASSUME NEW r \in Pid, NEW s \in Tid, tasks[r][s] # None
        PROVE  /\ r \in Active /\ s < tlen[r]
               /\ process'[tasks[r][s]] = r /\ tid[tasks[r][s]] \in {s, None}
    <3>1. tasks[r][s] \in Task
      BY <2>1 DEF Inductive, TypeOK
    <3>2. r \in Active /\ s < tlen[r] /\ process[tasks[r][s]] = r /\ tid[tasks[r][s]] \in {s, None}
      BY <2>1 DEF Inductive, Tables
    <3> QED BY <1>3, <1>5, <1>8, <2>1, <3>1, <3>2
  <2>2. \A i \in Alive : tasks[process'[i]][tid[i]] = i
    BY <1>16 DEF Inductive, Tables
  <2> QED BY <1>2, <1>13, <1>16, <2>1, <2>2 DEF Inductive, Tables
<1>18. \A r \in Pid, b \in Addr : futex'[r][b] = futex[r][b] \/ ToSet(futex'[r][b]) = {}
  BY <1>11, EmptyFacts DEF NoWaiters
<1>19. Refs'
  <2>1. \A j \in Task : InBlock(j)' => InBlock(j)
    BY <1>12 DEF InBlock
  <2>2. \A j \in Task : Referenced(j)' => Referenced(j)
    BY <1>2, <1>18, <2>1 DEF Referenced
  <2>3. \A j \in Task : Referenced(j)' => process'[j] # None
    BY <1>5, <1>8, <2>2, ProcessConstants DEF Inductive, Refs
  <2>4. ASSUME NEW j \in Task, process'[j] \in Pid PROVE process'[j] \in live'
    <3>1. None \notin Pid /\ Gone \notin Pid
      BY ProcessConstants
    <3>2. process'[j] = process[j] /\ process[j] # c
      <4>1. process'[j] = proc[j]
        BY <1>8, <2>4, <3>1
      <4>2. proc[j] = IF process[j] = c THEN Gone ELSE process[j]
        BY <1>5
      <4> QED BY <2>4, <3>1, <4>1, <4>2
    <3>3. process[j] \in live
      BY <2>4, <3>2 DEF Inductive, Refs
    <3> QED BY <1>2, <3>2, <3>3
  <2> QED BY <2>3, <2>4 DEF Refs
<1>20. OnePlace' /\ BlockedStatus'
  BY <1>2, <1>16 DEF Inductive, OnePlace, BlockedStatus
<1>21. \A i \in block_queue : i \in Task /\ kctx'[i] = kctx[i] /\ wpid'[i] = wpid[i]
  BY <1>1, <1>12 DEF Inductive, TypeOK
<1>22. NoSleepOnZombie'
  <2> SUFFICES ASSUME NEW r \in live' \ {INITPROC}, NEW i \in block_queue,
                      tasks[r][0] = i, kctx[i] = "wait"
               PROVE  Awaited(r, wpid[i])' \cap zombie' = {}
    BY <1>2, <1>21 DEF NoSleepOnZombie, Awaited
  <2>1. r \in Pid /\ Awaited(r, wpid[i]) \cap zombie = {}
    BY <1>2 DEF Inductive, TypeOK, NoSleepOnZombie
  <2> QED BY <1>2, <1>10, <1>21, <2>1 DEF Awaited
<1>23. \A r \in Active : futex'[r] = futex[r]
  BY <1>3, <1>11, <1>13
<1>24. FutexQueues'
  <2>1. ASSUME NEW r \in Active, NEW i \in block_queue, process'[i] = r, kctx'[i] = "futex"
        PROVE  \E b \in Addr : i \in ToSet(futex[r][b])
    BY <1>16, <1>21, <2>1 DEF Inductive, FutexQueues
  <2>2. ASSUME NEW r \in Active, NEW b \in Addr, NEW i \in ToSet(futex[r][b]), i # tasks[r][0]
        PROVE  i \in block_queue /\ kctx'[i] = "futex"
    <3>1. i \in block_queue /\ kctx[i] = "futex"
      BY <2>2 DEF Inductive, FutexQueues
    <3> QED BY <1>21, <3>1
  <2>3. block_queue' = block_queue /\ tasks' = tasks /\ Active' = Active
    BY <1>2, <1>13 DEF schedVars
  <2>4. ASSUME NEW r \in Active'
        PROVE  /\ \A i \in block_queue' : process'[i] = r /\ kctx'[i] = "futex" =>
                     \E b \in Addr : i \in ToSet(futex'[r][b])
               /\ \A b \in Addr : \A i \in ToSet(futex'[r][b]) \ {tasks'[r][0]} :
                     i \in block_queue' /\ kctx'[i] = "futex"
    BY <1>23, <2>1, <2>2, <2>3
  <2> QED BY <2>4 DEF FutexQueues
<1>25. Waiters'
  <2>1. \A r \in Pid \ live' : futex'[r] = NoWaiters
    BY <1>2, <1>11 DEF Inductive, Waiters
  <2>2. \A r \in Active, b \in Addr : \A i \in ToSet(futex[r][b]) : i \in Alive' /\ process'[i] = r
    BY <1>16 DEF Inductive, Waiters
  <2>3. /\ \A r \in Active, b \in Addr : Once(futex[r][b], tasks[r][0])
        /\ \A r \in Active, a, b \in Addr : a # b =>
             ToSet(futex[r][a]) \cap ToSet(futex[r][b]) \subseteq {tasks[r][0]}
    BY DEF Inductive, Waiters
  <2> QED BY <1>2, <1>13, <1>23, <2>1, <2>2, <2>3 DEF Waiters
<1> QED BY <1>14, <1>15, <1>17, <1>19, <1>20, <1>22, <1>24, <1>25 DEF Inductive

\* sys_waittid collects an exited thread.
LEMMA WaitTidInductive ==
  ASSUME Inductive, NEW k \in Task, Running(k), NEW t \in 0 .. MaxThreads, t < tlen[process[k]],
         tasks[process[k]][t] # None, tid[tasks[process[k]][t]] = None,
         tasks' = [tasks EXCEPT ![process[k]][t] = None],
         UNCHANGED <<pcbVars, tlen, futex, tid, kctx, wpid, schedVars, cpu, halt>>,
         DropTcbs(process)
  PROVE  Inductive'
<1> DEFINE p == process[k]
<1> USE DEF pcbVars, schedVars
<1>1. p \in Active /\ p \in Pid
  BY RunningFacts
<1>2. t \in Tid /\ t # 0
  <2>1. tlen[p] \in 0 .. MaxThreads /\ MaxThreads \in Nat
    BY <1>1, ProcessConstants DEF Inductive, TypeOK
  <2>2. t \in Tid
    BY <2>1 DEF Tid
  <2>3. tid[tasks[p][0]] = 0 /\ 0 # None
    BY <1>1, MainFacts, ZeroTid, ProcessConstants
  <2> QED BY <2>2, <2>3
<1>3. /\ tasks' \in [Pid -> [Tid -> Task \cup {None}]] /\ tasks'[p][t] = None
      /\ \A r \in Pid, s \in Tid : r # p \/ s # t => tasks'[r][s] = tasks[r][s]
  BY <1>1, <1>2 DEF Inductive, TypeOK
<1>4. \A i \in Alive : process[i] = p => tid[i] # t
  <2> SUFFICES ASSUME NEW i \in Alive, process[i] = p, tid[i] = t PROVE FALSE
    OBVIOUS
  <2>1. tasks[p][t] = i
    BY DEF Inductive, Tables
  <2> QED BY <1>2, <2>1, ProcessConstants
<1> HIDE DEF p
<1>5. /\ \A i \in Task : process'[i] = process[i] \/ process'[i] = None
      /\ \A i \in Task : Referenced(i)' => process'[i] = process[i]
      /\ \A r \in Pid, s \in Tid : tasks'[r][s] # None => process'[tasks'[r][s]] = process[tasks'[r][s]]
  <2>1. TypeOK
    BY DEF Inductive
  <2>2. tasks' \in [Pid -> [Tid -> Task \cup {None}]]
    BY <1>3
  <2>3. /\ \A j \in Task : process'[j] = process[j] \/ process'[j] = None
        /\ \A j \in Task : Referenced(j)' => process'[j] = process[j]
        /\ \A j \in Task : ~ Referenced(j)' => process'[j] = None
        /\ \A r \in Pid, s \in Tid : tasks'[r][s] # None => process'[tasks'[r][s]] = process[tasks'[r][s]]
    <3> HIDE DEF pcbVars, schedVars
    <3> QED BY ONLY <2>1, <2>2, DropTcbs(process), DropFacts
  <2> QED BY ONLY <2>3
<1>6. process' \in [Task -> Pid \cup {None, Gone}]
  BY <1>5 DEF DropTcbs, Inductive, TypeOK
<1>7. TypeOK'
  BY <1>3, <1>6 DEF Inductive, TypeOK
<1>8. Tree'
  BY TreeFrame DEF Inductive
<1>9. /\ Active' = Active /\ Active \subseteq Pid /\ None \notin Active
      /\ \A i \in Alive : i \in Task /\ process'[i] = process[i] /\ tasks'[process[i]][tid[i]] = i
      /\ Alive' = Alive
  <2>1. Active' = Active /\ Active \subseteq Pid /\ None \notin Active
    BY ProcessConstants DEF Inductive, TypeOK, Active
  <2>2. ASSUME NEW i \in Alive
        PROVE  i \in Task /\ process'[i] = process[i] /\ tasks'[process[i]][tid[i]] = i
    <3>1. i \in Task /\ i # None /\ process[i] \in Active /\ tid[i] # None
      BY ProcessConstants DEF Alive
    <3>2. process[i] \in Pid /\ tid[i] \in Tid /\ tasks[process[i]][tid[i]] = i
      BY <2>1, <3>1 DEF Inductive, TypeOK, Tables
    <3>3. tasks'[process[i]][tid[i]] = i
      BY <1>3, <1>4, <3>2
    <3> QED BY <1>5, <3>1, <3>2, <3>3
  <2>3. \A i \in Task : i \in Alive' <=> i \in Alive
    BY <1>5, <2>1, <2>2 DEF Alive
  <2> QED BY <2>1, <2>2, <2>3 DEF Alive
<1>10. \A r \in Pid : tasks'[r][0] = tasks[r][0]
  BY <1>2, <1>3, ZeroTid
<1>11. Tables'
  <2>1. ASSUME NEW r \in Pid, NEW s \in Tid, tasks'[r][s] # None
        PROVE  /\ r \in Active /\ s < tlen[r]
               /\ process'[tasks'[r][s]] = r /\ tid[tasks'[r][s]] \in {s, None}
    <3>1. tasks'[r][s] = tasks[r][s]
      BY <1>3, <2>1
    <3>2. r \in Active /\ s < tlen[r] /\ process[tasks[r][s]] = r /\ tid[tasks[r][s]] \in {s, None}
      BY <2>1, <3>1 DEF Inductive, Tables
    <3> QED BY <1>5, <2>1, <3>1, <3>2
  <2>2. \A i \in Alive : tasks'[process'[i]][tid[i]] = i
    BY <1>9
  <2>3. \A r \in Active : tasks'[r][0] # None /\ tid[tasks'[r][0]] = 0
    BY <1>9, <1>10 DEF Inductive, Tables
  <2> QED BY <1>9, <2>1, <2>2, <2>3 DEF Tables
<1>12. Refs'
  <2>1. \A r \in Pid, s \in Tid : tasks'[r][s] \in {tasks[r][s], None}
    BY <1>3
  <2>2. \A j \in Task : Referenced(j)' => Referenced(j)
    BY <2>1, ProcessConstants DEF Referenced, InBlock
  <2>3. \A j \in Task : Referenced(j)' => process'[j] # None
    BY <1>5, <2>2 DEF Inductive, Refs
  <2>4. \A j \in Task : process'[j] \in Pid => process'[j] \in live'
    BY <1>5, ProcessConstants DEF Inductive, Refs
  <2> QED BY <2>3, <2>4 DEF Refs
<1>13. OnePlace' /\ BlockedStatus'
  BY <1>9 DEF Inductive, OnePlace, BlockedStatus
<1>14. NoSleepOnZombie'
  <2>1. live \subseteq Pid
    BY DEF Inductive, TypeOK
  <2> QED BY <1>10, <2>1 DEF Inductive, NoSleepOnZombie, Awaited
<1>15. FutexQueues'
  <2>1. \A i \in block_queue : \A r \in Active : process'[i] = r => process[i] = r
    BY <1>5, <1>9 DEF Inductive, TypeOK
  <2> QED BY <1>9, <1>10, <2>1 DEF Inductive, FutexQueues
<1>16. Waiters'
  <2>1. \A r \in Active, b \in Addr : \A i \in ToSet(futex[r][b]) : i \in Alive' /\ process'[i] = r
    BY <1>9 DEF Inductive, Waiters
  <2>2. \A r \in Pid \ live : futex[r] = NoWaiters
    BY DEF Inductive, Waiters
  <2>3. /\ \A r \in Active, b \in Addr : Once(futex[r][b], tasks'[r][0])
        /\ \A r \in Active, a, b \in Addr : a # b =>
             ToSet(futex[r][a]) \cap ToSet(futex[r][b]) \subseteq {tasks'[r][0]}
    BY <1>9, <1>10 DEF Inductive, Waiters
  <2> QED BY <1>9, <2>1, <2>2, <2>3 DEF Waiters
<1> QED BY <1>7, <1>8, <1>11, <1>12, <1>13, <1>14, <1>15, <1>16 DEF Inductive

\* One turn of the loop of sys_wait4.
LEMMA Wait4TurnInductive ==
  ASSUME Inductive, NEW k \in Task, Running(k), NEW w \in Pid \cup {AnyChild, None},
         NEW nohang, Wait4Turn(k, w, nohang)
  PROVE  Inductive'
<1>1. CASE \E c \in Awaited(process[k], w) \cap zombie : Reap(k, c)
  <2>1. PICK c \in Awaited(process[k], w) \cap zombie : Reap(k, c)
    BY <1>1
  <2>2. c \in children[process[k]] \cap zombie
    BY DEF Awaited
  <2> QED BY <2>1, <2>2, ReapInductive
<1>2. CASE /\ kctx' = [kctx EXCEPT ![k] = "user"] /\ wpid' = [wpid EXCEPT ![k] = None]
           /\ UNCHANGED <<pcbVars, threadVars, schedVars, cpu, halt>>
  BY <1>2, ReturnInductive
<1>3. CASE /\ Awaited(process[k], w) \cap zombie = {}
           /\ kctx' = [kctx EXCEPT ![k] = "wait"] /\ wpid' = [wpid EXCEPT ![k] = w]
           /\ BlockCurrent(k) /\ UNCHANGED <<pcbVars, threadVars>>
  BY <1>3, WaitBlockInductive
<1> QED BY <1>1, <1>2, <1>3 DEF Wait4Turn

-----------------------------------------------------------------------------
(* All steps. *)

\* A panic changes halt only.
LEMMA PanicInductive ==
  ASSUME Inductive,
         NEW why \in {"shutdown", "sys_yield", "fork_thread_count", "exec_thread_count", "waittid_index"},
         Panic(why)
  PROVE  Inductive'
BY StutterInductive DEF Panic

\* Every step of a thread preserves the invariant.
LEMMA StepInductive == ASSUME Inductive, NEW k \in Task, Step(k) PROVE Inductive'
<1>a. kctx = [kctx EXCEPT ![k] = kctx[k]] /\ wpid = [wpid EXCEPT ![k] = wpid[k]]
      /\ wpid[k] \in Pid \cup {AnyChild, None}
  BY DEF Inductive, TypeOK
<1>1. CASE TimerInterrupt(k)
  BY <1>1, <1>a, SuspendInductive DEF TimerInterrupt, InUser
<1>2. CASE Yield(k)
  BY <1>2, SuspendInductive DEF Yield, InUser
<1>3. CASE YieldResume(k)
  BY <1>3, PanicInductive DEF YieldResume
<1>4. CASE Fork(k)
  <2>1. CASE Panic("fork_thread_count")
    BY <2>1, PanicInductive
  <2>2. CASE ~ Panic("fork_thread_count")
    <3>1. Running(k)
      BY <1>4, <2>2 DEF Fork, InUser
    <3>2. PICK c \in Pid \ live, j \in {j \in Task : process[j] = None} : ForkStep(k, c, j)
      BY <1>4, <2>2 DEF Fork, ForkStep
    <3> QED BY <3>1, <3>2, ForkInductive
  <2> QED BY <2>1, <2>2
<1>5. CASE Exec(k)
  <2>1. CASE Panic("exec_thread_count")
    BY <2>1, PanicInductive
  <2>2. CASE UNCHANGED vars
    BY <2>2, StutterInductive DEF vars, Inductive, TypeOK
  <2> QED BY <1>5, <2>1, <2>2 DEF Exec
<1>6. CASE CloneThread(k)
  BY <1>6, CloneThreadInductive
<1>7. CASE Exit(k)
  BY <1>7, ExitThreadInductive, ExitMainInductive, PanicInductive DEF Exit, ExitInit
<1>8. CASE Wait4(k)
  <2>1. Running(k)
    BY <1>8 DEF Wait4, InUser
  <2>2. PICK w \in Pid \cup {AnyChild}, nohang \in BOOLEAN : Wait4Turn(k, w, nohang)
    BY <1>8 DEF Wait4
  <2> QED BY <2>1, <2>2, Wait4TurnInductive
<1>9. CASE Wait4Resume(k)
  BY <1>9, <1>a, Wait4TurnInductive DEF Wait4Resume
<1>10. CASE \E t \in 0 .. MaxThreads : WaitTid(k, t)
  <2>1. PICK t \in 0 .. MaxThreads : WaitTid(k, t)
    BY <1>10
  <2>2. CASE Panic("waittid_index")
    BY <2>2, PanicInductive
  <2>3. CASE ~ Panic("waittid_index")
    BY <2>1, <2>3, WaitTidInductive DEF WaitTid, InUser
  <2> QED BY <2>2, <2>3
<1>11. CASE \E a \in Addr : FutexWait(k, a) \/ FutexSignal(k, a)
  BY <1>11, FutexWaitInductive, FutexSignalInductive
<1>12. CASE FutexResume(k)
  BY <1>12, <1>a, ReturnInductive DEF FutexResume
<1> QED BY <1>1, <1>2, <1>3, <1>4, <1>5, <1>6, <1>7, <1>8, <1>9, <1>10, <1>11, <1>12 DEF Step

\* Every step preserves the invariant.
LEMMA NextInductive == Inductive /\ [Next]_vars => Inductive'
<1> SUFFICES ASSUME Inductive, [Next]_vars PROVE Inductive'
  OBVIOUS
<1>1. CASE UNCHANGED vars
  BY <1>1, StutterInductive DEF vars, Inductive, TypeOK
<1>2. CASE \E k \in Task : Step(k)
  BY <1>2, StepInductive
<1> QED BY <1>1, <1>2, DispatchInductive, ScheduleInductive DEF Next, IdleSpin, Halted

-----------------------------------------------------------------------------
(* The theorems. *)

\* The invariant holds in every reachable state.
THEOREM ProcessInvariant == Spec => []Inductive
<1> QED BY InitInductive, NextInductive, PTL DEF Spec

\* The state of the task manager, the processor and the control blocks keeps
\* its types.
THEOREM ProcessTypes == Spec => []TypeOK
<1>1. Inductive => TypeOK
  BY DEF Inductive
<1> QED BY <1>1, ProcessInvariant, PTL

\* exit_current_and_run_next never fails on an unwrap, an index or the panic
\* of remove_from_pid2process.
THEOREM ExitIsSafe == Spec => []ExitNeverPanics
<1>1. Inductive => ExitNeverPanics
  <2> SUFFICES ASSUME Inductive, NEW k \in Task, InUser(k) PROVE ExitSucceeds(k)
    BY DEF ExitNeverPanics
  <2>1. process[k] \in Active /\ tid[k] # None
    BY RunningFacts DEF InUser
  <2>2. process[k] \in pid2pcb
    BY <2>1 DEF Inductive, Tree
  <2>3. process[k] # INITPROC => parent[process[k]] \in Active
    BY <2>1 DEF Inductive, Tree, ProcessTree, Active
  <2>4. process[k] # INITPROC => parent[process[k]] \in live /\ tasks[parent[process[k]]][0] # None
    BY <2>3 DEF Inductive, Tables, Active
  <2> QED BY <2>1, <2>2, <2>4 DEF ExitSucceeds
<1> QED BY <1>1, ProcessInvariant, PTL

\* The parent of a process is alive, is no zombie and alone lists it.
THEOREM TreeIsSound == Spec => []ProcessTree
<1>1. Inductive => ProcessTree
  BY DEF Inductive, Tree
<1> QED BY <1>1, ProcessInvariant, PTL

\* The strong-count assertion of sys_wait4 never fails.
THEOREM ReapIsSafe == Spec => []ReapNeverPanics
<1>1. Inductive => ReapNeverPanics
  <2> SUFFICES ASSUME Inductive, NEW p \in Pid, NEW c \in children[p] \cap zombie
               PROVE  SoleArc(c, p)
    BY DEF ReapNeverPanics
  <2>1. c \in live \ {INITPROC} /\ c \notin Active
    BY DEF Inductive, Tree, Active
  <2> QED BY <2>1 DEF Inductive, Tree, ProcessTree, SoleArc
<1> QED BY <1>1, ProcessInvariant, PTL

\* A thread that has not exited is on the hart, once in the ready queue, or
\* blocked, and in only one of them.
THEOREM EveryThreadHasOnePlace == Spec => []OnePlace
<1>1. Inductive => OnePlace
  BY DEF Inductive
<1> QED BY <1>1, ProcessInvariant, PTL

\* No main thread sleeps in wait4 over a zombie child it waits for.
THEOREM NoLostChildExit == Spec => []NoSleepOnZombie
<1>1. Inductive => NoSleepOnZombie
  BY DEF Inductive
<1> QED BY <1>1, ProcessInvariant, PTL

\* A thread blocked in futex_wait is in a wait queue of its process.  Every
\* thread but the main one is in one such queue only, once, and is blocked in
\* futex_wait as long as it is in there, so that a futex_signal that takes it
\* out wakes it.  The main thread may have left an entry behind: the exit of a
\* child wakes it out of futex_wait, and a signal that takes out such an entry
\* wakes nobody.
THEOREM FutexWaitersAreQueued == Spec => [](FutexQueues /\ Waiters)
<1>1. Inductive => FutexQueues /\ Waiters
  BY DEF Inductive
<1> QED BY <1>1, ProcessInvariant, PTL
=============================================================================
