# A TLA+ verification of the kernel

The repository is MainOS, an operating-system kernel for RISC-V in Rust
(`kernel/src`), grown from rCore: processes and threads, signals, futexes,
virtual memory with `mmap` and `brk`, pipes, a FAT32 file system with a block
and a page cache, and about a hundred Linux system calls. This directory holds
TLA+ models of its parts, TLC configurations that check them on small
instances, and theorems about them that TLAPS checks for every instance.
`PROJECT.json` maps every definition to the lines it models and lists runs,
mutants, hazards, theorems and findings.

## How the kernel executes

* There is one hart. Interrupts are taken in user mode only
  (`trap/mod.rs:190` panics on a trap from the kernel), so a kernel path runs
  without interruption until it calls `suspend_current_and_run_next`,
  `block_current_and_run_next` or exits. An action of a model is such a path:
  the interleavings are those of calls, and of the pieces of a call that gives
  up the hart half way.
* Shared state sits in `UPSafeCell`, a `RefCell`: a second borrow panics. A
  panic stops the machine. Where the code can panic the models have a variable
  `halt` that says where, and nothing happens afterwards.
* The kernel is built in release mode: `assert!` is compiled in,
  `debug_assert!` and overflow checks are not, so arithmetic wraps.

## Parts, and what models them

| part | source | module | status |
|---|---|---|---|
| id allocators | `task/id.rs` | `RecycleAllocator` | modelled, proved |
| processes, threads, scheduler, wait4, futex | `task/{mod,manager,processor,process,task}.rs`, `syscall/{process,thread}.rs`, `sync/futex.rs` | `Process` | partly, proved |
| signals | `task/{mod,signal,action}.rs`, `syscall/signal.rs` | `Signal` | modelled, proved |
| pipes, poll and select on them | `fs/dev/pipe.rs`, `syscall/{fs,ppoll}.rs` | `Pipe` (implements `PipeFifo`) | partly, proved |
| descriptor tables | `fs/mod.rs`, `syscall/fs.rs` | `FdTable` | modelled, proved |
| frames and address spaces | `mm/`, `task/{id,process,task}.rs` | `MemorySet` | partly, proved |
| FAT32 files, page cache | `fs/fat32/{bitmap,vfs}.rs`, `fs/cache.rs` | `FatFile` (implements `FileStore`) | partly |
| block cache | `fs/cache.rs` | `BlockCache` (implements `BlockStore`) | modelled, proved |
| FAT32 directories | `fs/fat32/{dir_iter,vfs,inode,layout}.rs` | `Directory` | partly |
| directory tree, path cache | `fs/directory_tree.rs` | `DirTree` (implements `Namespace`) | partly |

How they touch: a process owns a descriptor table (`FdTable`), an address space
(`MemorySet`) and its signal state (`Signal`); its pids, thread ids and kernel
stacks come from `RecycleAllocator`. Descriptors lead to pipes (`Pipe`) or,
through the tree (`DirTree`), to files (`FatFile`), whose names are in
directory files (`Directory`) and whose allocation table is read and written
through the block cache (`BlockCache`). Each model keeps of the others what it
needs: `Pipe` has the descriptor tables as sets of ends, with fork and exit;
`MemorySet` has processes and threads with fork, exec, clone, exit and reaping;
`FatFile` takes an access to its table as one step, which is what
`BlockCache` is proved to implement.

### Modules, state and actions

* `Queue`: operators on sequences. `SeqLemmas`: facts about them for the proofs.
* `RecycleAllocator`: `current` and `recycled_ids` are the fields of the allocator;
  `handles` counts the owners of an id. `AllocRecycled`, `AllocFresh` are the
  branches of `alloc`, `Dealloc` the drop of an owner.
* `Process`: a PCB is named by its pid, a TCB by its kernel-stack slot. PCB
  fields are `zombie`, `parent`, `children`, `tasks`, `tlen`, `futex`; TCB
  fields `process`, `tid`, `status`; `kctx` says where in the kernel a thread
  sleeps. `ready_queue`, `block_queue`, `current` and `cpu` are the scheduler.
  One action per handler: `Dispatch`, `IdleSpin` and `Schedule` for `run_tasks`
  and `schedule`, `TimerInterrupt`, `Yield`, `Fork`, `Exec`, `CloneThread`,
  `Exit`, `Wait4`, `WaitTid`, `FutexWait`, `FutexSignal`, and a `...Resume`
  for what a call does after it was switched back in. A TCB is deallocated
  by the step that drops its last reference (`Referenced`, `DropTcbs`).
* `Signal`: one process. Pending sets, mask and action table are those of the
  PCB; `th` has the signal fields of each TCB and which code (ordinary, or the
  handler of which signal) its user context and its one backup are in.
  `BlockingCall` and `CallReturns` stand for calls that sleep, in which no
  signal is looked at; `unhandled` records that `killed` was set by a signal
  without a handler, which nothing takes back.
* `Pipe`: the ring, the ends each process holds, and the call each thread
  sleeps in. A call in progress holds a clone of its descriptor, a poll holds
  none. `ReadTurn`, `WriteTurn`, `WaitTurn` are one run of the loop of a read,
  write or ppoll/pselect up to the next suspend; `DoubleBorrow` is the panic of
  a second borrow of a PCB that a sleeping `readv` or `writev` keeps borrowed.
* `FdTable`: `inner` and `recycled` as in the code, the latter modulo `U8`.
  On a fork the model goes on with the table of the child.
* `MemorySet`: `mem` has the frame allocator, the trackers (a slot of a process
  that owns a frame) and the page tables; page tables take frames themselves.
* `FatFile`: the allocation table, the queue of vacant clusters and the hint;
  of every inode its list of clusters, size and page cache with dirty bits and
  priorities; the device. Every call is a step, and `Oom`, the eviction of
  pages, is a step between any two calls.
* `BlockCache`: the buffers with block ids and priorities, the disk, and the
  request in progress. `Ask`, `Hit`, `Fill` and `Sweep` are the look-up, the
  fill of an unused buffer and one `oom` of the loop that makes room.
* `Directory`: the entries of a directory file, the hint where new names go, the
  offsets the inodes remember, and a descriptor that lists the directory.
* `DirTree`: nodes with their map of children (or not read yet), father, name
  and count of working directories; the entry each file has on disk; the
  working directory of each process; `PATH_CACHE`.
* `PipeFifo`, `FileStore`, `BlockStore`, `Namespace`: what a pipe, a file, the
  block cache and the tree promise; see "Refinement".

## Runs

Deadlock is checked in `recycle_allocator`, `process`, `memory`, `fat_file` and
`block_cache`. The other systems may really stop: when all processes have
exited, the kernel panicked, or every call returns without a change.

| run | shows |
|---|---|
| `recycle_allocator` | No id has two owners, and ids stay dense: `current` is the largest number of owners there ever was at a time. |
| `process` | Processes fork, clone, exit, wait and sleep on a futex in every order: parent and children links are a tree of live processes; a reaped zombie has no second reference (`wait4` asserts it); a thread is in exactly one of running, ready, blocked; a futex waiter is in a queue of its process, and but for the main thread the queues have nobody else. Under fairness a `wait4` whose child exited returns, and no ready thread starves although woken threads are put in front. |
| `pipe` | The ring is a bounded queue of bytes for any mix of half-done reads and writes; `status` agrees with the indices; end of file is final; a sleeping reader and a poller learn that the last write end is closed. |
| `pipe_borrow` | (violation) `readv` and `writev` sleep with the PCB borrowed, and the next borrow panics, against `doc/debug.md:281`. |
| `fd_table` | `recycled` stays inside the table; it lists free descriptors, each once, and all of them, as long as no fd was truncated to its width and `F_DUPFD` took none from the list. |
| `fd_dupfd` | (violation) `F_DUPFD` does not take the lowest free descriptor and may replace an open one, against the comment at `fs/mod.rs:403`. |
| `signal` | A stopped thread runs no user code until it is continued or killed, unless a signal without a handler had marked it killed before; a handler returns to the code it interrupted; SIGKILL ends the process whatever its threads do, if the program never blocks it and the main thread does not sleep in one call for ever. |
| `memory` | No frame is lost or has two owners; page tables and trackers agree in both directions but for unmapped pages; the heap is there up to the break; the cached frame of a trap context is the right one; kernel stacks belong to one thread. |
| `fat_file` | Chains in the table are the cluster lists, no cluster leaks or is in two places, and the queue of vacant clusters is right, until an allocation that runs from the queue into the table or asks for more than is free gives a cluster twice. Until an allocation gives one twice or too few, sizes and clusters agree and reads return what was written. |
| `block_cache` | Reads of the table see the last value stored, an access ends, and the block accessed last survives the next sweep. |
| `directory` | A walk finds exactly the names, each at the offset its inode remembers, and a deletion removes its own entries; the hint is the end; a listing in pieces misses no name that stays and repeats one only after a cut in front of its offset. |
| `dir_tree` | Fathers and maps agree, and `PATH_CACHE` is fresh until a rename moved something. Until one of the four calls that do damage (below), tree and disk have the same files, working directories stay, and the calls implement a name space. |

Every property of a passing run has a mutant in `PROJECT.json`: a variant of an
operator with a plausible slip, under which TLC finds the property violated.

### Bounds, and why they are enough

* `recycle_allocator`: five ids. Proved for any number.
* `process`: three pids, three kernel stacks, one futex word, two threads per
  process (`MaxThreads`), one waiter per queue (`MaxWaiters`). Three processes
  are what the handing of orphans to the initial process takes; with three
  stacks clones and forks also run out of them. The safety properties are
  proved for all values.
* `pipe`: a ring of two bytes, writes of three and reads of one and two, so that
  both loops suspend; two threads of one process and a forked one, so that ends
  are closed by siblings and by other processes. The empty entries of vectors
  find the ring empty and full. The safety properties and the refinement are
  proved for any ring, threads and vectors.
* `fd_table`: five descriptors (`MaxFds`, `MaxRecycled`), two bits in place of 8
  (`U8`), limits below and above the table. Proved for any values.
* `signal`: two threads and `MaxSends` = 2 signals by `kill` and `tkill`; faults,
  forks, execs, blocking calls and `sigaction` are not bounded. Two signals are
  what it takes to stop and continue, or to interrupt a handler. The safety properties are
  proved for any number of threads and signals.
* `memory`: two processes of two threads, 17 frames, pages of two bytes and
  tables of eight entries: one process and its copy do not fit together with
  everything either maps, so that every allocation also fails. `View` drops the
  numbers of frames; the comment in `MCMemorySet` says why no property can tell.
  All properties of this run are proved for any values.
* `fat_file`: three data clusters of one sector, pages of two sectors, two files,
  a queue of one vacant cluster: files grow over a page, the volume gets full,
  and one allocation takes clusters from the queue and from the table. Once an
  allocation gave too few clusters or one twice, contents are no longer
  promised and `View` drops them; table, lists and sizes are followed on.
* `block_cache`: three blocks for two buffers, priority bound 1 as in the code.
* `directory`: names of one to three entries, clusters of three and `MaxEnts` = 9:
  names cross clusters, clusters are added and cut. `OldEnts` and `Images`
  give added clusters and the space behind the end old contents.
* `dir_tree`: three nodes below the root, paths of up to two components with
  "..", one process, one rename that moves (`MaxMoves`), and no call after the
  first that does damage. Four calls do: a rename of a directory that is not
  empty, which fails half-way; a rename onto an existing name; one that creates,
  removes or moves a file under the name ".."; an open of a directory with
  `O_TRUNC`. After them tree and disk have different files, and what later calls
  find depends on what the clusters of the directory held. The small scope still has
  files in directories in the root, which is the depth at which removing,
  moving and working directories meet.

### Fairness

* `process`: weak fairness of `Dispatch` and `Schedule` (the idle loop and the
  switch run by themselves) and of a resumed call; strong fairness of the timer
  interrupt, which fires for ever and, when it comes in the kernel, is taken on
  the return to user mode. Nothing makes a program call anything.
* `pipe`: weak fairness of the turns of sleeping readers and pollers, which are
  in the ready queue; that a ready thread runs is `ReadyRuns` of `process`.
  Writers need none.
* `signal`: the timer interrupts each thread in user mode, a suspended thread
  gets turns, and the time limit of a `sigtimedwait` passes. Nothing makes a
  blocking call return; `KillKills` has that as a hypothesis on the main thread.
* `block_cache`: an access, once asked for, goes on; it does not give up the hart.

## Refinement

* `Pipe` implements `PipeFifo`: the bytes between head and tail are a bounded
  queue, a write hands over its bytes in order in pieces, a read takes a prefix.
  Also proved.
* `FatFile` implements `FileStore`, plain arrays of sectors: the mapping reads
  each sector from the page cache or, if no page is cached, from the device
  through the cluster list. It promises nothing once an allocation gave too few
  clusters or one twice.
* `BlockCache` implements `BlockStore`, an array of blocks: the mapping takes a
  block from its buffer or else from the disk. Also proved.
* `DirTree` implements `Namespace`, a tree in which each call places, moves or
  removes one file, removes no directory with files, and moves none below itself.
  It promises nothing after a call that does damage.

## What is proved

All theorems hold for every value of the constants that meets the named
assumptions. `MaxIdsAssumption`, `ProcessConstants`, `FdConstants`,
`CacheAssumption`, `PipeConstants`, `SignalConstants` and `MemoryConstants` only
say that numbers are numbers, that listed pages and threads exist and that
markers such as `None` are not members of the sets. `BootFits` says that the
program of the first process lies apart from its stack and trap context, and
that the memory is enough for that process; without it the kernel does not boot.

* `AllocatorProofs`, on `RecycleAllocator`: types, `UniqueIds`,
  `HandlesPassAsserts` (dropping an owner passes both assertions of `dealloc`)
  and `IdsBoundedByPeak`. Invariant `IInv`: the stack has no duplicates and only
  ids below `current`; an id has one owner exactly when it is below `current`
  and not on the stack; owners and stack together count `current`. `UniqueIds`
  alone says nothing about the stack, from which the next id comes.
* `AllocatorProofs`, on `FdTable`: `RecycledInBounds`, `RecycledAreFree`,
  `NoSlotLost`, `LimitRespected` (the table passes its soft limit only by a fork
  of a longer one) and types. `FdInv` is `TableOK` of table and list, with
  `TypeOK` and the limit; lemmas show that each operation on a pair of table and
  list keeps `TableOK`, since `sys_pipe` inserts twice in one step.
* `ProcessProofs`: the invariant `Inductive` of `Process` is kept by the
  scheduler and the futex calls, by fork and clone, by the two kinds of exit,
  and by reaping, in this order in the module. `Inductive`
  joins the properties with what they need of each other: `Tree` (a zombie has
  no children and is not in PID2PCB), `Tables` (thread tables and TCBs agree,
  slot 0 has the main thread), `Refs` (a deallocated TCB is referenced from
  nowhere), `BlockedStatus`, `Waiters`. `OnePlace` for instance needs `Tables`
  to know whom the exit of a main thread takes out of the queues, and
  `NoSleepOnZombie` needs `Tree` to know that the parent of who exits is
  alive. Consequences: the tree, one place per thread, the futex queues (with
  `Waiters`: a thread other than the main one is in one queue only, once), and

  - `ExitIsSafe`: the unwraps and the index of an exit never fail;
  - `ReapIsSafe`: the assertion on the reference count in `wait4` holds;
  - `NoLostChildExit`: outside the initial process, a main thread does not
    sleep in `wait4` while a child it waits for is a zombie.
* `BlockCacheProofs`: no block is in two buffers, room is found after at most
  `PRIORITY_UPPERBOUND + 1` sweeps, the block accessed last survives a sweep,
  and `CacheImplementsStore`: `Spec => StoreSpec`, the refinement for every
  pool, set of blocks and order of accesses. The invariant has `LowPriorities`
  (after n sweeps no priority is above the bound less n) and `LatestRaised`
  (the block accessed last has a priority above 0), from which the bound and
  the survival follow.
* `PipeProofs`: `StatusAgrees`, `EofIsFinal` and `PipeImplementsFifo`, which is
  `Spec => RingIsFifo`, the refinement. `StatusAgrees` is inductive as it
  stands: types, and a status of Normal exactly when the indices differ. The
  work is in the loops: `WriteBytes`, `ReadBytes` and `Joined` are recursive
  functions, and a lemma for each says that its value is reached from the first
  by single steps, from which `WriteBytesFacts` and `ReadBytesFacts` follow
  (bytes that fit are appended to the contents; a prefix is taken off).
  A step of a call, resumed or not, then gives the queue a prefix of what is
  left of the call, and keeps the rest in `Pending`. Each action is shown to
  keep `StatusAgrees`, to be a step of the queue and to reopen no end of file
  at once (`Good`).
* `SignalProofs`: `StoppedStays` and `InterruptedContextKept`. Their conjunction
  with the types and `KillMarked` (a thread is marked killed only by a signal
  without a handler or by a SIGKILL that is still pending) is inductive, but not by itself of the loop of
  `handle_signals`: `Delivers` says what one delivery keeps of a signal state
  (the other threads, and `ContextKept` of this one), and composes.
* `MemorySetProofs`: `FramesAccounted`, `ReachesOwnFrames`, `HeapCovered`,
  `TrapContextValid` and `KstackOwned`, all properties of the run. Its lemmas
  are in `MemorySetLemmas`, about `mem` alone first: k calls of `alloc` in a row
  return k different frames that were free (`TakenSupplies`), so that `Grab`,
  `Drop`, `Map` and `Unmap` keep a memory `Sound`, and what they leave of the
  trackers. `Budget` (there are frames for all slots of a set that have none) is
  how one test for enough memory carries over the several allocations of a fork,
  an exec or the boot. The invariant `Inv` joins `Sound` with a part for each
  process. It needs more than the properties say: a process that was reaped has
  no tracker but those of leaked kernel stacks, so that a fork starts from an
  empty space; the bare root of an exec is gone after it; a process that is not
  live has no threads and no tasks; every thread has a tid below the length of
  the task table, so that the test of fork and exec for one task means one
  thread; and the main thread is there while the process lives.
* `SeqLemmas`: what Front, Last, Append, concatenation and filters do to the
  sets of elements and to sequences without duplicates; a least element in
  every set of numbers; that a recursion over numbers has one solution.

Only model-checked: everything about `FatFile`, `Directory` and `DirTree`, and
all liveness (`WaitReturns`, `ReadyRuns`, `ReaderSeesClose`, `PollerSeesClose`,
`KillKills`, `AccessReturns`). Liveness under fairness is beyond the prover. The
properties of `FatFile`, `Directory` and `DirTree` are about what walks over
chains, entries and paths of any length return. The library's induction theorems
take a predicate as a parameter, which the provers cannot instantiate; where the
proofs above need induction they use a set of numbers instead
(`NatSetInduction`), and these three components have no such proofs.

## What the models found

Two disagreements of code and documentation have a run of their own,
`pipe_borrow` and `fd_dupfd`. The following came up while the code was
translated. The models contain them; the properties say what holds beside them.

* `sys_yield` and an index beyond the thread table in `waittid` end in a panic
  (`halt` of `Process`); fork and exec assert that the process has one thread.
* Zombies handed to the sleeping initial process do not wake it
  (`task/mod.rs:133`), although `doc/进程管理.md:166` says it reclaims them. A
  `wait4` in a thread that is not the main one is not woken by an exit.
* The exit of a child wakes a parent that sleeps on a futex and leaves its
  entry in the queue, where a later signal finds it and wakes nobody. Blocked
  threads of processes that exited stay in the block queue (`manager.rs:37`),
  and ends of pipes they hold stay open (`task/mod.rs:149`).
* The main thread's exit drops the TCB, and with it the kernel stack, that the
  hart still runs on (`task/mod.rs:168`).
* A writer on a full ring never looks whether a reader is left. `pselect` does
  not report a pipe at end of file as readable, since it looks at the ring only.
  `ppoll` does not clear `revents`.
* A descriptor of 256 and more is recycled modulo 256; a forked table has holes
  that are never reused; `sys_pipe` that fails half way keeps the read end;
  close-on-exec is recorded and never acted on.
* A second signal during a handler overwrites the only backup of the context;
  `SIGCONT` is consumed by the thread that looks first; `kill` with 0 shifts by 63.
  A signal without a handler marks a thread killed for good, so that a later
  stop does not hold it; `kill` wakes nobody out of a blocking call; `tkill`
  of a thread that is not there panics.
* `munmap` leaves page table entries valid; `brk` into a page that is there, and
  `MAP_FIXED` over the heap or the stack, fail an assertion, although
  `memory_set.rs:61` excludes conflicts; fork resets the break to the base of
  the heap (`process.rs:390`) and the working directory to the root.
* `alloc_one` leaves the entry of the cluster it takes free until the next one is
  linked. An allocation that takes the last vacant cluster and goes on in the
  table may find that cluster again, also with clusters to spare: a file of
  clusters 2 and 3, cut to one cluster and grown to three, has 2, 3, 3
  (`bitmap.rs:197-212`). So may one that asks for more than is free. A later cut
  of the file leaves a cluster in use in the queue of vacant ones. The
  `debug_assert!` at `bitmap.rs:192`, were it compiled in, would fail for the
  second cluster of every call.
* On a full volume a file gets a size without its clusters. `Inode::drop` changes
  a copy of the directory entry and writes back the unmodified one
  (`vfs.rs:115-129`), so that neither the size nor the first cluster of a file
  is ever stored; the chains are those of the running kernel.
* A listing whose offset was cut off and written over starts inside a name and
  reaches `unreachable!()`.
* `rename` puts the file on disk under its old name (`directory_tree.rs:547`),
  loses the subtree of a directory that is not empty, waits for itself when the
  two paths name one parent differently, and leaves `PATH_CACHE` stale. Onto an
  existing name it unlinks the parent of that name, if the parent has no entries
  on disk, and then waits for a lock its own `match` holds
  (`directory_tree.rs:515-529`). A hit in `PATH_CACHE` skips the test of `O_EXCL`.
* `open` of a directory with `O_TRUNC` and `O_WRONLY` empties it on disk before it
  returns `EISDIR` (`directory_tree.rs:329-347`).
* "/" as a path to delete or rename has no last component to unwrap, although a
  comment at `directory_tree.rs:471` guarantees one.
* The comment at `cache.rs:33` gives 3 as the bound of a priority, the constant
  is 1. The proofs hold for both.

## Not modelled

* Inside modelled parts: register values and contents of memory pages;
  permissions of pages, and so `mprotect`; time stamps, bytes inside a sector,
  short names and other fields of directory entries; the file of a directory after
  an open with `O_TRUNC` or when it grows on a full volume; the fixed redirections of
  `open`; resource usage; the conversion of structures for user space.
* Crashes: the kernel writes the table and directory entries through caches
  without an order or a journal and has no recovery, so there is no promise after
  a crash to check. First clusters and sizes never reach the entries of files
  anyway (`vfs.rs:129`).
* Eviction of pages under memory pressure is called by the frame allocator of the
  k210 build (`frame_allocator.rs:126`); `FatFile` has it as `Oom` between two
  calls. `MemorySet` is the qemu build, in which a failed allocation panics.
* `fs/swap.rs` is behind a feature that `Cargo.toml` does not declare, and is in
  no build. `sync/{mutex,semaphore,condvar}.rs` have no user, and no timer is
  ever added to `TIMERS`.
* Device files, sockets (stubs), block drivers, console, boot, traps and context
  switch in assembly, ELF loading, address arithmetic, the system call table and
  calls that report constants: no state that one call changes and another sees,
  or below the level at which the models take the hardware to work.
* `dependency/` and the vendored crates: register definitions generated for the
  chip and third-party libraries. They are about four fifths of the lines below
  `src/`, so that the mapped lines are a small share of all lines; of
  `kernel/src` the map covers about three tenths.
