-------------------------- MODULE RecycleAllocator --------------------------
(***************************************************************************)
(* The stack-like id allocator of kernel/src/task/id.rs.  One instance     *)
(* hands out pids (PID_ALLOCATOR), one kernel-stack slots                  *)
(* (KSTACK_ALLOCATOR) and every process has one for its thread ids.        *)
(* An id is given back when the handle that owns it (PidHandle,            *)
(* KernelStack, TaskUserRes) is dropped.                                   *)
(***************************************************************************)
EXTENDS Queue

CONSTANT MaxIds     \* bound of the model on the ids ever created (usize in the code)

ASSUME MaxIdsAssumption == MaxIds \in Nat

VARIABLES
  current,          \* RecycleAllocator::current, the first id never handed out
  recycled_ids,     \* RecycleAllocator::recycled, a stack
  handles,          \* how many live handles own each id
  live,             \* how many handles are live
  peak              \* the largest value live ever had

id_vars == <<current, recycled_ids, handles, live, peak>>

Ids == 0 .. MaxIds - 1

\* RecycleAllocator::new.
New ==
  /\ current = 0
  /\ recycled_ids = <<>>
  /\ handles = [id \in Ids |-> 0]
  /\ live = 0
  /\ peak = 0

\* A new handle owns id.
Hand(id) ==
  /\ handles' = [handles EXCEPT ![id] = @ + 1]
  /\ live' = live + 1
  /\ peak' = IF live + 1 > peak THEN live + 1 ELSE peak

\* alloc peeks at the stack instead of popping it.
PopLeavesId ==
  /\ recycled_ids # <<>>
  /\ Hand(Last(recycled_ids))
  /\ UNCHANGED <<current, recycled_ids>>

\* alloc, first branch: reuse the id given back last.
AllocRecycled ==
  /\ recycled_ids # <<>>
  /\ recycled_ids' = Front(recycled_ids)
  /\ Hand(Last(recycled_ids))
  /\ UNCHANGED current

\* alloc takes a fresh id although there are recycled ones.
FreshAlways ==
  /\ current < MaxIds
  /\ current' = current + 1
  /\ Hand(current)
  /\ UNCHANGED recycled_ids

\* alloc, second branch: no recycled id, take a fresh one.
AllocFresh ==
  /\ recycled_ids = <<>>
  /\ current < MaxIds
  /\ current' = current + 1
  /\ Hand(current)
  /\ UNCHANGED recycled_ids

\* The two assertions at the head of dealloc.
DeallocAsserts(id) == id < current /\ id \notin ToSet(recycled_ids)

\* The handle that owns id is dropped; a failed assertion stops the kernel,
\* so the step has no successor (HandlesPassAsserts shows it never fails).
Dealloc(id) ==
  /\ handles[id] > 0
  /\ DeallocAsserts(id)
  /\ recycled_ids' = Append(recycled_ids, id)
  /\ handles' = [handles EXCEPT ![id] = @ - 1]
  /\ live' = live - 1
  /\ UNCHANGED <<current, peak>>

IdNext == AllocRecycled \/ AllocFresh \/ (\E id \in Ids : Dealloc(id))

IdSpec == New /\ [][IdNext]_id_vars

-----------------------------------------------------------------------------
\* Types of the allocator's fields and of the ghosts.
IdTypeOK ==
  /\ current \in 0 .. MaxIds
  /\ recycled_ids \in Seq(Ids)
  /\ handles \in [Ids -> Nat]
  /\ live \in Int
  /\ peak \in Int

\* No two live handles own the same id: alloc never hands out a pid, a kernel
\* stack or a tid that somebody still holds.
UniqueIds == \A id \in Ids : handles[id] <= 1

\* Dropping a live handle never trips the assertions of dealloc.
HandlesPassAsserts == \A id \in Ids : handles[id] > 0 => DeallocAsserts(id)

\* Ids are dense: a fresh id is only created when all older ones are live, so
\* the highest kernel-stack slot (kernel_stack_position grows with the id) is
\* bounded by the largest number of tasks that ever lived at the same time.
IdsBoundedByPeak == current = peak
=============================================================================
