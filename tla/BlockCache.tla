----------------------------- MODULE BlockCache -----------------------------
(***************************************************************************)
(* The block cache of fs/cache.rs, through which every access to the file  *)
(* allocation table goes (fs/fat32/bitmap.rs).  A fixed pool of buffers;   *)
(* a buffer has a small priority that an access raises and a sweep for     *)
(* room lowers; a sweep writes back and releases the buffers it finds at   *)
(* priority 0.                                                             *)
(*                                                                         *)
(* The callers hold the manager's lock from the look-up to the end of the  *)
(* access and drop their reference to the buffer with it, so requests do   *)
(* not interleave, and oom finds no buffer with a second reference.        *)
(***************************************************************************)
EXTENDS Integers

CONSTANTS
  Block,                  \* block ids of the device that are used
  Offset, Value,          \* offsets of entries in a block and what they hold
  Zero,                   \* the entry of a fresh frame
  CACHEPOOLSIZE,
  PRIORITY_UPPERBOUND,
  NoBlock,                \* usize::MAX, the block id of an unused buffer
  None

ASSUME CacheAssumption ==
  /\ CACHEPOOLSIZE \in Nat \ {0}
  /\ PRIORITY_UPPERBOUND \in Nat \ {0}
  /\ NoBlock \notin Block
  /\ Zero \in Value
  /\ None \notin Value
  /\ None \notin Block

VARIABLES
  cache_pool,   \* the buffers
  disk,         \* the blocks of the device
  request,      \* the access in progress, or None
  sweeps,       \* how often it has swept the pool
  ret,          \* the entry the last access read, None if it was a write
  last          \* the block of the last access

vars == <<cache_pool, disk, request, sweeps, ret, last>>

Slot == 1 .. CACHEPOOLSIZE
Data == [Offset -> Value]
Buffers == [block : Block \cup {NoBlock}, priority : 0 .. PRIORITY_UPPERBOUND, buffer : Data]

\* How far the sweeps of one access are counted.
MaxSweeps == PRIORITY_UPPERBOUND + 2

Requests == [op : {"read"}, block : Block, offset : Offset, value : {None}]
              \cup [op : {"modify"}, block : Block, offset : Offset, value : Value]

IsFirst(i, S) == i \in S /\ \A j \in S : i <= j
IsLast(i, S) == i \in S /\ \A j \in S : j <= i

Holding(b) == {i \in Slot : cache_pool[i].block = b}
Unused == Holding(NoBlock)

\* BufferCache::new for each buffer of the pool's frames, which are cleared.
Init ==
  /\ cache_pool = [i \in Slot |-> [block |-> NoBlock, priority |-> 0,
                                   buffer |-> [o \in Offset |-> Zero]]]
  /\ disk \in [Block -> Data]
  /\ request = None /\ sweeps = 0 /\ ret = None /\ last = None

-----------------------------------------------------------------------------
UnraisedPriority(n) == n
RaisePriority(n) == IF n < PRIORITY_UPPERBOUND THEN n + 1 ELSE n

\* What read and modify do to the buffer, and what they return.
Stored(data) ==
  IF request.op = "modify" THEN [data EXCEPT ![request.offset] = request.value] ELSE data
Answer(data) == IF request.op = "read" THEN data[request.offset] ELSE None

\* get_next_clus_num or set_next_clus asks for a block, with the lock taken.
Ask ==
  /\ request = None
  /\ request' \in Requests
  /\ sweeps' = 0 /\ ret' = None
  /\ UNCHANGED <<cache_pool, disk, last>>

\* The access in buffer i, which holds the block with contents data.
Access(i, data) ==
  /\ cache_pool' = [cache_pool EXCEPT ![i] =
       [block |-> request.block, priority |-> RaisePriority(@.priority), buffer |-> Stored(data)]]
  /\ ret' = Answer(data)
  /\ last' = request.block
  /\ request' = None /\ sweeps' = 0
  /\ UNCHANGED disk

\* try_get_block_cache finds the block.
Hit ==
  /\ request # None
  /\ \E i \in Slot : IsFirst(i, Holding(request.block)) /\ Access(i, cache_pool[i].buffer)

\* get_block_cache after a miss: the first unused buffer, filled from disk.
Fill ==
  /\ request # None
  /\ Holding(request.block) = {}
  /\ \E i \in Slot : IsFirst(i, Unused) /\ Access(i, disk[request.block])

SweptKeeping(s) == IF s.priority > 0 THEN [s EXCEPT !.priority = @ - 1] ELSE s

\* What oom makes of a buffer, and of the disk.
Swept(s) ==
  IF s.priority > 0 THEN [s EXCEPT !.priority = @ - 1] ELSE [s EXCEPT !.block = NoBlock]

Victims(b) == {i \in Holding(b) : cache_pool[i].priority = 0}

NothingWritten == disk
WrittenBack ==
  [b \in Block |-> IF Victims(b) = {} THEN disk[b]
                   ELSE cache_pool[CHOOSE i \in Slot : IsLast(i, Victims(b))].buffer]

\* alloc_buffer_cache finds no unused buffer, and sweeps before it looks again.
Sweep ==
  /\ request # None
  /\ Holding(request.block) = {}
  /\ Unused = {}
  /\ disk' = WrittenBack
  /\ cache_pool' = [i \in Slot |-> Swept(cache_pool[i])]
  /\ sweeps' = IF sweeps < MaxSweeps THEN sweeps + 1 ELSE sweeps
  /\ UNCHANGED <<request, ret, last>>

Next == Ask \/ Hit \/ Fill \/ Sweep

Spec == Init /\ [][Next]_vars

\* An access runs to its end without giving up the processor.
FairSpec == Spec /\ WF_vars(Hit \/ Fill \/ Sweep)

-----------------------------------------------------------------------------
\* The types of the state; a priority stays within its bound.
TypeOK ==
  /\ cache_pool \in [Slot -> Buffers]
  /\ disk \in [Block -> Data]
  /\ request \in Requests \cup {None}
  /\ sweeps \in 0 .. MaxSweeps
  /\ ret \in Value \cup {None}
  /\ last \in Block \cup {None}

\* No block is in two buffers: an access changes the one it finds first, and
\* the other would later be written back over it.
OneBuffer ==
  \A i, j \in Slot :
    cache_pool[i].block = cache_pool[j].block /\ cache_pool[i].block # NoBlock => i = j

\* The loop of alloc_buffer_cache has room after at most PRIORITY_UPPERBOUND
\* + 1 calls of oom, whatever the priorities were.
SweepsBounded == sweeps <= PRIORITY_UPPERBOUND + 1

\* The block of the latest access is still there after the next sweep, so
\* that walking a cluster chain does not read its sector again and again.
LatestSurvivesSweep ==
  last # None /\ sweeps <= 1 => \E i \in Slot : cache_pool[i].block = last

\* An access comes to its end: get_block_cache does not loop for ever.
AccessReturns == (request # None) ~> (request = None)

\* The cache implements a store of blocks: a buffer counts before the disk.
Content ==
  [b \in Block |-> IF Holding(b) = {} THEN disk[b]
                   ELSE cache_pool[CHOOSE i \in Slot : IsFirst(i, Holding(b))].buffer]
Store == INSTANCE BlockStore WITH content <- Content
StoreSpec == Store!Spec
=============================================================================
