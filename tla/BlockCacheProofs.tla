-------------------------- MODULE BlockCacheProofs --------------------------
(* Proofs about the block cache for a pool of any size and any blocks.      *)
EXTENDS BlockCache, TLAPS

\* Most leaves are first-order: Zenon has a short try before the SMT solver.
USE ZenonT(6), SMTT(20), ZenonT(40)

\* While an access looks for room, what its sweeps have not freed they have
\* lowered: the priorities that are left allow only so many more of them.
LowPriorities ==
  request # None => Unused # {} \/ \A i \in Slot : cache_pool[i].priority + sweeps <= PRIORITY_UPPERBOUND

\* The latest block has a priority above 0 until the next sweep.
LatestRaised ==
  last # None =>
    /\ sweeps = 0 => \E i \in Slot : cache_pool[i].block = last /\ cache_pool[i].priority > 0
    /\ sweeps = 1 => \E i \in Slot : cache_pool[i].block = last

\* Nothing is swept between two accesses.
IdleUnswept == request = None => sweeps = 0

Inv == TypeOK /\ OneBuffer /\ SweepsBounded /\ LowPriorities /\ LatestRaised /\ IdleUnswept

\* The empty pool satisfies the invariant.
LEMMA InitInv == Init => Inv
  BY CacheAssumption
  DEF Init, Inv, TypeOK, Buffers, Data, MaxSweeps, OneBuffer, SweepsBounded, LowPriorities,
      LatestRaised, IdleUnswept, Slot

\* What the fields of the buffers are.
LEMMA PoolTypes ==
  ASSUME TypeOK, NEW i \in Slot
  PROVE  /\ cache_pool[i] = [block |-> cache_pool[i].block, priority |-> cache_pool[i].priority,
                             buffer |-> cache_pool[i].buffer]
         /\ cache_pool[i].block \in Block \cup {NoBlock}
         /\ cache_pool[i].priority \in 0 .. PRIORITY_UPPERBOUND
         /\ cache_pool[i].buffer \in Data
  BY DEF TypeOK, Buffers

\* What the fields of a request are.
LEMMA RequestTypes ==
  ASSUME TypeOK, request # None
  PROVE  /\ request.op \in {"read", "modify"} /\ request.block \in Block /\ request.offset \in Offset
         /\ request.op = "modify" => request.value \in Value
  BY DEF TypeOK, Requests

\* An access leaves its block, raised, in buffer i and the other buffers alone.
LEMMA AccessPool ==
  ASSUME TypeOK, request # None, NEW i \in Slot, NEW data \in Data, Access(i, data)
  PROVE  /\ TypeOK'
         /\ cache_pool'[i].block = request.block /\ cache_pool'[i].priority > 0
         /\ cache_pool'[i].buffer = Stored(data)
         /\ \A j \in Slot \ {i} : cache_pool'[j] = cache_pool[j]
<1> DEFINE n == cache_pool[i].priority
<1>0. n \in 0 .. PRIORITY_UPPERBOUND /\ PRIORITY_UPPERBOUND \in Nat /\ PRIORITY_UPPERBOUND > 0
  <2>1. n \in 0 .. PRIORITY_UPPERBOUND
    BY PoolTypes
  <2> QED
    BY <2>1, CacheAssumption
<1>1. RaisePriority(n) \in 1 .. PRIORITY_UPPERBOUND
  <2> HIDE DEF n
  <2> QED BY <1>0 DEF RaisePriority
<1>2. Stored(data) \in Data
  BY RequestTypes DEF Stored, Data
<1>3. Answer(data) \in Value \cup {None}
  BY RequestTypes DEF Answer, Data
<1> DEFINE new == [block |-> request.block, priority |-> RaisePriority(cache_pool[i].priority),
                   buffer |-> Stored(data)]
<1>4. new \in Buffers
  BY <1>1, <1>2, RequestTypes DEF Buffers
<1>5. cache_pool' = [cache_pool EXCEPT ![i] = new] /\ cache_pool \in [Slot -> Buffers]
  BY DEF Access, TypeOK
<1>6. cache_pool'[i] = new /\ cache_pool' \in [Slot -> Buffers]
  BY <1>4, <1>5
<1>7. TypeOK'
  BY <1>3, <1>6, RequestTypes, CacheAssumption DEF Access, TypeOK, MaxSweeps
<1> QED
  BY <1>1, <1>5, <1>6, <1>7

\* A buffer keeps its contents in a sweep, loses one level of priority or its block.
LEMMA SweptFields ==
  ASSUME TypeOK, Sweep, NEW i \in Slot
  PROVE  /\ cache_pool'[i] \in Buffers
         /\ cache_pool'[i].buffer = cache_pool[i].buffer
         /\ cache_pool[i].priority > 0 => /\ cache_pool'[i].block = cache_pool[i].block
                                          /\ cache_pool'[i].priority = cache_pool[i].priority - 1
         /\ cache_pool[i].priority = 0 => /\ cache_pool'[i].block = NoBlock
                                          /\ cache_pool'[i].priority = 0
<1> DEFINE b == cache_pool[i].block
           n == cache_pool[i].priority
           data == cache_pool[i].buffer
<1>1. cache_pool'[i] = Swept(cache_pool[i])
  BY DEF Sweep
<1>2. /\ cache_pool[i] = [block |-> b, priority |-> n, buffer |-> data]
      /\ b \in Block \cup {NoBlock} /\ data \in Data
      /\ n \in 0 .. PRIORITY_UPPERBOUND /\ PRIORITY_UPPERBOUND \in Nat
  BY PoolTypes, CacheAssumption
<1> HIDE DEF b, n, data
<1>3. CASE n > 0
  <2>1. cache_pool'[i] = [block |-> b, priority |-> n - 1, buffer |-> data]
    BY <1>1, <1>2, <1>3 DEF Swept
  <2>2. n - 1 \in 0 .. PRIORITY_UPPERBOUND
    BY <1>2, <1>3
  <2> QED
    BY <2>1, <2>2, <1>2, <1>3 DEF Buffers, b, n, data
<1>4. CASE n = 0
  <2>1. cache_pool'[i] = [block |-> NoBlock, priority |-> n, buffer |-> data]
    BY <1>1, <1>2, <1>4 DEF Swept
  <2> QED
    BY <2>1, <1>2, <1>4 DEF Buffers, b, n, data
<1> QED
  BY <1>2, <1>3, <1>4

\* What a sweep leaves on disk: the contents of the buffer at priority 0
\* that holds the block, if there is one, else what was there.
LEMMA WrittenBackIs ==
  ASSUME TypeOK, OneBuffer, NEW b \in Block
  PROVE  /\ \A i \in Slot : cache_pool[i].block = b /\ cache_pool[i].priority = 0
                           => WrittenBack[b] = cache_pool[i].buffer
         /\ (\A i \in Slot : cache_pool[i].block = b => cache_pool[i].priority # 0)
              => WrittenBack[b] = disk[b]
<1>1. ASSUME NEW i \in Slot, cache_pool[i].block = b, cache_pool[i].priority = 0
      PROVE  WrittenBack[b] = cache_pool[i].buffer
  <2>1. Victims(b) = {i}
    BY <1>1, CacheAssumption DEF Victims, Holding, OneBuffer
  <2>2. i \in Int
    BY DEF Slot
  <2>3. \A j \in Slot : IsLast(j, Victims(b)) <=> j = i
    BY <2>1, <2>2 DEF IsLast
  <2>4. (CHOOSE j \in Slot : IsLast(j, Victims(b))) = i
    BY <2>3
  <2> QED
    BY <2>1, <2>4 DEF WrittenBack
<1>2. ASSUME \A i \in Slot : cache_pool[i].block = b => cache_pool[i].priority # 0
      PROVE  WrittenBack[b] = disk[b]
  <2>1. Victims(b) = {}
    BY <1>2 DEF Victims, Holding
  <2> QED
    BY <2>1 DEF WrittenBack
<1> QED
  BY <1>1, <1>2

\* A sweep leaves blocks of entries on disk.
LEMMA WrittenBackTypes ==
  ASSUME TypeOK, OneBuffer
  PROVE  WrittenBack \in [Block -> Data]
<1>1. ASSUME NEW b \in Block PROVE WrittenBack[b] \in Data
  <2>1. CASE \E i \in Slot : cache_pool[i].block = b /\ cache_pool[i].priority = 0
    BY <2>1, WrittenBackIs, PoolTypes
  <2>2. CASE \A i \in Slot : cache_pool[i].block = b => cache_pool[i].priority # 0
    BY <2>2, WrittenBackIs DEF TypeOK
  <2> QED
    BY <2>1, <2>2
<1>2. WrittenBack = [b \in Block |-> WrittenBack[b]]
  BY DEF WrittenBack
<1> QED
  BY <1>1, <1>2

\* An access keeps the invariant: the block was in buffer i alone, or nowhere.
LEMMA AccessInv ==
  ASSUME Inv, request # None, NEW i \in Slot, NEW data \in Data, Access(i, data),
         \A j \in Slot \ {i} : cache_pool[j].block # request.block
  PROVE  Inv'
<1>0. TypeOK /\ OneBuffer
  BY DEF Inv
<1>1. /\ TypeOK'
      /\ cache_pool'[i].block = request.block /\ cache_pool'[i].priority > 0
      /\ \A j \in Slot \ {i} : cache_pool'[j] = cache_pool[j]
  BY <1>0, AccessPool
<1>2. request' = None /\ sweeps' = 0 /\ last' = request.block
  BY DEF Access
<1>3. OneBuffer'
  BY <1>0, <1>1 DEF OneBuffer
<1>4. SweepsBounded' /\ LowPriorities' /\ IdleUnswept'
  BY <1>2, CacheAssumption DEF SweepsBounded, LowPriorities, IdleUnswept
<1>5. LatestRaised'
  BY <1>1, <1>2 DEF LatestRaised
<1> QED
  BY <1>1, <1>3, <1>4, <1>5 DEF Inv

\* A request keeps the invariant: no sweep counts for it yet.
LEMMA AskInv == Inv /\ Ask => Inv'
<1> SUFFICES ASSUME Inv, Ask PROVE Inv'
  OBVIOUS
<1>1. /\ cache_pool' = cache_pool /\ disk' = disk /\ last' = last /\ sweeps' = 0 /\ ret' = None
      /\ request' \in Requests /\ sweeps = 0
  BY DEF Ask, Inv, IdleUnswept
<1>2. TypeOK' /\ SweepsBounded' /\ IdleUnswept'
  BY <1>1, CacheAssumption DEF Inv, TypeOK, MaxSweeps, SweepsBounded, IdleUnswept
<1>3. OneBuffer' /\ LatestRaised'
  BY <1>1 DEF Inv, OneBuffer, LatestRaised
<1>4. \A j \in Slot : cache_pool'[j].priority + sweeps' <= PRIORITY_UPPERBOUND
  <2> TAKE j \in Slot
  <2>1. cache_pool[j].priority \in 0 .. PRIORITY_UPPERBOUND
    BY PoolTypes DEF Inv
  <2> QED
    BY <1>1, <2>1, CacheAssumption
<1> QED
  BY <1>2, <1>3, <1>4 DEF Inv, LowPriorities

\* A sweep keeps the invariant: it frees a buffer or lowers all of them.
LEMMA SweepInv == Inv /\ Sweep => Inv'
<1> SUFFICES ASSUME Inv, Sweep PROVE Inv'
  OBVIOUS
<1>0. TypeOK /\ OneBuffer /\ request # None /\ Unused = {} /\ UNCHANGED <<request, ret, last>>
  BY DEF Inv, Sweep
<1>1. \A j \in Slot : cache_pool[j].priority \in 0 .. PRIORITY_UPPERBOUND
  BY <1>0, PoolTypes
<1>2. \A j \in Slot : cache_pool[j].priority + sweeps <= PRIORITY_UPPERBOUND
  BY <1>0 DEF Inv, LowPriorities
<1>3. 1 \in Slot /\ sweeps \in Nat /\ PRIORITY_UPPERBOUND \in Nat
  BY <1>0, CacheAssumption DEF Slot, TypeOK, MaxSweeps
<1>4. sweeps <= PRIORITY_UPPERBOUND
  <2> DEFINE n == cache_pool[1].priority
  <2>1. n \in 0 .. PRIORITY_UPPERBOUND /\ n + sweeps <= PRIORITY_UPPERBOUND
    BY <1>1, <1>2, <1>3
  <2> HIDE DEF n
  <2> QED
    BY <2>1, <1>3
<1>5. sweeps' = sweeps + 1 /\ sweeps' \in 0 .. MaxSweeps /\ SweepsBounded'
  BY <1>3, <1>4 DEF Sweep, MaxSweeps, SweepsBounded
<1>6. \A j \in Slot :
        /\ cache_pool'[j] \in Buffers
        /\ cache_pool[j].priority > 0 => /\ cache_pool'[j].block = cache_pool[j].block
                                         /\ cache_pool'[j].priority = cache_pool[j].priority - 1
        /\ cache_pool[j].priority = 0 => cache_pool'[j].block = NoBlock
  BY <1>0, SweptFields
<1>7. TypeOK'
  <2>1. cache_pool' \in [Slot -> Buffers]
    BY <1>6 DEF Sweep
  <2>2. disk' \in [Block -> Data]
    BY <1>0, WrittenBackTypes DEF Sweep
  <2> QED
    BY <2>1, <2>2, <1>0, <1>5 DEF TypeOK
<1>8. OneBuffer'
  <2> SUFFICES ASSUME NEW j \in Slot, NEW k \in Slot,
                      cache_pool'[j].block = cache_pool'[k].block, cache_pool'[j].block # NoBlock
               PROVE  j = k
    BY DEF OneBuffer
  <2>1. cache_pool[j].priority > 0 /\ cache_pool[k].priority > 0
    BY <1>1, <1>6
  <2> QED
    BY <2>1, <1>6, <1>0 DEF OneBuffer
<1>9. LowPriorities'
  <2>1. CASE \E j \in Slot : cache_pool[j].priority = 0
    BY <2>1, <1>6 DEF LowPriorities, Unused, Holding
  <2>2. CASE \A j \in Slot : cache_pool[j].priority # 0
    <3>1. ASSUME NEW j \in Slot
          PROVE  cache_pool'[j].priority + sweeps' <= PRIORITY_UPPERBOUND
      <4> DEFINE n == cache_pool[j].priority
      <4>1. n \in 0 .. PRIORITY_UPPERBOUND /\ n # 0 /\ n + sweeps <= PRIORITY_UPPERBOUND
        BY <2>2, <1>1, <1>2
      <4>2. n > 0
        <5> HIDE DEF n
        <5> QED BY <4>1, <1>3
      <4>3. cache_pool'[j].priority = n - 1
        BY <4>2, <1>6
      <4> HIDE DEF n
      <4> QED
        BY <4>1, <4>3, <1>3, <1>5
    <3> QED
      BY <3>1 DEF LowPriorities
  <2> QED
    BY <2>1, <2>2
<1>10. LatestRaised'
  <2>1. CASE sweeps = 0
    BY <2>1, <1>0, <1>3, <1>5, <1>6 DEF Inv, LatestRaised
  <2>2. CASE sweeps # 0
    BY <2>2, <1>3, <1>5 DEF LatestRaised
  <2> QED
    BY <2>1, <2>2
<1>11. IdleUnswept'
  BY <1>0 DEF IdleUnswept
<1> QED
  BY <1>5, <1>7, <1>8, <1>9, <1>10, <1>11 DEF Inv

\* The buffer an access uses, and what it finds there: the only buffer with
\* the block, or one without any block and the block as it is on disk.
Serves(i, data) ==
  /\ i \in Slot /\ data \in Data
  /\ \A j \in Slot \ {i} : cache_pool[j].block # request.block
  /\ \/ cache_pool[i].block = request.block /\ data = cache_pool[i].buffer
     \/ cache_pool[i].block = NoBlock /\ data = disk[request.block]
  /\ Access(i, data)

\* Both ways to a buffer, a hit and a fill, are such accesses.
LEMMA HitOrFillServes ==
  ASSUME Inv, Hit \/ Fill
  PROVE  request # None /\ \E i, data : Serves(i, data)
<1>0. TypeOK /\ OneBuffer /\ request # None /\ request.block \in Block /\ request.block # NoBlock
  BY RequestTypes, CacheAssumption DEF Inv, Hit, Fill
<1>1. CASE Hit
  <2> PICK i \in Slot : IsFirst(i, Holding(request.block)) /\ Access(i, cache_pool[i].buffer)
    BY <1>1 DEF Hit
  <2>1. cache_pool[i].block = request.block
    BY DEF IsFirst, Holding
  <2>2. \A j \in Slot \ {i} : cache_pool[j].block # request.block
    BY <2>1, <1>0 DEF OneBuffer
  <2>3. cache_pool[i].buffer \in Data
    BY <1>0, PoolTypes
  <2>4. Serves(i, cache_pool[i].buffer)
    BY <2>1, <2>2, <2>3 DEF Serves
  <2> QED
    BY <2>4, <1>0
<1>2. CASE Fill
  <2> PICK i \in Slot : IsFirst(i, Unused) /\ Access(i, disk[request.block])
    BY <1>2 DEF Fill
  <2>1. cache_pool[i].block = NoBlock
    BY DEF IsFirst, Unused, Holding
  <2>2. \A j \in Slot : cache_pool[j].block # request.block
    BY <1>2 DEF Fill, Holding
  <2>3. disk[request.block] \in Data
    BY <1>0 DEF TypeOK
  <2>4. Serves(i, disk[request.block])
    BY <2>1, <2>2, <2>3 DEF Serves
  <2> QED
    BY <2>4, <1>0
<1> QED
  BY <1>1, <1>2

\* Every step keeps the invariant.
LEMMA StepInv == Inv /\ [Next]_vars => Inv'
<1> SUFFICES ASSUME Inv, [Next]_vars PROVE Inv'
  OBVIOUS
<1>1. CASE Ask
  BY <1>1, AskInv
<1>2. CASE Hit \/ Fill
  <2>1. request # None
    BY <1>2, HitOrFillServes
  <2>2. PICK i, data : Serves(i, data)
    BY <1>2, HitOrFillServes
  <2> QED
    BY <2>1, <2>2, AccessInv DEF Serves
<1>3. CASE Sweep
  BY <1>3, SweepInv
<1>4. CASE UNCHANGED vars
  BY <1>4
  DEF vars, Inv, TypeOK, OneBuffer, SweepsBounded, LowPriorities, LatestRaised, IdleUnswept,
      Unused, Holding
<1> QED
  BY <1>1, <1>2, <1>3, <1>4 DEF Next

\* The invariant holds of every behaviour of the cache.
LEMMA CacheInv == Spec => []Inv
  BY InitInv, StepInv, PTL DEF Spec

\* The fields of the buffers, and the request, keep their types: a priority
\* stays below its bound whatever try_get_block_cache and oom do to it.
THEOREM CacheTypes == Spec => []TypeOK
<1>1. Inv => TypeOK
  BY DEF Inv
<1> QED
  BY <1>1, CacheInv, PTL

\* get_block_cache never reads a block into a second buffer.
THEOREM NoBlockInTwoBuffers == Spec => []OneBuffer
<1>1. Inv => OneBuffer
  BY DEF Inv
<1> QED
  BY <1>1, CacheInv, PTL

\* The loop of alloc_buffer_cache calls oom a bounded number of times.
THEOREM RoomAfterBoundedSweeps == Spec => []SweepsBounded
<1>1. Inv => SweepsBounded
  BY DEF Inv
<1> QED
  BY <1>1, CacheInv, PTL

\* One call of oom never releases the buffer of the latest access.
THEOREM LatestBlockSurvives == Spec => []LatestSurvivesSweep
<1>1. Inv => LatestSurvivesSweep
  <2> SUFFICES ASSUME Inv, last # None, sweeps <= 1
               PROVE  \E i \in Slot : cache_pool[i].block = last
    BY DEF LatestSurvivesSweep
  <2>1. sweeps = 0 \/ sweeps = 1
    BY CacheAssumption DEF Inv, TypeOK, MaxSweeps
  <2> QED
    BY <2>1 DEF Inv, LatestRaised
<1> QED
  BY <1>1, CacheInv, PTL

-----------------------------------------------------------------------------
\* What a block holds for its readers: its buffer, if it has one, else the disk.
LEMMA ContentIs ==
  ASSUME OneBuffer, NEW b \in Block
  PROVE  /\ \A i \in Slot : cache_pool[i].block = b => Content[b] = cache_pool[i].buffer
         /\ (\A i \in Slot : cache_pool[i].block # b) => Content[b] = disk[b]
<1>1. ASSUME NEW i \in Slot, cache_pool[i].block = b
      PROVE  Content[b] = cache_pool[i].buffer
  <2>1. Holding(b) = {i}
    BY <1>1, CacheAssumption DEF Holding, OneBuffer
  <2>2. i \in Int
    BY DEF Slot
  <2>3. \A j \in Slot : IsFirst(j, Holding(b)) <=> j = i
    BY <2>1, <2>2 DEF IsFirst
  <2>4. (CHOOSE j \in Slot : IsFirst(j, Holding(b))) = i
    BY <2>3
  <2> QED
    BY <2>1, <2>4, Zenon DEF Content
<1>2. ASSUME \A i \in Slot : cache_pool[i].block # b
      PROVE  Content[b] = disk[b]
  <2>1. Holding(b) = {}
    BY <1>2 DEF Holding
  <2> QED
    BY <2>1 DEF Content
<1> QED
  BY <1>1, <1>2

\* The same, as a state predicate that holds before and after a step.
ContentOK ==
  \A b \in Block :
    /\ \A i \in Slot : cache_pool[i].block = b => Content[b] = cache_pool[i].buffer
    /\ (\A i \in Slot : cache_pool[i].block # b) => Content[b] = disk[b]

\* It holds in every state of the invariant, and so in the next one.
LEMMA InvContent == Inv => ContentOK
  BY ContentIs DEF Inv, ContentOK

\* The step form of the lemma above.
LEMMA InvContentPrime == Inv' => ContentOK'
  BY InvContent, PTL

\* Content is a function on the blocks, before and after a step.
LEMMA ContentDomain ==
  Content = [b \in Block |-> Content[b]] /\ Content' = [b \in Block |-> Content'[b]]
<1> DEFINE Entry(b) == IF Holding(b) = {} THEN disk[b]
                       ELSE cache_pool[CHOOSE i \in Slot : IsFirst(i, Holding(b))].buffer
<1>1. Content = [b \in Block |-> Entry(b)] /\ Content' = [b \in Block |-> Entry(b)']
  BY DEF Content
<1> HIDE DEF Entry
<1> QED
  BY <1>1

\* An access finds the content of its block and stores there, and nowhere else.
LEMMA ServedContent ==
  ASSUME Inv, Inv', request # None, NEW i, NEW data, Serves(i, data)
  PROVE  /\ Content[request.block] = data
         /\ Content' = [Content EXCEPT ![request.block] = Stored(data)]
<1>0. TypeOK /\ request.block \in Block /\ request.block # NoBlock /\ i \in Slot /\ data \in Data
  BY RequestTypes, CacheAssumption DEF Inv, Serves
<1>1. ContentOK /\ ContentOK'
  BY InvContent, InvContentPrime
<1>2. /\ cache_pool'[i].block = request.block /\ cache_pool'[i].buffer = Stored(data)
      /\ \A j \in Slot \ {i} : cache_pool'[j] = cache_pool[j]
  BY <1>0, AccessPool DEF Serves
<1>3. disk' = disk /\ \A j \in Slot \ {i} : cache_pool[j].block # request.block
  BY DEF Serves, Access
<1>4. Content[request.block] = data
  BY <1>0, <1>1, <1>3 DEF Serves, ContentOK
<1>5. Content'[request.block] = Stored(data)
  BY <1>0, <1>1, <1>2 DEF ContentOK
<1>6. ASSUME NEW b \in Block, b # request.block
      PROVE  Content'[b] = Content[b]
  <2>1. cache_pool[i].block # b /\ cache_pool'[i].block # b
    BY <1>2, <1>6, CacheAssumption DEF Serves
  <2>2. CASE \E j \in Slot : cache_pool[j].block = b
    <3> PICK j \in Slot : cache_pool[j].block = b
      BY <2>2
    <3>1. cache_pool'[j] = cache_pool[j]
      BY <2>1, <1>2
    <3> QED
      BY <3>1, <1>1 DEF ContentOK
  <2>3. CASE \A j \in Slot : cache_pool[j].block # b
    <3>1. \A j \in Slot : cache_pool'[j].block # b
      BY <2>1, <2>3, <1>2
    <3> QED
      BY <3>1, <2>3, <1>1, <1>3 DEF ContentOK
  <2> QED
    BY <2>2, <2>3
<1>7. \A b \in Block : Content'[b] = [Content EXCEPT ![request.block] = Stored(data)][b]
  BY <1>0, <1>5, <1>6, ContentDomain
<1> QED
  BY <1>4, <1>7, ContentDomain

\* A sweep moves contents from buffers to the disk and changes none.
LEMMA SweptContent ==
  ASSUME Inv, Inv', Sweep
  PROVE  Content' = Content
<1>0. TypeOK /\ OneBuffer /\ ContentOK /\ ContentOK' /\ disk' = WrittenBack
  BY InvContent, InvContentPrime DEF Inv, Sweep
<1>1. \A j \in Slot : cache_pool[j].priority \in 0 .. PRIORITY_UPPERBOUND
  BY <1>0, PoolTypes
<1>2. \A j \in Slot :
        /\ cache_pool'[j].buffer = cache_pool[j].buffer
        /\ cache_pool[j].priority > 0 => cache_pool'[j].block = cache_pool[j].block
        /\ cache_pool[j].priority = 0 => cache_pool'[j].block = NoBlock
  BY <1>0, SweptFields
<1>3. ASSUME NEW b \in Block
      PROVE  Content'[b] = Content[b]
  <2>0. b # NoBlock
    BY CacheAssumption
  <2>1. CASE \A j \in Slot : cache_pool[j].block # b
    <3>1. \A j \in Slot : cache_pool'[j].block # b
      BY <2>0, <2>1, <1>1, <1>2
    <3>2. disk'[b] = disk[b]
      BY <2>1, <1>0, WrittenBackIs
    <3> QED
      BY <3>1, <3>2, <2>1, <1>0 DEF ContentOK
  <2>2. ASSUME NEW j \in Slot, cache_pool[j].block = b, cache_pool[j].priority > 0
        PROVE  Content'[b] = Content[b]
    BY <2>2, <1>0, <1>2 DEF ContentOK
  <2>3. ASSUME NEW j \in Slot, cache_pool[j].block = b, cache_pool[j].priority = 0
        PROVE  Content'[b] = Content[b]
    <3>1. \A k \in Slot : cache_pool'[k].block # b
      BY <2>0, <2>3, <1>0, <1>1, <1>2 DEF OneBuffer
    <3>2. disk'[b] = cache_pool[j].buffer
      BY <2>3, <1>0, WrittenBackIs
    <3> QED
      BY <3>1, <3>2, <2>3, <1>0 DEF ContentOK
  <2> QED
    BY <2>1, <2>2, <2>3, <1>1
<1> QED
  BY <1>3, ContentDomain

\* Every step of the cache is a step of the store, or none.
LEMMA StepStore == Inv /\ Inv' /\ [Next]_vars => [Store!Next]_(Store!vars)
<1> SUFFICES ASSUME Inv, Inv', [Next]_vars
             PROVE  Store!Next \/ UNCHANGED Store!vars
  BY DEF Store!vars
<1>1. CASE Ask
  <2>1. Content' = Content
    BY <1>1 DEF Ask, Content, Holding
  <2> QED
    BY <1>1, <2>1 DEF Ask, Requests, Store!Next, Store!Ask, Store!Requests
<1>2. CASE Hit \/ Fill
  <2>1. request # None /\ request.op \in {"read", "modify"} /\ request.block \in Block
    BY <1>2, HitOrFillServes, RequestTypes DEF Inv
  <2>2. PICK i, data : Serves(i, data)
    BY <1>2, HitOrFillServes
  <2>3. /\ Content[request.block] = data
        /\ Content' = [Content EXCEPT ![request.block] = Stored(data)]
    BY <2>1, <2>2, ServedContent
  <2>4. request' = None /\ ret' = Answer(data)
    BY <2>2 DEF Serves, Access
  <2>5. CASE request.op = "read"
    <3>1. Content' = Content
      BY <2>3, <2>5, ContentDomain DEF Stored
    <3> QED
      BY <2>1, <2>3, <2>4, <2>5, <3>1 DEF Answer, Store!Next, Store!Read
  <2>6. CASE request.op = "modify"
    <3>1. Content' = [Content EXCEPT ![request.block][request.offset] = request.value]
      BY <2>3, <2>6 DEF Stored
    <3> QED
      BY <2>1, <2>4, <2>6, <3>1 DEF Answer, Store!Next, Store!Modify
  <2> QED
    BY <2>1, <2>5, <2>6
<1>3. CASE Sweep
  BY <1>3, SweptContent DEF Sweep, Store!vars
<1>4. CASE UNCHANGED vars
  BY <1>4 DEF vars, Store!vars, Content, Holding
<1> QED
  BY <1>1, <1>2, <1>3, <1>4 DEF Next

\* The empty cache is an initial state of the store.
LEMMA InitStore == Init => Store!Init
<1> SUFFICES ASSUME Init PROVE Store!Init
  OBVIOUS
<1>1. Inv /\ ContentOK
  BY InitInv, InvContent
<1>2. \A b \in Block : Content[b] = disk[b]
  BY <1>1, CacheAssumption DEF Init, ContentOK
<1>3. Content = disk
  BY <1>2, ContentDomain DEF Init
<1> QED
  BY <1>3 DEF Init, Data, Store!Init

\* The cache implements a store of blocks: whatever is swept out and read in
\* again, get_next_clus_num reads what set_next_clus stored last.
THEOREM CacheImplementsStore == Spec => StoreSpec
  BY InitStore, StepStore, CacheInv, PTL DEF Spec, StoreSpec, Store!Spec
=============================================================================
