------------------------------ MODULE FatFile ------------------------------
(* Files on the FAT32 volume: the allocation table (fs/fat32/bitmap.rs), the *)
(* cluster list, size and page cache of every Inode (fs/fat32/vfs.rs,       *)
(* fs/cache.rs) and the device below them.                                  *)
(*                                                                          *)
(* A sector is the unit of data: sizes and offsets count sectors, and a     *)
(* page of the cache holds PAGE_BUFFERS of them.  The kernel is not         *)
(* preempted inside a call, so that every operation is one step.            *)
EXTENDS Naturals, Sequences, FiniteSets, FiniteSetsExt, SequencesExt

CONSTANTS
    File,                    \* the names of files
    CLUSTERS,                \* tot_ent: clusters 2 .. CLUSTERS - 1 hold data
    SEC_PER_CLUS,            \* sectors of a cluster
    PAGE_BUFFERS,            \* sectors of a page of the cache
    VACANT_CLUS_CACHE_SIZE,  \* bound of the queue of vacant clusters
    Data,                    \* what a program writes to a sector
    Limit,                   \* bound on the size of each file
    Lens,                    \* lengths of reads and writes
    Images                   \* what a volume holds at boot: clusters of files

ASSUME SizesAssumption ==
    /\ CLUSTERS \in Nat /\ CLUSTERS > 2
    /\ SEC_PER_CLUS \in Nat \ {0} /\ PAGE_BUFFERS \in Nat \ {0}
    /\ VACANT_CLUS_CACHE_SIZE \in Nat
    /\ Limit \in [File -> Nat \ {0}]
    /\ Lens \subseteq Nat \ {0} /\ 0 \notin Data

VARIABLES
    fat,          \* the table: FREE, EOC or the next cluster
    vacant_clus,  \* the queue of known vacant clusters
    hint,         \* where the next search starts
    inode,        \* the Inode of every file, and whether it is open
    device,       \* the sectors of the data area
    lost          \* whether an allocation fell "short" or gave a cluster "twice"

vars == <<fat, vacant_clus, hint, inode, device, lost>>

FREE == 0
EOC == CLUSTERS
Nil == 0
Clusters == 2 .. CLUSTERS - 1
Sectors == 0 .. (CLUSTERS - 2) * SEC_PER_CLUS - 1
Value == Data \cup {0}

MaxSize == Max(Range(Limit))

CeilDiv(a, b) == (a + b - 1) \div b
Pages == 0 .. CeilDiv(MaxSize, PAGE_BUFFERS) - 1
NoPage == [data |-> <<>>, dirty |-> FALSE, priority |-> 0]
NoCache == [p \in Pages |-> NoPage]
Absent == [state |-> "absent", open |-> FALSE, size |-> 0, clus_list |-> <<>>,
           cache |-> NoCache]

LastOf(list) == IF list = <<>> THEN Nil ELSE Last(list)

(* The allocation table.  Operators of the table take and give the record  *)
(* [fat, vacant, hint].                                                    *)

SetNextClus(t, current, next) ==
    IF current = Nil THEN t ELSE [t EXCEPT ![current] = next]

FreeClus(t) == {c \in 0 .. CLUSTERS - 1 : t[c] = FREE}

(* get_next_free_clus: from `start` on, then from the beginning. *)
NextFreeClus(t, start) ==
    LET above == {c \in FreeClus(t) : c >= start}
    IN  IF above # {} THEN Min(above)
        ELSE IF FreeClus(t) # {} THEN Min(FreeClus(t))
        ELSE Nil

(* alloc_one links the cluster it takes behind `last`, and leaves the entry *)
(* of the cluster itself alone: it stays FREE until the next one is linked. *)
AllocOne(a) ==
    LET v == a.vacant # <<>>
        c == IF v THEN Last(a.vacant) ELSE NextFreeClus(a.fat, a.hint)
    IN  [fat    |-> IF c = Nil THEN a.fat ELSE SetNextClus(a.fat, a.last, c),
         vacant |-> IF v THEN Front(a.vacant) ELSE a.vacant,
         hint   |-> IF v \/ c = Nil THEN a.hint ELSE (c + 1) % CLUSTERS,
         last   |-> c,
         list   |-> IF c = Nil THEN a.list ELSE Append(a.list, c)]

(* The search gives up when it finds nothing, and takes no further step. *)
Alloc(t, num, last) ==
    LET step[i \in 0 .. num] ==
            IF i = 0
            THEN [fat |-> t.fat, vacant |-> t.vacant, hint |-> t.hint,
                  last |-> last, list |-> <<>>]
            ELSE IF i > 1 /\ step[i - 1].last = Nil THEN step[i - 1]
            ELSE AllocOne(step[i - 1])
        end == step[num]
    IN  [end EXCEPT !.fat = SetNextClus(@, end.last, EOC)]

FreeOpenChain(t, list, last) ==
    LET room == VACANT_CLUS_CACHE_SIZE - Len(t.vacant)
        kept == IF Len(list) < room THEN Len(list) ELSE room
    IN  [fat    |-> [c \in DOMAIN t.fat |->
                        IF c \in ToSet(list) THEN FREE ELSE t.fat[c]],
         vacant |-> t.vacant \o SubSeq(list, 1, kept),
         hint   |-> t.hint]

Free(t, list, last) ==
    LET room == VACANT_CLUS_CACHE_SIZE - Len(t.vacant)
        kept == IF Len(list) < room THEN Len(list) ELSE room
        cleared == [c \in DOMAIN t.fat |->
                       IF c \in ToSet(list) THEN FREE ELSE t.fat[c]]
    IN  [fat    |-> SetNextClus(cleared, last, EOC),
         vacant |-> t.vacant \o SubSeq(list, 1, kept),
         hint   |-> t.hint]

Table == [fat |-> fat, vacant |-> vacant_clus, hint |-> hint]

(* dealloc_clus pops clusters from the end of the list. *)
DeallocNum(list, num) == IF num < Len(list) THEN num ELSE Len(list)
Kept(list, num) == SubSeq(list, 1, Len(list) - DeallocNum(list, num))
DeallocClus(t, list, num) ==
    LET kept == Kept(list, num)
    IN  Free(t, Reverse(SubSeq(list, Len(kept) + 1, Len(list))), LastOf(kept))

(* The page cache of a file. *)

(* The device sector of sector s of a file, if a cluster holds it. *)
HasBlock(list, s) == s \div SEC_PER_CLUS < Len(list)
BlockId(list, s) ==
    (list[s \div SEC_PER_CLUS + 1] - 2) * SEC_PER_CLUS + (s % SEC_PER_CLUS)

(* Sector j of page p is sector Sec(p, j) of the file. *)
Sec(p, j) == p * PAGE_BUFFERS + j - 1

(* PageCache::read_in: a page nothing is read into keeps its zeroed frame,  *)
(* whose dirty bit is set.                                                  *)
BlockData(list, s) == IF HasBlock(list, s) THEN device[BlockId(list, s)] ELSE 0
ReadIn(list, p) ==
    [data |-> [j \in 1 .. PAGE_BUFFERS |-> BlockData(list, Sec(p, j))],
     dirty |-> ~HasBlock(list, Sec(p, 1)),
     priority |-> 0]

(* get_cache for every page that sectors lo .. hi - 1 touch. *)
GetCache(list, cache, lo, hi) ==
    [p \in Pages |->
        IF lo \div PAGE_BUFFERS <= p /\ p <= (hi - 1) \div PAGE_BUFFERS
        THEN [(IF cache[p] = NoPage THEN ReadIn(list, p) ELSE cache[p])
                 EXCEPT !.priority = 1]
        ELSE cache[p]]

(* The loops of write_at_block_cache_lock and clear_at_block_cache_lock. *)
Modify(list, cache, lo, hi, v) ==
    LET got == GetCache(list, cache, lo, hi)
    IN  [p \in Pages |->
            IF lo \div PAGE_BUFFERS <= p /\ p <= (hi - 1) \div PAGE_BUFFERS
            THEN [got[p] EXCEPT
                    !.data = [j \in 1 .. PAGE_BUFFERS |->
                                 IF lo <= Sec(p, j) /\ Sec(p, j) < hi THEN v ELSE @[j]],
                    !.dirty = TRUE]
            ELSE got[p]]

NotifyNothing(cache, size) == cache

(* notify_new_size drops the pages behind the new end, unwritten. *)
NotifyNewSize(cache, size) ==
    [p \in Pages |-> IF p < CeilDiv(size, PAGE_BUFFERS) THEN cache[p] ELSE NoPage]

(* Inode operations *)

TotalClus(size) == CeilDiv(size, SEC_PER_CLUS)

(* An allocation of num clusters that takes the last vacant cluster and has *)
(* to go on in the table, or asks for more clusters than are free.          *)
Strained(num) ==
    \/ 0 < Len(vacant_clus) /\ Len(vacant_clus) < num
    \/ Cardinality(FreeClus(fat)) < num

(* What an allocation of num clusters that gave `list` did to the volume.   *)
(* Only for a strained one is a cluster in two places of the list put down  *)
(* to alloc_one.                                                            *)
Loss(list, num) ==
    IF lost = "twice" \/ (Strained(num) /\ ~IsInjective(list)) THEN "twice"
    ELSE IF Len(list) < num THEN "short"
    ELSE lost

SetTable(t) ==
    fat' = t.fat /\ vacant_clus' = t.vacant /\ hint' = t.hint

(* modify_size_lock for a larger size, and the loop that then writes v from *)
(* sector lo to the new end: whatever alloc gave, the size is set.          *)
Grow(f, size, lo, v) ==
    LET i == inode[f]
        num == TotalClus(size) - TotalClus(i.size)
        a == Alloc(Table, num, LastOf(i.clus_list))
        list == i.clus_list \o a.list
    IN  /\ SetTable(a)
        /\ lost' = Loss(a.list, num)
        /\ inode' = [inode EXCEPT ![f].size = size, ![f].clus_list = list,
                                  ![f].cache = Modify(list, @, lo, size, v)]

(* modify_size_lock for a smaller or equal size. *)
Shrink(f, size) ==
    LET i == inode[f]
        num == TotalClus(i.size) - TotalClus(size)
    IN  /\ SetTable(DeallocClus(Table, i.clus_list, num))
        /\ inode' = [inode EXCEPT ![f].size = size,
                                  ![f].clus_list = Kept(@, num),
                                  ![f].cache = NotifyNewSize(@, size)]
        /\ UNCHANGED lost

Linked(f) == inode[f].state = "linked"
Open(f) == inode[f].open

(* The volume as it is found at boot. *)
Found(list) ==
    IF list = <<>> THEN Absent
    ELSE [Absent EXCEPT !.state = "linked", !.clus_list = list,
                        !.size = Len(list) * SEC_PER_CLUS]

Chain(image, c) ==
    LET owner == {f \in File : c \in ToSet(image[f])}
    IN  IF c < 2 THEN EOC
        ELSE IF owner = {} THEN FREE
        ELSE LET list == image[CHOOSE f \in owner : TRUE]
                 i == CHOOSE i \in DOMAIN list : list[i] = c
             IN  IF i = Len(list) THEN EOC ELSE list[i + 1]

Init ==
    /\ \E image \in Images :
          /\ fat = [c \in 0 .. CLUSTERS - 1 |-> Chain(image, c)]
          /\ inode = [f \in File |-> Found(image[f])]
    /\ \E d \in Data : device = [s \in Sectors |-> d]
    /\ vacant_clus = <<>> /\ hint = 0 /\ lost = "no"

(* open with O_CREAT of a name that does not exist. *)
Create(f) ==
    /\ inode[f].state = "absent"
    /\ inode' = [inode EXCEPT ![f] = [Absent EXCEPT !.state = "linked", !.open = TRUE]]
    /\ UNCHANGED <<fat, vacant_clus, hint, device, lost>>

OpenFile(f) ==
    /\ Linked(f) /\ ~Open(f)
    /\ inode' = [inode EXCEPT ![f].open = TRUE]
    /\ UNCHANGED <<fat, vacant_clus, hint, device, lost>>

Write(f, off, n, v) ==
    /\ Open(f) /\ off + n <= Limit[f]
    /\ UNCHANGED device
    /\ IF off + n > inode[f].size
       THEN Grow(f, off + n, off, v)
       ELSE /\ inode' = [inode EXCEPT
                           ![f].cache = Modify(inode[f].clus_list, @, off, off + n, v)]
            /\ UNCHANGED <<fat, vacant_clus, hint, lost>>

Read(f, off, n) ==
    LET end == IF off + n < inode[f].size THEN off + n ELSE inode[f].size
    IN  /\ Open(f) /\ off < end
        /\ inode' = [inode EXCEPT
                       ![f].cache = GetCache(inode[f].clus_list, @, off, end)]
        /\ UNCHANGED <<fat, vacant_clus, hint, device, lost>>

(* truncate_size clears what it adds. *)
Truncate(f, size) ==
    /\ Open(f) /\ size <= Limit[f]
    /\ UNCHANGED device
    /\ IF size > inode[f].size
       THEN Grow(f, size, inode[f].size, 0)
       ELSE Shrink(f, size)

DropInodeLeaks(f) ==
    /\ inode' = [inode EXCEPT ![f] = Absent]
    /\ UNCHANGED <<fat, vacant_clus, hint, device, lost>>

(* The last reference to an Inode that was unlinked: its clusters are freed. *)
DropInode(f) ==
    /\ SetTable(DeallocClus(Table, inode[f].clus_list, Len(inode[f].clus_list)))
    /\ inode' = [inode EXCEPT ![f] = Absent]
    /\ UNCHANGED <<device, lost>>

Unlink(f) ==
    /\ Linked(f)
    /\ IF Open(f)
       THEN /\ inode' = [inode EXCEPT ![f].state = "deleted"]
            /\ UNCHANGED <<fat, vacant_clus, hint, device, lost>>
       ELSE DropInode(f)

Close(f) ==
    /\ Open(f)
    /\ IF Linked(f)
       THEN /\ inode' = [inode EXCEPT ![f].open = FALSE]
            /\ UNCHANGED <<fat, vacant_clus, hint, device, lost>>
       ELSE DropInode(f)

(* oom: the cached pages of files in the tree.  A round drops the pages of  *)
(* priority 0 and lowers the priority of the others; when the first round   *)
(* drops nothing, the second drops everything.                              *)
Cached == {fp \in File \X Pages : Linked(fp[1]) /\ inode[fp[1]].cache[fp[2]] # NoPage}
Idle == {fp \in Cached : inode[fp[1]].cache[fp[2]].priority = 0}
Victims == IF Idle # {} THEN Idle ELSE Cached

SyncNothing(victims) == {device}

(* PageCache::sync and write_back: a dirty page goes to the blocks it has.  *)
(* A cluster that was given twice is written from several pages, of which   *)
(* any may be the last.                                                     *)
Sync(victims) ==
    LET Sources(s) ==
            {x \in victims \X (1 .. PAGE_BUFFERS) :
                LET list == inode[x[1][1]].clus_list
                    q == Sec(x[1][2], x[2])
                IN  /\ inode[x[1][1]].cache[x[1][2]].dirty
                    /\ HasBlock(list, q) /\ BlockId(list, q) = s}
        Results(s) ==
            IF Sources(s) = {} THEN {device[s]}
            ELSE {inode[x[1][1]].cache[x[1][2]].data[x[2]] : x \in Sources(s)}
    IN  {d \in [Sectors -> Value] : \A s \in Sectors : d[s] \in Results(s)}

Oom ==
    /\ Cached # {}
    /\ device' \in Sync(Victims)
    /\ inode' = [f \in File |-> [inode[f] EXCEPT
                    !.cache = [p \in Pages |->
                        IF <<f, p>> \in Victims THEN NoPage
                        ELSE IF <<f, p>> \in Cached THEN [@[p] EXCEPT !.priority = 0]
                        ELSE @[p]]]]
    /\ UNCHANGED <<fat, vacant_clus, hint, lost>>

Next ==
    \/ \E f \in File : Create(f) \/ OpenFile(f) \/ Unlink(f) \/ Close(f)
    \/ \E f \in File, off \in 0 .. MaxSize - 1, n \in Lens :
          Read(f, off, n) \/ \E v \in Data : Write(f, off, n, v)
    \/ \E f \in File, size \in 0 .. MaxSize : Truncate(f, size)
    \/ Oom

Spec == Init /\ [][Next]_vars

(* Properties *)

TypeOK ==
    /\ fat \in [0 .. CLUSTERS - 1 -> {FREE, EOC} \cup Clusters]
    /\ vacant_clus \in Seq(Clusters) /\ hint \in 0 .. CLUSTERS - 1
    /\ device \in [Sectors -> Value]
    /\ lost \in {"no", "short", "twice"}
    /\ \A f \in File :
          /\ inode[f].state \in {"absent", "linked", "deleted"}
          /\ inode[f].open \in BOOLEAN /\ inode[f].size \in 0 .. MaxSize
          /\ inode[f].clus_list \in Seq(Clusters)
          /\ \A p \in Pages : inode[f].cache[p] # NoPage =>
                /\ inode[f].cache[p].data \in [1 .. PAGE_BUFFERS -> Value]
                /\ inode[f].cache[p].priority \in 0 .. 1

Owned(f) == ToSet(inode[f].clus_list)

(* The chain of entries from the first cluster of a file on is its cluster  *)
(* list, up to EOC, and no cluster is in two places.  alloc_one leaves the  *)
(* entry of the cluster it takes FREE until the next one is linked: an      *)
(* allocation that takes the last vacant cluster and then searches the      *)
(* table, even with clusters to spare, or that asks for more than is free,  *)
(* may find that cluster again and link it to itself.  That is the only way *)
(* to break a chain; neither an allocation that finds nothing, nor growing, *)
(* shrinking or dropping files in any order does.  The state has its types. *)
ChainsMatch ==
    /\ TypeOK
    /\ lost # "twice" =>
        \A f \in File :
            LET list == inode[f].clus_list
            IN  /\ IsInjective(list)
                /\ \A i \in DOMAIN list :
                      fat[list[i]] = IF i = Len(list) THEN EOC ELSE list[i + 1]
                /\ \A g \in File \ {f} : Owned(f) \cap Owned(g) = {}

(* Until such an allocation gives a cluster twice, a data cluster is free   *)
(* in the table exactly when no file has it: shrink, unlink and the drop of *)
(* an unlinked file leak no cluster, and free none that is in use; and the  *)
(* queue of vacant clusters, from which alloc_one takes without a look at   *)
(* the table, holds such clusters, each once.  After it a shrink of the     *)
(* file puts a cluster that is in use into the queue.  The queue keeps its  *)
(* bound throughout.                                                        *)
FreeAccounted ==
    /\ Len(vacant_clus) <= VACANT_CLUS_CACHE_SIZE
    /\ lost # "twice" =>
          /\ \A c \in Clusters : fat[c] = FREE <=> \A f \in File : c \notin Owned(f)
          /\ IsInjective(vacant_clus)
          /\ \A c \in ToSet(vacant_clus) : fat[c] = FREE

(* As long as no allocation fell short or gave a cluster twice, a file has  *)
(* the clusters its size needs, which modify_size_lock computes from the    *)
(* size and not from the list, and no page is cached that lies behind its   *)
(* end.                                                                     *)
SizeFits ==
    lost = "no" =>
        \A f \in File :
            /\ Len(inode[f].clus_list) = TotalClus(inode[f].size)
            /\ \A p \in Pages : inode[f].cache[p] # NoPage =>
                  p < CeilDiv(inode[f].size, PAGE_BUFFERS)

(* What a read of sector s of a file returns. *)
ReadBack(i, s) ==
    LET page == i.cache[s \div PAGE_BUFFERS]
    IN  IF page = NoPage THEN BlockData(i.clus_list, s)
        ELSE page.data[(s % PAGE_BUFFERS) + 1]

Store == INSTANCE FileStore WITH
    content <- [f \in File |-> [s \in 0 .. inode[f].size - 1 |-> ReadBack(inode[f], s)]],
    exists <- {f \in File : inode[f].state # "absent"},
    intact <- lost = "no"

(* As long as no allocation fell short or gave a cluster twice, the         *)
(* clusters, the page cache and its write-back implement plain files: a     *)
(* read returns what was last written, whatever was cached, evicted, freed  *)
(* or allocated in between.  Two sectors of a file with a cluster twice are *)
(* one sector of the device, and nothing is promised of its contents.       *)
StoresFiles == Store!Spec
=============================================================================
