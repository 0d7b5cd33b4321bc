---------------------------- MODULE MCMemorySet -----------------------------
(***************************************************************************)
(* A small instance of MemorySet.  No step and no invariant tells frames   *)
(* apart but by the tracker that owns them, and none looks at the frame    *)
(* behind an entry that munmap or exit left.  So View keeps which trackers *)
(* there are and which of them every page table entry and trap_cx_ppn      *)
(* agrees with; the balance of the allocator keeps apart any state in      *)
(* which a frame had two owners or none.  A halted kernel changes nothing. *)
(***************************************************************************)
EXTENDS MemorySet

MCSlotOrder ==
  LET P == MAX_VPN + 1
      kind(i) == <<"area", "heap", "mmap">>[((i - 1) \div P) + 1]
  IN  <<Root, Bare>> \o [i \in 1 .. Cardinality(Tables(Vpn)) |-> <<"table", (i - 1) * PTES>>]
        \o [i \in 1 .. 3 * P |-> <<kind(i), (i - 1) % P>>]
        \o [i \in 1 .. Cardinality(Kid) |-> <<"kstack", i - 1>>]

Balance(trackers) ==
  LET frames == {mem.own[x[1]][x[2]] : x \in trackers} \cup ToSet(mem.recycled)
  IN  <<Cardinality(frames), Cardinality(trackers) + Len(mem.recycled), mem.current>>
Place(p, v) ==
  {kind \in {"area", "heap", "mmap"} : mem.own[p][<<kind, v>>] = mem.pte[p][v]}
View ==
  LET trackers == Trackers
      b == Balance(trackers)
  IN
  IF halt # "no" THEN <<halt>> ELSE
  <<trackers, b[1] - b[2], b[2] - b[3],
    [p \in Proc |-> [v \in {u \in Vpn : mem.pte[p][u] # None} |->
       IF v \in unmapped[p] \/ state[p] = "zombie" THEN {} ELSE Place(p, v)]],
    {x \in Proc \X Tid : x[2] \in threads[x[1]] /\ trap_cx[x[1]][x[2]] = TrapFrame(mem, x[1], x[2])},
    bounds, state, threads, tasks, tasks_len>>
=============================================================================
