-------------------------------- MODULE Pipe --------------------------------
(***************************************************************************)
(* One pipe (kernel/src/fs/dev/pipe.rs) and the threads that read, write,  *)
(* inherit and close its ends (read, readv, write, writev, close and fork  *)
(* in kernel/src/syscall) or wait for them (ppoll and pselect).            *)
(*                                                                         *)
(* A thread keeps the hart until its loop finds the ring empty or full and *)
(* suspends, so one action is one run of the loop up to that point.  A     *)
(* call in progress owns a clone of its file descriptor: it keeps the end  *)
(* open even when another thread of the process closes it meanwhile.       *)
(* readv and writev keep the PCB of their process borrowed while they      *)
(* sleep; a second borrow of it is a panic, which stops the kernel.        *)
(***************************************************************************)
EXTENDS Integers, Sequences

CONSTANTS
  Thread, Process, ProcessOf,   \* threads, processes, [Thread -> Process]
  Creator,                      \* the process that called pipe
  Byte,
  RING_BUFFER_SIZE,
  ReadVecs, WriteVecs,          \* the entries calls are made with: lengths, bytes
  Waits,                        \* what is waited for: <<"poll" or "select", ends>>
  None

ASSUME PipeConstants ==
  /\ ProcessOf \in [Thread -> Process] /\ Creator \in Process
  /\ RING_BUFFER_SIZE \in Nat \ {0}
  /\ 0 \in Byte
  /\ ReadVecs \subseteq Seq(Nat) /\ WriteVecs \subseteq Seq(Seq(Byte))
  /\ Waits \subseteq {"poll", "select"} \X SUBSET {"read", "write"}
  /\ None \notin Process

VARIABLES
  arr, head, tail, status,      \* PipeRingBuffer
  held,                         \* per process, the ends its fd table refers to
  parent,                       \* per process, who forked it
  call,                         \* per thread, the call it is suspended in
  dead,                         \* the threads whose process exited
  got,                          \* the bytes the last step copied to a user buffer
  halt                          \* the kernel panicked

ring == <<arr, head, tail, status>>
vars == <<ring, held, parent, call, dead, got, halt>>

Ends == {"read", "write"}
Idle == [op |-> "none"]

Init ==
  /\ arr = [i \in 0 .. RING_BUFFER_SIZE - 1 |-> 0]
  /\ head = 0 /\ tail = 0 /\ status = "Empty"
  /\ held = [p \in Process |-> IF p = Creator THEN Ends ELSE {}]
  /\ parent = [p \in Process |-> None]
  /\ call = [t \in Thread |-> Idle]
  /\ dead = {} /\ got = <<>> /\ halt = FALSE

-----------------------------------------------------------------------------
(* The ring buffer, as a record so that loops over its operations compose.  *)

Wrap(i) == i % RING_BUFFER_SIZE
Rec == [arr |-> arr, head |-> head, tail |-> tail, status |-> status]

\* Mutant: full when the next write would fill it.
WriteByteEarlyFull(r, b) ==
  LET end == Wrap(r.tail + 1) IN
  [r EXCEPT !.arr[r.tail] = b, !.tail = end,
            !.status = IF Wrap(end + 1) = r.head THEN "Full" ELSE "Normal"]

\* Mutant: tail advances before the byte is stored.
WriteByteLate(r, b) ==
  LET end == Wrap(r.tail + 1) IN
  [r EXCEPT !.arr[end] = b, !.tail = end,
            !.status = IF end = r.head THEN "Full" ELSE "Normal"]

WriteByte(r, b) ==
  LET end == Wrap(r.tail + 1) IN
  [r EXCEPT !.arr[r.tail] = b, !.tail = end,
            !.status = IF end = r.head THEN "Full" ELSE "Normal"]

ReadByte(r) ==
  LET begin == Wrap(r.head + 1) IN
  [r EXCEPT !.head = begin,
            !.status = IF begin = r.tail THEN "Empty" ELSE "Normal"]

AvailableRead(r) ==
  IF r.status = "Empty" THEN 0
  ELSE IF r.tail > r.head THEN r.tail - r.head
  ELSE r.tail + RING_BUFFER_SIZE - r.head

AvailableWrite(r) == IF r.status = "Full" THEN 0 ELSE RING_BUFFER_SIZE - AvailableRead(r)

\* The ring after the bytes of d were written, and after n bytes were read.
WriteBytes(r, d) ==
  LET after[i \in 0 .. Len(d)] == IF i = 0 THEN r ELSE WriteByte(after[i - 1], d[i])
  IN after[Len(d)]
ReadBytes(r, n) ==
  LET after[i \in 0 .. n] == IF i = 0 THEN r ELSE ReadByte(after[i - 1])
  IN after[n]
BytesRead(r, n) == [i \in 1 .. n |-> r.arr[Wrap(r.head + i - 1)]]

RingBecomes(new) ==
  \E r \in {new} : arr' = r.arr /\ head' = r.head /\ tail' = r.tail /\ status' = r.status

-----------------------------------------------------------------------------
(* References: an end is open while some Arc to it is left.                 *)

Open(e) == (\E p \in Process : e \in held[p]) \/ (\E t \in Thread : call[t].op = e)
\* Mutant: calls in progress do not keep their end open.
TablesOnly == ~\E p \in Process : "write" \in held[p]
AllWriteEndsClosed == ~Open("write")

\* A suspended readv or writev keeps the PCB of its process borrowed, and so
\* does one whose thread was removed: its stack is freed, not unwound.
Borrows(u) == call[u].op # "none" /\ call[u].vec
Borrowed(p) == \E u \in Thread : ProcessOf[u] = p /\ Borrows(u)
BorrowedFrom(t) == \E u \in Thread \ {t} : ProcessOf[u] = ProcessOf[t] /\ Borrows(u)

\* The processes whose PCB an exit or a wait4 of p borrows besides its own.
Family(p) == {q \in Process : q = parent[p] \/ parent[q] = p}

Started(p) == p = Creator \/ parent[p] # None
InUser(t) == ~halt /\ t \notin dead /\ Started(ProcessOf[t]) /\ call[t] = Idle
\* A system call of t gets past its first borrow of the PCB.
Enter(t) == InUser(t) /\ ~Borrowed(ProcessOf[t])
\* Returning to user mode borrows the PCB again (trap_handler, trap_return).
Leave(t) == call' = [call EXCEPT ![t] = Idle] /\ halt' = BorrowedFrom(t)
Sleep(t, c) == call' = [call EXCEPT ![t] = c] /\ UNCHANGED halt

\* The bytes asked for by the first i entries, and the bytes given by them.
Sum(lens, i) ==
  LET sum[j \in 0 .. i] == IF j = 0 THEN 0 ELSE sum[j - 1] + lens[j] IN sum[i]
Joined(data, i) ==
  LET join[j \in 0 .. i] == IF j = 0 THEN <<>> ELSE join[j - 1] \o data[j] IN join[i]
All(data) == Joined(data, Len(data))
Least(S) == CHOOSE i \in S : \A j \in S : i <= j
Drop(s, n) == SubSeq(s, n + 1, Len(s))

-----------------------------------------------------------------------------
\* How many bytes and how many entries of lens one run of the loop can serve:
\* up to the first that finds the ring empty while a write end is open.
Taken(lens) ==
  LET sum == Sum(lens, Len(lens)) IN IF sum < AvailableRead(Rec) THEN sum ELSE AvailableRead(Rec)
\* Mutant: the loop waits for bytes without looking at the write end.
ServedWaits(lens) ==
  Least({i \in 0 .. Len(lens) : i = Len(lens) \/ Sum(lens, i) >= AvailableRead(Rec)})
Served(lens) ==
  Least({i \in 0 .. Len(lens) :
    i = Len(lens) \/ (Sum(lens, i) >= AvailableRead(Rec) /\ ~AllWriteEndsClosed)})

\* read_user for each of the entries left (their lengths).
ReadRun(t, lens, vec) ==
  /\ \E n \in {Taken(lens)} : RingBecomes(ReadBytes(Rec, n)) /\ got' = BytesRead(Rec, n)
  /\ \E k \in {Served(lens)} :
       IF k = Len(lens) THEN Leave(t)
       ELSE Sleep(t, [op |-> "read", rest |-> Drop(lens, k), vec |-> vec])
  /\ UNCHANGED <<held, parent, dead>>

\* How many bytes and how many entries of data one run of the loop can store:
\* up to the first that finds the ring full before it is done.
Given(data, i) == Len(Joined(data, i))
Stored(data) ==
  LET all == Given(data, Len(data)) IN IF all < AvailableWrite(Rec) THEN all ELSE AvailableWrite(Rec)
Finished(data) ==
  Least({i \in 0 .. Len(data) :
    \/ i = Len(data)
    \/ Given(data, i) >= AvailableWrite(Rec) \/ Given(data, i + 1) > AvailableWrite(Rec)})
\* The entries left after n bytes and k entries, with what is left of the first.
Left(data, n, k) == [Drop(data, k) EXCEPT ![1] = Drop(@, n - Given(data, k))]

\* write_user for each of the entries left (their bytes).
WriteRun(t, data, vec) ==
  /\ \E n \in {Stored(data)}, k \in {Finished(data)} :
       /\ RingBecomes(WriteBytes(Rec, SubSeq(All(data), 1, n)))
       /\ IF k = Len(data) THEN Leave(t)
          ELSE Sleep(t, [op |-> "write", rest |-> Left(data, n, k), vec |-> vec])
  /\ got' = <<>>
  /\ UNCHANGED <<held, parent, dead>>

-----------------------------------------------------------------------------
Read(t, lens) ==
  Len(lens) = 1 /\ Enter(t) /\ "read" \in held[ProcessOf[t]] /\ ReadRun(t, lens, FALSE)
Readv(t, lens) ==
  Len(lens) > 1 /\ Enter(t) /\ "read" \in held[ProcessOf[t]] /\ ReadRun(t, lens, TRUE)
Write(t, data) ==
  Len(data) = 1 /\ Enter(t) /\ "write" \in held[ProcessOf[t]] /\ WriteRun(t, data, FALSE)
Writev(t, data) ==
  Len(data) > 1 /\ Enter(t) /\ "write" \in held[ProcessOf[t]] /\ WriteRun(t, data, TRUE)

\* The scheduler gives a suspended thread another turn of its loop.
Resumable(t, e) == ~halt /\ t \notin dead /\ call[t].op = e
ReadTurn(t) == Resumable(t, "read") /\ ReadRun(t, call[t].rest, call[t].vec)
WriteTurn(t) == Resumable(t, "write") /\ WriteRun(t, call[t].rest, call[t].vec)

-----------------------------------------------------------------------------
(* Waiting for an end, by descriptor: no reference to it is kept meanwhile.  *)

\* Mutant: a hang-up is no event.
NeverHangsUp(e) == FALSE
HangUp(e) == IF e = "read" THEN AllWriteEndsClosed ELSE ~Open("read")
Ready(e) == IF e = "read" THEN status # "Empty" ELSE status # "Full"

\* ppoll looks at hang_up too, pselect only at r_ready and w_ready.
Event(op, e) == Ready(e) \/ (op = "poll" /\ HangUp(e))
Reported(t, op, ends) == \E e \in ends \cap held[ProcessOf[t]] : Event(op, e)

\* One pass over the descriptors, with the PCB borrowed until the suspend.
WaitRun(t, op, ends) ==
  /\ IF Reported(t, op, ends) THEN Leave(t)
     ELSE Sleep(t, [op |-> op, ends |-> ends, vec |-> FALSE])
  /\ got' = <<>>
  /\ UNCHANGED <<ring, held, parent, dead>>

Wait(t, w) == Enter(t) /\ w[2] \subseteq held[ProcessOf[t]] /\ WaitRun(t, w[1], w[2])

Waiting(t) == ~halt /\ t \notin dead /\ call[t].op \in {"poll", "select"}
WaitTurn(t) ==
  Waiting(t) /\ ~BorrowedFrom(t) /\ WaitRun(t, call[t].op, call[t].ends)

\* The time of a pselect is over, and the pass over its ends found nothing.
WaitTimeout(t) ==
  /\ Waiting(t) /\ ~BorrowedFrom(t) /\ call[t].op = "select"
  /\ ~Reported(t, "select", call[t].ends)
  /\ Leave(t) /\ got' = <<>>
  /\ UNCHANGED <<ring, held, parent, dead>>

-----------------------------------------------------------------------------
\* sys_close of the last descriptor the process has for the end.
Close(t, e) ==
  /\ Enter(t) /\ e \in held[ProcessOf[t]]
  /\ held' = [held EXCEPT ![ProcessOf[t]] = @ \ {e}]
  /\ got' = <<>>
  /\ UNCHANGED <<ring, parent, call, dead, halt>>

\* fork: the child's table refers to the same ends.
Fork(t, p) ==
  /\ Enter(t) /\ ~Started(p)
  /\ held' = [held EXCEPT ![p] = held[ProcessOf[t]]]
  /\ parent' = [parent EXCEPT ![p] = ProcessOf[t]]
  /\ got' = <<>>
  /\ UNCHANGED <<ring, call, dead, halt>>

\* exit of the main thread: the table is emptied and the other threads are
\* removed, whatever their calls still refer to.
Exit(t) ==
  /\ Enter(t) /\ ~\E q \in Family(ProcessOf[t]) : Borrowed(q)
  /\ held' = [held EXCEPT ![ProcessOf[t]] = {}]
  /\ dead' = dead \cup {u \in Thread : ProcessOf[u] = ProcessOf[t]}
  /\ got' = <<>>
  /\ UNCHANGED <<ring, parent, call, halt>>

\* Any trap of a thread whose PCB is borrowed, an exit or a wait4 that meets a
\* borrowed PCB of its family, a pass of ppoll or pselect over the table of a
\* borrowed PCB: already borrowed, panic.
DoubleBorrow(t) ==
  /\ \/ InUser(t) /\ \E q \in Family(ProcessOf[t]) \cup {ProcessOf[t]} : Borrowed(q)
     \/ Waiting(t) /\ BorrowedFrom(t)
  /\ halt' = TRUE /\ got' = <<>>
  /\ UNCHANGED <<ring, held, parent, call, dead>>

Step(t) ==
  \/ \E lens \in ReadVecs : Read(t, lens) \/ Readv(t, lens)
  \/ \E data \in WriteVecs : Write(t, data) \/ Writev(t, data)
  \/ ReadTurn(t) \/ WriteTurn(t) \/ WaitTurn(t)
  \/ \E w \in Waits : Wait(t, w)
  \/ WaitTimeout(t)
  \/ \E e \in Ends : Close(t, e)
  \/ \E p \in Process : Fork(t, p)
  \/ Exit(t) \/ DoubleBorrow(t)

Next == \E t \in Thread : Step(t)

\* A suspended thread is in the ready queue and gets further turns.
Fairness == \A t \in Thread : WF_vars(ReadTurn(t) \/ WaitTurn(t))
Spec == Init /\ [][Next]_vars /\ Fairness

-----------------------------------------------------------------------------
\* A suspended call, which has something left to do.
Suspended ==
       [op : {"read"}, rest : Seq(Nat) \ {<<>>}, vec : BOOLEAN]
  \cup [op : {"write"}, rest : Seq(Seq(Byte)) \ {<<>>}, vec : BOOLEAN]
  \cup [op : {"poll", "select"}, ends : SUBSET Ends, vec : {FALSE}]

\* The variables have their types.
TypeOK ==
  /\ arr \in [0 .. RING_BUFFER_SIZE - 1 -> Byte]
  /\ head \in 0 .. RING_BUFFER_SIZE - 1 /\ tail \in 0 .. RING_BUFFER_SIZE - 1
  /\ status \in {"Empty", "Normal", "Full"}
  /\ held \in [Process -> SUBSET Ends]
  /\ parent \in [Process -> Process \cup {None}]
  /\ DOMAIN call = Thread /\ \A t \in Thread : call[t] = Idle \/ call[t] \in Suspended
  /\ dead \subseteq Thread /\ got \in Seq(Byte) /\ halt \in BOOLEAN

\* head = tail is ambiguous, status tells which: in a state of the right types
\* it agrees with the indices (write_byte and read_byte, pipe.rs:74-90).
StatusAgrees == TypeOK /\ (status = "Normal" <=> head # tail)

\* The bytes in the ring, oldest first.
Contents == [i \in 1 .. AvailableRead(Rec) |-> arr[Wrap(head + i - 1)]]
Pending == [t \in Thread |-> IF call[t].op = "write" THEN All(call[t].rest) ELSE <<>>]

\* Whoever reads and writes, suspended half way or not, the ring is a bounded
\* queue: bytes are delivered once, in the order written, none is lost
\* (read_user, write_user).
Fifo == INSTANCE PipeFifo WITH Capacity <- RING_BUFFER_SIZE, queue <- Contents,
          pending <- Pending, Data <- {All(v) : v \in WriteVecs}
RingIsFifo == Fifo!Spec

\* Once a reader could see the end of file (nothing in the ring and no write
\* end open, pipe.rs:141-144) no later step brings another byte.
EndOfFile == AvailableRead(Rec) = 0 /\ AllWriteEndsClosed
EofIsFinal == [][EndOfFile => EndOfFile']_vars

\* A suspended read returns once the last write end is closed, also when the
\* writer was half way through a write (pipe.rs:141-149).
ReaderSeesClose == \A t \in Thread :
  (call[t].op = "read" /\ AllWriteEndsClosed) ~> (call[t].op # "read" \/ t \in dead \/ halt)

\* A ppoll on the read end returns once the last write end is closed, by
\* whomever, as long as its descriptor stays open (ppoll.rs:98, pipe.rs:339).
PollerSeesClose == \A t \in Thread :
  (/\ call[t].op = "poll" /\ "read" \in call[t].ends
   /\ AllWriteEndsClosed)
  ~> (call[t].op # "poll" \/ "read" \notin held[ProcessOf[t]] \/ t \in dead \/ halt)

\* doc/debug.md:281: the borrow of the process is released before a call that
\* may yield, so nobody borrows a PCB twice.
NoDoubleBorrow == ~halt
=============================================================================
