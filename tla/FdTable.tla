------------------------------ MODULE FdTable -------------------------------
(***************************************************************************)
(* The file-descriptor table of a process (FdTable in kernel/src/fs/mod.rs) *)
(* and the system calls that change it.  recycled holds the freed fds in 8  *)
(* bits.  On a fork the model goes on with the table of the child.          *)
(***************************************************************************)
EXTENDS Queue

CONSTANTS
  File,                 \* what a descriptor may refer to
  None,
  U8,                   \* 2^8 in the code
  Stdio,                \* the descriptors the first process starts with
  DEFAULT_FD_LIMIT, SYSTEM_FD_LIMIT,
  Limits,               \* the limits prlimit is called with
  MaxFds, MaxRecycled   \* bounds of the model on the lengths of inner and recycled

ASSUME FdConstants ==
  /\ None \notin File
  /\ U8 \in Nat \ {0} /\ MaxFds \in Nat /\ MaxRecycled \in Nat
  /\ Stdio \in Seq(File) /\ Len(Stdio) <= DEFAULT_FD_LIMIT
  /\ DEFAULT_FD_LIMIT \in Nat /\ SYSTEM_FD_LIMIT \in Nat /\ Limits \subseteq Nat

VARIABLES
  inner, recycled, soft_limit, hard_limit,
  forked,               \* the table was made by a fork
  intact                \* history: no fd was pushed truncated, or handed out
                        \* and left in recycled

vars == <<inner, recycled, soft_limit, hard_limit, forked, intact>>
limits == <<soft_limit, hard_limit>>

Fd == 0 .. MaxFds
At(fd) == inner[fd + 1]
Valid(fd) == fd < Len(inner) /\ At(fd) # None
Current == Len(inner)

Init ==
  /\ inner = Stdio /\ recycled = <<>>
  /\ soft_limit = DEFAULT_FD_LIMIT /\ hard_limit = SYSTEM_FD_LIMIT
  /\ forked = FALSE /\ intact = TRUE

-----------------------------------------------------------------------------
\* insert: the fd freed last, or the next one; on a table s = <<inner, recycled>>.
CanInsert(s) == s[2] # <<>> \/ Len(s[1]) # soft_limit
Inserted(s, f) ==
  IF s[2] # <<>> THEN <<[s[1] EXCEPT ![Last(s[2]) + 1] = f], Front(s[2])>>
  ELSE <<Append(s[1], f), s[2]>>
Insert(f) ==
  /\ inner' = Inserted(<<inner, recycled>>, f)[1]
  /\ recycled' = Inserted(<<inner, recycled>>, f)[2]

\* sys_openat and sys_dup.
Open(f) ==
  /\ CanInsert(<<inner, recycled>>)
  /\ Insert(f) /\ Len(inner') <= MaxFds
  /\ UNCHANGED <<limits, forked, intact>>

Dup(fd) == Valid(fd) /\ Open(At(fd))

\* sys_pipe: the read end stays in the table when the second insert fails.
Pipe(r, w) ==
  LET one == Inserted(<<inner, recycled>>, r)
      two == IF CanInsert(one) THEN Inserted(one, w) ELSE one
  IN /\ CanInsert(<<inner, recycled>>)
     /\ inner' = two[1] /\ recycled' = two[2] /\ Len(inner') <= MaxFds
     /\ UNCHANGED <<limits, forked, intact>>

\* sys_close: remove.
Close(fd) ==
  /\ Valid(fd) /\ Len(recycled) < MaxRecycled
  /\ inner' = [inner EXCEPT ![fd + 1] = None]
  /\ recycled' = Append(recycled, fd % U8)
  /\ intact' = (intact /\ fd < U8)
  /\ UNCHANGED <<limits, forked>>

\* The table grown so that fd pos is its last, and the fds skipped on the way.
GrownTo(pos, f) ==
  [i \in 1 .. pos + 1 |-> IF i <= Current THEN inner[i] ELSE IF i = pos + 1 THEN f ELSE None]
\* Mutant: the first skipped fd is not recycled.
SkippedDownOne(pos) == [i \in 1 .. pos - Current - 1 |-> (pos - i) % U8]
SkippedDown(pos) == [i \in 1 .. pos - Current |-> (pos - i) % U8]
SkippedUp(pos) == [i \in 1 .. pos - Current |-> (Current + i - 1) % U8]
SkipIntact(pos) == intact' = (intact /\ (pos = Current \/ pos <= U8))

\* Mutant: the fd stays in recycled.
ReplaceOnly(pos, f) ==
  /\ pos < Current
  /\ inner' = [inner EXCEPT ![pos + 1] = f]
  /\ UNCHANGED <<recycled, intact>>
\* insert_at.
Replace(pos, f) ==
  /\ pos < Current
  /\ recycled' = IF At(pos) = None THEN Without(recycled, {pos}) ELSE recycled
  /\ inner' = [inner EXCEPT ![pos + 1] = f]
  /\ UNCHANGED intact
Extend(pos, f) ==
  /\ Current <= pos /\ pos < soft_limit
  /\ recycled' = recycled \o SkippedDown(pos)
  /\ inner' = GrownTo(pos, f)
  /\ SkipIntact(pos)

\* sys_dup3.
Dup3(old, new) ==
  /\ old # new /\ Valid(old) /\ new < MaxFds
  /\ Replace(new, At(old)) \/ Extend(new, At(old))
  /\ UNCHANGED <<limits, forked>>

\* try_insert_at, hint free.
TakeHint(hint, f) ==
  /\ hint < Current /\ At(hint) = None
  /\ recycled' = Without(recycled, {hint})
  /\ inner' = [inner EXCEPT ![hint + 1] = f]
  /\ UNCHANGED intact

\* try_insert_at, hint taken: the first recycled fd above it, which is left in
\* recycled; or the next one.
Above(hint) == {i \in 1 .. Len(recycled) : recycled[i] > hint}
FirstAbove(hint) == recycled[CHOOSE i \in Above(hint) : \A j \in Above(hint) : i <= j]
TakeRecycled(hint, f) ==
  /\ Valid(hint) /\ Above(hint) # {}
  /\ inner' = [inner EXCEPT ![FirstAbove(hint) + 1] = f]
  /\ intact' = FALSE
  /\ UNCHANGED recycled
TakeNext(hint, f) ==
  /\ Valid(hint) /\ Above(hint) = {} /\ Current # soft_limit /\ Current < MaxFds
  /\ inner' = Append(inner, f)
  /\ UNCHANGED <<recycled, intact>>

\* try_insert_at, hint beyond the table.
TakeBeyond(hint, f) ==
  /\ Current <= hint
  /\ recycled' = recycled \o SkippedUp(hint)
  /\ inner' = GrownTo(hint, f)
  /\ SkipIntact(hint)

\* sys_fcntl with F_DUPFD or F_DUPFD_CLOEXEC.
Dupfd(fd, hint) ==
  /\ Valid(fd) /\ hint < soft_limit /\ hint < MaxFds
  /\ \/ TakeHint(hint, At(fd)) \/ TakeRecycled(hint, At(fd))
     \/ TakeNext(hint, At(fd)) \/ TakeBeyond(hint, At(fd))
  /\ UNCHANGED <<limits, forked>>

\* set_soft_limit and set_hard_limit cut the table.
Cut(limit) == SubSeq(inner, 1, limit)
\* Mutant: the truncation leaves recycled alone.
RetainedAll(limit) == recycled
Retained(limit) == Without(recycled, {fd \in ToSet(recycled) : fd >= limit})
Prlimit(cur, max) ==
  LET limit == IF cur < max THEN cur ELSE max IN
  /\ soft_limit' = cur /\ hard_limit' = max
  /\ IF limit < Current
     THEN inner' = Cut(limit) /\ recycled' = Retained(limit)
     ELSE UNCHANGED <<inner, recycled>>
  /\ UNCHANGED <<forked, intact>>

\* fork copies the table, holes included, into a new one.
Fork ==
  /\ recycled' = <<>>
  /\ soft_limit' = DEFAULT_FD_LIMIT /\ hard_limit' = SYSTEM_FD_LIMIT
  /\ forked' = TRUE /\ intact' = TRUE
  /\ UNCHANGED inner

Next ==
  \/ \E f \in File : Open(f)
  \/ \E fd \in Fd : Dup(fd) \/ Close(fd)
  \/ \E r, w \in File : Pipe(r, w)
  \/ \E old, new \in Fd : Dup3(old, new)
  \/ \E fd, hint \in Fd : Dupfd(fd, hint)
  \/ \E cur, max \in Limits : Prlimit(cur, max)
  \/ Fork

Spec == Init /\ [][Next]_vars

-----------------------------------------------------------------------------
\* The variables have their types.
TypeOK ==
  /\ inner \in Seq(File \cup {None}) /\ recycled \in Seq(Nat)
  /\ soft_limit \in Nat /\ hard_limit \in Nat
  /\ forked \in BOOLEAN /\ intact \in BOOLEAN

\* insert indexes the table with a recycled fd (fs/mod.rs:359) and never
\* leaves it, even after prlimit cut the table or fds were truncated to 8 bits.
RecycledInBounds == \A fd \in ToSet(recycled) : fd < Current

\* As long as F_DUPFD took no recycled fd (fs/mod.rs:416-420) and no fd was
\* truncated, recycled lists free slots, each once: insert replaces nothing.
RecycledAreFree ==
  intact => NoDup(recycled) /\ \A fd \in ToSet(recycled) : At(fd) = None

\* ... and, in a table that no fork made, all of them: no slot is lost.
NoSlotLost ==
  intact /\ ~forked => \A fd \in 0 .. Current - 1 : At(fd) = None => fd \in ToSet(recycled)

\* A table grows past its soft limit only if a fork made it longer than the
\* default limit (insert tests for equality, fs/mod.rs:364).
LimitRespected == ~forked => Current <= soft_limit

\* The fd that F_DUPFD takes when hint is taken is free, and the lowest free
\* one above hint (try_insert_at, fs/mod.rs:403).
DupfdIsLowest ==
  \A hint \in Fd : Valid(hint) /\ hint < soft_limit /\ Above(hint) # {} =>
    /\ At(FirstAbove(hint)) = None
    /\ \A fd \in hint .. FirstAbove(hint) - 1 : At(fd) # None
=============================================================================
