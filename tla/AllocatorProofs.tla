-------------------------- MODULE AllocatorProofs ---------------------------
(* Proofs about the two allocators of small numbers, the table of file      *)
(* descriptors and the ids.  The invariants of FdTable hold whatever the    *)
(* limits, the width of a recycled fd and the number of files: each         *)
(* operation is a lemma about the pair of a table n and its list r of       *)
(* recycled fds.  Those of RecycleAllocator hold for any number of ids.     *)
EXTENDS FdTable, RecycleAllocator, SeqLemmas

\* Most leaves are first-order: Zenon has a short try before the SMT solver.
USE ZenonT(6), SMTT(20), ZenonT(40)

Slot == File \cup {None}
Bounded(n, r) == \A fd \in ToSet(r) : fd < Len(n)
ListsFree(n, r) == NoDup(r) /\ \A fd \in ToSet(r) : n[fd + 1] = None
ListsAll(n, r) == \A fd \in 0 .. Len(n) - 1 : n[fd + 1] = None => fd \in ToSet(r)

\* a: recycled lists free slots only; b: it lists all of them.
TableOK(n, r, a, b) ==
  /\ n \in Seq(Slot) /\ r \in Seq(Nat) /\ Bounded(n, r)
  /\ a => ListsFree(n, r)
  /\ b => ListsAll(n, r)

\* Truncation to 8 bits.
LEMMA Truncation ==
  ASSUME NEW x \in Nat
  PROVE  x % U8 \in Nat /\ x % U8 <= x /\ (x < U8 => x % U8 = x)
<1>0. U8 \in Nat \ {0}
  BY FdConstants
<1>1. x % U8 \in 0 .. U8 - 1
  BY <1>0, Z3
<1>2. x % U8 <= x
  BY <1>0, Z3
<1>3. x < U8 => x % U8 = x
  BY <1>0, Z3
<1> QED BY <1>0, <1>1, <1>2, <1>3

\* An assignment to a slot.
LEMMA AssignFacts ==
  ASSUME NEW n \in Seq(Slot), NEW k \in Nat, NEW x \in Slot
  PROVE  LET m == [n EXCEPT ![k + 1] = x]
         IN  /\ m \in Seq(Slot) /\ Len(m) = Len(n)
             /\ \A fd \in 0 .. Len(n) - 1 : m[fd + 1] = IF fd = k THEN x ELSE n[fd + 1]
<1> DEFINE m == [n EXCEPT ![k + 1] = x]
<1>1. Len(n) \in Nat /\ n \in [1 .. Len(n) -> Slot]
  OBVIOUS
<1>2. m \in [1 .. Len(n) -> Slot]
  BY <1>1
<1>3. m \in Seq(Slot) /\ Len(m) = Len(n)
  BY <1>1, <1>2
<1>4. ASSUME NEW fd \in 0 .. Len(n) - 1
      PROVE  m[fd + 1] = IF fd = k THEN x ELSE n[fd + 1]
  BY <1>1
<1> QED BY <1>3, <1>4

\* The elements of recycled are naturals.
LEMMA RecycledNat == ASSUME NEW r \in Seq(Nat), NEW fd \in ToSet(r) PROVE fd \in Nat
BY ToSetSubset

\* Recycled fds are in the table.
LEMMA InTable ==
  ASSUME NEW n, NEW r, NEW a, NEW b, TableOK(n, r, a, b), NEW fd \in ToSet(r)
  PROVE  fd \in Nat /\ Len(n) \in Nat /\ fd \in 0 .. Len(n) - 1
<1>1. fd \in Nat
  BY RecycledNat DEF TableOK
<1>2. Len(n) \in Nat
  BY DEF TableOK
<1>3. fd < Len(n)
  BY DEF TableOK, Bounded
<1> QED BY <1>1, <1>2, <1>3

\* insert with a recycled fd.
LEMMA PopOK ==
  ASSUME NEW n, NEW r, NEW a, NEW b, TableOK(n, r, a, b), r # <<>>, b => a, NEW f \in File
  PROVE  TableOK([n EXCEPT ![Last(r) + 1] = f], Front(r), a, b)
<1> DEFINE k == Last(r)
           m == [n EXCEPT ![k + 1] = f]
           q == Front(r)
<1>0. n \in Seq(Slot) /\ r \in Seq(Nat) /\ f \in Slot /\ f # None
  BY FdConstants DEF TableOK, Slot
<1>1. /\ q \in Seq(Nat) /\ k \in Nat /\ ToSet(r) = ToSet(q) \cup {k}
      /\ NoDup(r) => NoDup(q) /\ k \notin ToSet(q)
  BY <1>0, FrontFacts
<1>2. /\ m \in Seq(Slot) /\ Len(m) = Len(n)
      /\ \A fd \in 0 .. Len(n) - 1 : m[fd + 1] = IF fd = k THEN f ELSE n[fd + 1]
  BY <1>0, <1>1, AssignFacts
<1>3. \A fd \in ToSet(r) : fd \in 0 .. Len(n) - 1
  BY InTable
<1> HIDE DEF k, m, q
<1>4. Bounded(m, q)
  <2>1. \A fd \in ToSet(q) : fd \in ToSet(r)
    BY <1>1
  <2> QED BY <1>2, <2>1 DEF TableOK, Bounded
<1>5. ASSUME a PROVE ListsFree(m, q)
  BY <1>1, <1>2, <1>3, <1>5 DEF TableOK, ListsFree
<1>6. ASSUME b PROVE ListsAll(m, q)
  BY <1>0, <1>1, <1>2, <1>6 DEF TableOK, ListsFree, ListsAll
<1>7. TableOK(m, q, a, b)
  BY <1>1, <1>2, <1>4, <1>5, <1>6 DEF TableOK
<1> QED BY <1>7 DEF m, q, k

\* insert at the end.
LEMMA PushOK ==
  ASSUME NEW n, NEW r, NEW a, NEW b, TableOK(n, r, a, b), NEW f \in File
  PROVE  TableOK(Append(n, f), r, a, b)
<1> DEFINE m == Append(n, f)
<1>0. n \in Seq(Slot) /\ r \in Seq(Nat) /\ f \in Slot /\ f # None
  BY FdConstants DEF TableOK, Slot
<1>1. /\ m \in Seq(Slot) /\ Len(m) = Len(n) + 1 /\ Len(n) \in Nat
      /\ \A fd \in 0 .. Len(n) - 1 : m[fd + 1] = n[fd + 1]
      /\ m[Len(n) + 1] = f
  BY <1>0
<1>3. \A fd \in ToSet(r) : fd \in 0 .. Len(n) - 1
  BY InTable
<1> HIDE DEF m
<1>4. Bounded(m, r)
  <2> SUFFICES ASSUME NEW fd \in ToSet(r) PROVE fd < Len(m)
    BY DEF Bounded
  <2> QED BY <1>1, InTable
<1>5. ASSUME a PROVE ListsFree(m, r)
  BY <1>1, <1>3, <1>5 DEF TableOK, ListsFree
<1>6. ASSUME b PROVE ListsAll(m, r)
  <2> SUFFICES ASSUME NEW fd \in 0 .. Len(m) - 1, m[fd + 1] = None PROVE fd \in ToSet(r)
    BY DEF ListsAll
  <2>1. fd \in 0 .. Len(n) - 1
    BY <1>0, <1>1
  <2> QED BY <1>1, <1>6, <2>1 DEF TableOK, ListsAll
<1> QED BY <1>0, <1>1, <1>4, <1>5, <1>6 DEF TableOK, m

\* remove: fd is recycled under x, its truncation.
LEMMA RemoveOK ==
  ASSUME NEW n, NEW r, NEW a, NEW b, TableOK(n, r, a, b),
         NEW fd \in Nat, fd < Len(n), n[fd + 1] # None, NEW x \in Nat, x <= fd
  PROVE  TableOK([n EXCEPT ![fd + 1] = None], Append(r, x), a /\ x = fd, b /\ x = fd)
<1> DEFINE m == [n EXCEPT ![fd + 1] = None]
           q == Append(r, x)
<1>0. n \in Seq(Slot) /\ r \in Seq(Nat) /\ None \in Slot /\ Len(n) \in Nat
  BY DEF TableOK, Slot
<1>1. /\ m \in Seq(Slot) /\ Len(m) = Len(n)
      /\ \A g \in 0 .. Len(n) - 1 : m[g + 1] = IF g = fd THEN None ELSE n[g + 1]
  BY <1>0, AssignFacts
<1>2. /\ q \in Seq(Nat) /\ ToSet(q) = ToSet(r) \cup {x}
      /\ NoDup(r) /\ x \notin ToSet(r) => NoDup(q)
  BY <1>0, AppendFacts
<1>3. \A g \in ToSet(r) : g \in 0 .. Len(n) - 1
  BY InTable
<1>4. x < Len(n)
  BY <1>0
<1> HIDE DEF m, q
<1>5. Bounded(m, q)
  BY <1>1, <1>2, <1>4 DEF TableOK, Bounded
<1>6. ASSUME a, x = fd PROVE ListsFree(m, q)
  <2>1. x \notin ToSet(r)
    BY <1>6 DEF TableOK, ListsFree
  <2>2. NoDup(q)
    BY <1>2, <1>6, <2>1 DEF TableOK, ListsFree
  <2>3. ASSUME NEW g \in ToSet(q) PROVE m[g + 1] = None
    <3>1. CASE g = fd
      BY <1>0, <1>1, <3>1
    <3>2. CASE g # fd
      BY <1>1, <1>2, <1>3, <1>6, <2>3, <3>2 DEF TableOK, ListsFree
    <3> QED BY <3>1, <3>2
  <2> QED BY <2>2, <2>3 DEF ListsFree
<1>7. ASSUME b, x = fd PROVE ListsAll(m, q)
  BY <1>1, <1>2, <1>7 DEF TableOK, ListsAll
<1>8. TableOK(m, q, a /\ x = fd, b /\ x = fd)
  BY <1>1, <1>2, <1>5, <1>6, <1>7 DEF TableOK
<1> QED BY <1>8 DEF m, q

\* A free slot is filled and its fd taken out of recycled.
LEMMA FillOK ==
  ASSUME NEW n, NEW r, NEW a, NEW b, TableOK(n, r, a, b), NEW k \in Nat, NEW f \in File
  PROVE  TableOK([n EXCEPT ![k + 1] = f], Without(r, {k}), a, b)
<1> DEFINE m == [n EXCEPT ![k + 1] = f]
           q == Without(r, {k})
<1>0. n \in Seq(Slot) /\ r \in Seq(Nat) /\ f \in Slot /\ f # None
  BY FdConstants DEF TableOK, Slot
<1>1. /\ m \in Seq(Slot) /\ Len(m) = Len(n)
      /\ \A g \in 0 .. Len(n) - 1 : m[g + 1] = IF g = k THEN f ELSE n[g + 1]
  BY <1>0, AssignFacts
<1>2. q \in Seq(Nat) /\ ToSet(q) = ToSet(r) \ {k} /\ (NoDup(r) => NoDup(q))
  BY <1>0, WithoutFacts
<1>3. \A g \in ToSet(r) : g \in 0 .. Len(n) - 1
  BY InTable
<1> HIDE DEF m, q
<1>5. Bounded(m, q)
  BY <1>1, <1>2 DEF TableOK, Bounded
<1>6. ASSUME a PROVE ListsFree(m, q)
  BY <1>1, <1>2, <1>3, <1>6 DEF TableOK, ListsFree
<1>7. ASSUME b PROVE ListsAll(m, q)
  BY <1>0, <1>1, <1>2, <1>7 DEF TableOK, ListsAll
<1>8. TableOK(m, q, a, b)
  BY <1>1, <1>2, <1>5, <1>6, <1>7 DEF TableOK
<1> QED BY <1>8 DEF m, q

\* A slot is filled and recycled left alone.
LEMMA ReplaceOK ==
  ASSUME NEW n, NEW r, NEW a, NEW b, TableOK(n, r, a, b), NEW k \in Nat, NEW f \in File,
         k < Len(n), a => n[k + 1] # None
  PROVE  TableOK([n EXCEPT ![k + 1] = f], r, a, b)
<1> DEFINE m == [n EXCEPT ![k + 1] = f]
<1>0. n \in Seq(Slot) /\ r \in Seq(Nat) /\ f \in Slot /\ f # None
  BY FdConstants DEF TableOK, Slot
<1>1. /\ m \in Seq(Slot) /\ Len(m) = Len(n)
      /\ \A g \in 0 .. Len(n) - 1 : m[g + 1] = IF g = k THEN f ELSE n[g + 1]
  BY <1>0, AssignFacts
<1>3. \A g \in ToSet(r) : g \in 0 .. Len(n) - 1
  BY InTable
<1> HIDE DEF m
<1>5. Bounded(m, r)
  BY <1>1 DEF TableOK, Bounded
<1>6. ASSUME a PROVE ListsFree(m, r)
  BY <1>1, <1>3, <1>6 DEF TableOK, ListsFree
<1>7. ASSUME b PROVE ListsAll(m, r)
  BY <1>0, <1>1, <1>7 DEF TableOK, ListsAll
<1>8. TableOK(m, r, a, b)
  BY <1>0, <1>1, <1>5, <1>6, <1>7 DEF TableOK
<1> QED BY <1>8 DEF m

\* extend.
LEMMA ConcatSet ==
  ASSUME NEW r \in Seq(Nat), NEW s \in Seq(Nat)
  PROVE  /\ r \o s \in Seq(Nat)
         /\ ToSet(r \o s) = ToSet(r) \cup ToSet(s)
         /\ NoDup(r) /\ NoDup(s) /\ ToSet(r) \cap ToSet(s) = {} => NoDup(r \o s)
<1> DEFINE t == r \o s
           u == Len(r)
           v == Len(s)
<1>1. /\ t \in Seq(Nat) /\ Len(t) = u + v /\ u \in Nat /\ v \in Nat
      /\ \A i \in 1 .. u + v : t[i] = IF i <= u THEN r[i] ELSE s[i - u]
  BY ConcatFacts
<1>2. \A x : x \in ToSet(r) <=> \E i \in 1 .. u : r[i] = x
  BY InToSet
<1>3. \A x : x \in ToSet(s) <=> \E i \in 1 .. v : s[i] = x
  BY InToSet
<1>4. \A x : x \in ToSet(t) <=> \E i \in 1 .. u + v : t[i] = x
  BY <1>1, InToSet
<1> HIDE DEF t, u, v
<1>5. ASSUME NEW x \in ToSet(t) PROVE x \in ToSet(r) \/ x \in ToSet(s)
  <2>1. PICK i \in 1 .. u + v : t[i] = x
    BY <1>4
  <2>2. CASE i <= u
    <3>1. i \in 1 .. u
      BY <1>1, <2>2
    <3>2. t[i] = r[i]
      BY <1>1, <3>1
    <3> QED BY <1>2, <2>1, <3>1, <3>2
  <2>3. CASE ~(i <= u)
    <3>1. i - u \in 1 .. v
      BY <1>1, <2>3
    <3> QED BY <1>1, <1>3, <2>1, <2>3, <3>1
  <2> QED BY <2>2, <2>3
<1>6. ASSUME NEW x \in ToSet(r) PROVE x \in ToSet(t)
  <2>1. PICK i \in 1 .. u : r[i] = x
    BY <1>2
  <2>2. i \in 1 .. u + v /\ i <= u
    BY <1>1
  <2> QED BY <1>1, <1>4, <2>1, <2>2
<1>7. ASSUME NEW x \in ToSet(s) PROVE x \in ToSet(t)
  <2>1. PICK i \in 1 .. v : s[i] = x
    BY <1>3
  <2>2. u + i \in 1 .. u + v /\ ~(u + i <= u) /\ (u + i) - u = i
    BY <1>1
  <2> QED BY <1>1, <1>4, <2>1, <2>2
<1>8. ASSUME NoDup(r), NoDup(s), ToSet(r) \cap ToSet(s) = {} PROVE NoDup(t)
  <2>1. SUFFICES ASSUME NEW i \in 1 .. u + v, NEW j \in 1 .. u + v, t[i] = t[j] PROVE i = j
    BY <1>1 DEF NoDup
  <2>2. CASE i <= u /\ j <= u
    <3>1. i \in 1 .. u /\ j \in 1 .. u /\ r[i] = r[j]
      BY <1>1, <2>1, <2>2
    <3> QED BY <1>8, <3>1 DEF NoDup, u
  <2>3. CASE ~(i <= u) /\ ~(j <= u)
    <3>1. i - u \in 1 .. v /\ j - u \in 1 .. v /\ s[i - u] = s[j - u]
      BY <1>1, <2>1, <2>3
    <3>2. i - u = j - u
      BY <1>8, <3>1 DEF NoDup, v
    <3> QED BY <1>1, <3>2
  <2>4. ASSUME NEW g \in 1 .. u + v, NEW h \in 1 .. u + v, g <= u, ~(h <= u) PROVE t[g] # t[h]
    <3>0. g \in 1 .. u /\ t[g] = r[g]
      BY <1>1, <2>4
    <3>1. t[g] \in ToSet(r)
      BY <1>2, <3>0
    <3>2. h - u \in 1 .. v
      BY <1>1, <2>4
    <3>3. t[h] \in ToSet(s)
      BY <1>1, <1>3, <2>4, <3>2
    <3> QED BY <1>8, <3>1, <3>3
  <2> QED BY <2>1, <2>2, <2>3, <2>4
<1> QED BY <1>1, <1>5, <1>6, <1>7, <1>8 DEF t

\* The table grows to pos and the skipped fds, truncated, are recycled.
LEMMA GrowOK ==
  ASSUME NEW n, NEW r, NEW a, NEW b, TableOK(n, r, a, b), NEW pos \in Nat, Len(n) <= pos,
         NEW f \in File, NEW sk \in Seq(Nat), \A x \in ToSet(sk) : x < pos + 1, NEW c,
         c => ToSet(sk) = Len(n) .. pos - 1 /\ NoDup(sk), NEW m,
         m = [i \in 1 .. pos + 1 |-> IF i <= Len(n) THEN n[i]
                                     ELSE IF i = pos + 1 THEN f ELSE None]
  PROVE  TableOK(m, r \o sk, a /\ c, b /\ c) /\ Len(m) = pos + 1
<1> DEFINE q == r \o sk
<1>0. n \in Seq(Slot) /\ r \in Seq(Nat) /\ f \in Slot /\ f # None /\ None \in Slot /\ Len(n) \in Nat
  BY FdConstants DEF TableOK, Slot
<1>1. m \in [1 .. pos + 1 -> Slot]
  BY <1>0
<1>2. /\ m \in Seq(Slot) /\ Len(m) = pos + 1
      /\ \A g \in 0 .. pos : m[g + 1] = IF g < Len(n) THEN n[g + 1] ELSE IF g = pos THEN f ELSE None
  BY <1>0, <1>1
<1>3. /\ q \in Seq(Nat) /\ ToSet(q) = ToSet(r) \cup ToSet(sk)
      /\ NoDup(r) /\ NoDup(sk) /\ ToSet(r) \cap ToSet(sk) = {} => NoDup(q)
  BY <1>0, ConcatSet
<1>4. \A g \in ToSet(r) : g \in 0 .. Len(n) - 1
  BY InTable
<1> HIDE DEF q
<1>5. Bounded(m, q)
  <2> SUFFICES ASSUME NEW g \in ToSet(q) PROVE g < pos + 1
    BY <1>2 DEF Bounded
  <2>1. CASE g \in ToSet(r)
    BY <1>0, <1>4, <2>1
  <2> QED BY <1>3, <2>1
<1>6. ASSUME a, c PROVE ListsFree(m, q)
  <2>1. ToSet(r) \cap ToSet(sk) = {}
    BY <1>0, <1>4, <1>6
  <2>2. NoDup(q)
    BY <1>3, <1>6, <2>1 DEF TableOK, ListsFree
  <2>3. ASSUME NEW g \in ToSet(q) PROVE m[g + 1] = None
    <3>1. CASE g \in ToSet(r)
      <4>1. g \in 0 .. pos /\ g < Len(n)
        BY <1>0, <1>4, <3>1
      <4> QED BY <1>2, <1>6, <3>1, <4>1 DEF TableOK, ListsFree
    <3>2. CASE g \in ToSet(sk)
      <4>1. g \in 0 .. pos /\ ~(g < Len(n)) /\ g # pos
        BY <1>0, <1>6, <3>2
      <4> QED BY <1>2, <4>1
    <3> QED BY <1>3, <3>1, <3>2
  <2> QED BY <2>2, <2>3 DEF ListsFree
<1>7. ASSUME b, c PROVE ListsAll(m, q)
  <2> SUFFICES ASSUME NEW g \in 0 .. Len(m) - 1, m[g + 1] = None PROVE g \in ToSet(q)
    BY DEF ListsAll
  <2>0. g \in 0 .. pos
    BY <1>2
  <2>1. CASE g < Len(n)
    <3>1. g \in 0 .. Len(n) - 1 /\ n[g + 1] = None
      BY <1>0, <1>2, <2>0, <2>1
    <3> QED BY <1>3, <1>7, <3>1 DEF TableOK, ListsAll
  <2>2. CASE ~(g < Len(n))
    <3>1. g # pos
      BY <1>0, <1>2, <2>0, <2>2
    <3>2. g \in Len(n) .. pos - 1
      BY <1>0, <2>0, <2>2, <3>1
    <3> QED BY <1>3, <1>7, <3>2
  <2> QED BY <2>1, <2>2
<1>8. TableOK(m, q, a /\ c, b /\ c)
  BY <1>2, <1>3, <1>5, <1>6, <1>7 DEF TableOK
<1> QED BY <1>2, <1>8 DEF q

\* A limit cuts the table.
LEMMA CutOK ==
  ASSUME NEW n, NEW r, NEW a, NEW b, TableOK(n, r, a, b), NEW k \in Nat, k < Len(n)
  PROVE  /\ TableOK(SubSeq(n, 1, k), Without(r, {fd \in ToSet(r) : fd >= k}), a, b)
         /\ Len(SubSeq(n, 1, k)) = k
<1> DEFINE m == SubSeq(n, 1, k)
           T == {fd \in ToSet(r) : fd >= k}
           q == Without(r, T)
<1>0. n \in Seq(Slot) /\ r \in Seq(Nat) /\ Len(n) \in Nat
  BY DEF TableOK
<1>1. m \in Seq(Slot) /\ Len(m) = k
  BY <1>0
<1>2. \A g \in 0 .. k - 1 : m[g + 1] = n[g + 1]
  BY <1>0
<1>3. q \in Seq(Nat) /\ ToSet(q) = ToSet(r) \ T /\ (NoDup(r) => NoDup(q))
  BY <1>0, WithoutFacts
<1>4. \A g \in ToSet(r) : g \in 0 .. Len(n) - 1
  BY InTable
<1> HIDE DEF m, q
<1>5. \A g \in ToSet(q) : g \in ToSet(r) /\ g \in 0 .. k - 1
  <2> SUFFICES ASSUME NEW g \in ToSet(q) PROVE g \in ToSet(r) /\ g \in 0 .. k - 1
    OBVIOUS
  <2>1. g \in ToSet(r) /\ ~(g >= k)
    BY <1>3
  <2> QED BY <1>0, <1>4, <2>1
<1>6. Bounded(m, q)
  BY <1>1, <1>5 DEF Bounded
<1>7. ASSUME a PROVE ListsFree(m, q)
  BY <1>2, <1>3, <1>5, <1>7 DEF TableOK, ListsFree
<1>8. ASSUME b PROVE ListsAll(m, q)
  <2> SUFFICES ASSUME NEW g \in 0 .. Len(m) - 1, m[g + 1] = None PROVE g \in ToSet(q)
    BY DEF ListsAll
  <2>1. g \in 0 .. k - 1 /\ g \in 0 .. Len(n) - 1 /\ ~(g >= k)
    BY <1>0, <1>1
  <2>2. g \in ToSet(r)
    BY <1>2, <1>8, <2>1 DEF TableOK, ListsAll
  <2> QED BY <1>3, <2>1, <2>2
<1>9. TableOK(m, q, a, b)
  BY <1>1, <1>3, <1>6, <1>7, <1>8 DEF TableOK
<1> QED BY <1>1, <1>9 DEF m, q

-----------------------------------------------------------------------------
\* The invariant in terms of TableOK.
FdInv ==
  /\ TableOK(inner, recycled, intact, intact /\ ~forked)
  /\ TypeOK /\ LimitRespected

\* It implies the three properties of recycled.
LEMMA FdInvImplies == FdInv => RecycledInBounds /\ RecycledAreFree /\ NoSlotLost
BY DEF FdInv, TableOK, Bounded, ListsFree, ListsAll, RecycledInBounds, RecycledAreFree,
       NoSlotLost, Current, At

\* An open descriptor refers to a file.
LEMMA ValidFile ==
  ASSUME FdInv, NEW fd \in Fd, Valid(fd)
  PROVE  At(fd) \in File /\ fd \in Nat /\ fd < Len(inner) /\ Len(inner) \in Nat
<1>1. fd \in Nat /\ fd < Len(inner) /\ inner \in Seq(Slot) /\ Len(inner) \in Nat
  BY FdConstants DEF FdInv, TableOK, Fd, Valid, Current
<1>2. inner[fd + 1] \in Slot
  BY <1>1
<1> QED BY <1>1, <1>2 DEF Valid, At, Slot

\* insert makes a pair again.
LEMMA InsertedPair ==
  ASSUME NEW n, NEW r, NEW f
  PROVE  Inserted(<<n, r>>, f) = <<Inserted(<<n, r>>, f)[1], Inserted(<<n, r>>, f)[2]>>
<1>1. CASE r # <<>>
  BY <1>1 DEF Inserted
<1>2. CASE r = <<>>
  <2> DEFINE p == Append(n, f)
  <2>1. Inserted(<<n, r>>, f) = <<p, r>>
    BY <1>2 DEF Inserted
  <2> HIDE DEF p
  <2> QED BY <2>1
<1> QED BY <1>1, <1>2

\* insert on any table.
LEMMA InsertOK ==
  ASSUME NEW n, NEW r, NEW a, NEW b, TableOK(n, r, a, b), b => a, NEW f \in File,
         CanInsert(<<n, r>>), NEW h, h => Len(n) <= soft_limit, soft_limit \in Nat
  PROVE  LET s == Inserted(<<n, r>>, f)
         IN  TableOK(s[1], s[2], a, b) /\ (h => Len(s[1]) <= soft_limit)
<1> DEFINE m == [n EXCEPT ![Last(r) + 1] = f]
<1>0. n \in Seq(Slot) /\ Len(n) \in Nat /\ r \in Seq(Nat) /\ f \in Slot
  BY DEF TableOK, Slot
<1>1. CASE r # <<>>
  <2>1. Inserted(<<n, r>>, f) = <<m, Front(r)>>
    BY <1>1 DEF Inserted
  <2>2. TableOK(m, Front(r), a, b)
    BY <1>1, PopOK
  <2>3. Len(m) = Len(n)
    BY <1>0, <1>1, FrontFacts, AssignFacts
  <2> HIDE DEF m
  <2> QED BY <2>1, <2>2, <2>3
<1>2. CASE r = <<>>
  <2>1. Inserted(<<n, r>>, f) = <<Append(n, f), r>>
    BY <1>2 DEF Inserted
  <2>2. TableOK(Append(n, f), r, a, b)
    BY PushOK
  <2>3. Len(n) # soft_limit /\ Len(Append(n, f)) = Len(n) + 1
    BY <1>0, <1>2 DEF CanInsert
  <2>4. h => Len(Append(n, f)) <= soft_limit
    BY <1>0, <2>3
  <2> DEFINE p == Append(n, f)
  <2>5. Inserted(<<n, r>>, f) = <<p, r>> /\ TableOK(p, r, a, b) /\ (h => Len(p) <= soft_limit)
    BY <2>1, <2>2, <2>4
  <2> HIDE DEF p
  <2> QED BY <2>5
<1> QED BY <1>1, <1>2

\* What remains to show for a step that leaves the limits and forked alone.
LEMMA StepOK ==
  ASSUME FdInv, TableOK(inner', recycled', intact', intact' /\ ~forked),
         ~forked => Len(inner') <= soft_limit, UNCHANGED <<limits, forked>>, intact' \in BOOLEAN
  PROVE  FdInv'
<1>1. soft_limit' = soft_limit /\ hard_limit' = hard_limit /\ forked' = forked
  BY DEF limits
<1>2. TypeOK'
  BY <1>1 DEF FdInv, TypeOK, TableOK, Slot
<1>3. LimitRespected'
  BY <1>1 DEF LimitRespected, Current
<1> QED BY <1>1, <1>2, <1>3 DEF FdInv, TableOK, Bounded, ListsFree, ListsAll

\* The limits and the history are well typed.
LEMMA LimitFacts ==
  ASSUME FdInv
  PROVE  /\ soft_limit \in Nat /\ Len(inner) \in Nat /\ intact \in BOOLEAN /\ forked \in BOOLEAN
         /\ ~forked => Len(inner) <= soft_limit
BY DEF FdInv, TypeOK, LimitRespected, Current

\* sys_openat preserves the invariant.
LEMMA OpenInv == ASSUME FdInv, NEW f \in File, Open(f) PROVE FdInv'
<1> DEFINE s == Inserted(<<inner, recycled>>, f)
<1>0. s = <<s[1], s[2]>>
  BY InsertedPair
<1>1. TableOK(s[1], s[2], intact, intact /\ ~forked) /\ (~forked => Len(s[1]) <= soft_limit)
  <2>1. /\ CanInsert(<<inner, recycled>>) /\ TableOK(inner, recycled, intact, intact /\ ~forked)
        /\ ~forked => Len(inner) <= soft_limit
        /\ soft_limit \in Nat
    BY LimitFacts DEF FdInv, Open
  <2> QED BY <2>1, InsertOK
<1>2. inner' = s[1] /\ recycled' = s[2] /\ UNCHANGED <<limits, forked, intact>>
  BY DEF Open, Insert
<1> HIDE DEF s
<1>3. intact' = intact /\ intact' \in BOOLEAN
  BY <1>2, LimitFacts
<1> QED BY <1>1, <1>2, <1>3, StepOK

\* sys_pipe, with one insert or two.
LEMMA PipeInv == ASSUME FdInv, NEW f \in File, NEW g \in File, Pipe(f, g) PROVE FdInv'
<1> DEFINE s == Inserted(<<inner, recycled>>, f)
           t == IF CanInsert(s) THEN Inserted(s, g) ELSE s
<1>0. s = <<s[1], s[2]>>
  BY InsertedPair
<1>1. TableOK(s[1], s[2], intact, intact /\ ~forked) /\ (~forked => Len(s[1]) <= soft_limit)
  <2>1. /\ CanInsert(<<inner, recycled>>) /\ TableOK(inner, recycled, intact, intact /\ ~forked)
        /\ ~forked => Len(inner) <= soft_limit
        /\ soft_limit \in Nat
    BY LimitFacts DEF FdInv, Pipe
  <2> QED BY <2>1, InsertOK
<1>2. inner' = t[1] /\ recycled' = t[2] /\ UNCHANGED <<limits, forked, intact>>
  BY DEF Pipe
<1> HIDE DEF s
<1>3. TableOK(t[1], t[2], intact, intact /\ ~forked) /\ (~forked => Len(t[1]) <= soft_limit)
  <2> DEFINE n == s[1]
             r == s[2]
  <2>1. s = <<n, r>>
    BY <1>0
  <2>2. CASE CanInsert(s)
    <3>1. /\ TableOK(Inserted(<<n, r>>, g)[1], Inserted(<<n, r>>, g)[2], intact, intact /\ ~forked)
          /\ ~forked => Len(Inserted(<<n, r>>, g)[1]) <= soft_limit
      <4>1. CanInsert(<<n, r>>) /\ TableOK(n, r, intact, intact /\ ~forked)
            /\ (~forked => Len(n) <= soft_limit)
        BY <1>1, <2>1, <2>2
      <4> HIDE DEF n, r
      <4> QED BY <4>1, InsertOK, LimitFacts
    <3> QED BY <2>1, <2>2, <3>1
  <2>3. CASE ~CanInsert(s)
    BY <1>1, <2>3
  <2> QED BY <2>2, <2>3
<1> HIDE DEF t
<1>4. intact' = intact /\ intact' \in BOOLEAN
  BY <1>2, LimitFacts
<1> QED BY <1>2, <1>3, <1>4, StepOK

\* sys_close: a truncated fd ends intact.
LEMMA CloseInv == ASSUME FdInv, NEW fd \in Fd, Close(fd) PROVE FdInv'
<1> DEFINE x == fd % U8
<1>1. fd \in Nat /\ fd < Len(inner) /\ Len(inner) \in Nat /\ inner[fd + 1] # None
  BY ValidFile DEF Close, Valid, At
<1>2. x \in Nat /\ x <= fd /\ (fd < U8 => x = fd)
  BY <1>1, Truncation
<1>3. /\ inner' = [inner EXCEPT ![fd + 1] = None] /\ recycled' = Append(recycled, x)
      /\ intact' = (intact /\ fd < U8) /\ UNCHANGED <<limits, forked>>
  BY DEF Close
<1> HIDE DEF x
<1>4. TableOK(inner', recycled', intact /\ x = fd, (intact /\ ~forked) /\ x = fd)
  BY <1>1, <1>2, <1>3, RemoveOK DEF FdInv
<1>5. TableOK(inner', recycled', intact', intact' /\ ~forked)
  BY <1>2, <1>3, <1>4 DEF TableOK
<1>6. Len(inner') = Len(inner)
  BY <1>1, <1>3, AssignFacts DEF FdInv, TableOK, Slot
<1>7. intact' \in BOOLEAN
  BY <1>3
<1> QED BY <1>3, <1>5, <1>6, <1>7, LimitFacts, StepOK

\* sys_dup inserts the file of an open descriptor.
LEMMA DupInv == ASSUME FdInv, NEW fd \in Fd, Dup(fd) PROVE FdInv'
<1> DEFINE f == At(fd)
<1>1. f \in File /\ Open(f)
  BY ValidFile DEF Dup
<1> HIDE DEF f
<1> QED BY <1>1, OpenInv

\* The fds skipped by an insertion beyond the table, listed without loss.
LEMMA SkippedFacts ==
  ASSUME NEW cur \in Nat, NEW pos \in Nat, NEW sk \in Seq(Nat), Len(sk) = pos - cur,
         \A i \in 1 .. pos - cur : sk[i] \in cur .. pos - 1,
         \A i, j \in 1 .. pos - cur : sk[i] = sk[j] => i = j,
         \A x \in cur .. pos - 1 : \E i \in 1 .. pos - cur : sk[i] = x
  PROVE  ToSet(sk) = cur .. pos - 1 /\ NoDup(sk)
<1>1. \A x : x \in ToSet(sk) <=> \E i \in 1 .. pos - cur : sk[i] = x
  BY InToSet
<1>2. \A x \in ToSet(sk) : x \in cur .. pos - 1
  BY <1>1
<1>3. \A x \in cur .. pos - 1 : x \in ToSet(sk)
  BY <1>1
<1>4. ToSet(sk) = cur .. pos - 1
  BY <1>2, <1>3
<1>5. NoDup(sk)
  BY DEF NoDup
<1> QED BY <1>4, <1>5

\* The truncated list of an enumeration g of the skipped fds.
LEMMA TruncatedFacts ==
  ASSUME NEW cur \in Nat, NEW pos \in Nat, cur <= pos, NEW g \in [1 .. pos - cur -> cur .. pos - 1]
  PROVE  LET sk == [i \in 1 .. pos - cur |-> g[i] % U8]
         IN  /\ sk \in Seq(Nat) /\ Len(sk) = pos - cur
             /\ \A x \in ToSet(sk) : x < pos + 1
             /\ pos = cur \/ pos <= U8 => \A i \in 1 .. pos - cur : sk[i] = g[i]
<1> DEFINE sk == [i \in 1 .. pos - cur |-> g[i] % U8]
<1>1. pos - cur \in Nat
  OBVIOUS
<1>2. ASSUME NEW i \in 1 .. pos - cur
      PROVE  g[i] % U8 \in Nat /\ g[i] % U8 < pos + 1 /\ (pos <= U8 => g[i] % U8 = g[i])
  <2>1. g[i] \in Nat /\ g[i] < pos
    OBVIOUS
  <2>2. U8 \in Nat
    BY FdConstants
  <2>3. g[i] % U8 \in Nat /\ g[i] % U8 <= g[i] /\ (g[i] < U8 => g[i] % U8 = g[i])
    BY <2>1, Truncation
  <2> QED BY <2>1, <2>2, <2>3
<1>3. sk \in [1 .. pos - cur -> Nat]
  BY <1>2
<1>4. sk \in Seq(Nat) /\ Len(sk) = pos - cur
  BY <1>1, <1>3
<1>5. \A i \in 1 .. pos - cur : sk[i] = g[i] % U8
  OBVIOUS
<1> HIDE DEF sk
<1>6. \A x : x \in ToSet(sk) <=> \E i \in 1 .. pos - cur : sk[i] = x
  BY <1>4, InToSet
<1>7. \A x \in ToSet(sk) : x < pos + 1
  BY <1>2, <1>5, <1>6
<1>8. ASSUME pos = cur \/ pos <= U8 PROVE \A i \in 1 .. pos - cur : sk[i] = g[i]
  BY <1>1, <1>2, <1>5, <1>8
<1> QED BY <1>4, <1>7, <1>8 DEF sk

\* extend lists them from above, try_insert_at from below.
LEMMA SkippedOK ==
  ASSUME FdInv, NEW pos \in Nat, Len(inner) <= pos
  PROVE  \A sk \in {SkippedDown(pos), SkippedUp(pos)} :
            /\ sk \in Seq(Nat) /\ \A x \in ToSet(sk) : x < pos + 1
            /\ pos = Len(inner) \/ pos <= U8 => ToSet(sk) = Len(inner) .. pos - 1 /\ NoDup(sk)
<1> DEFINE cur == Len(inner)
           down == [i \in 1 .. pos - cur |-> pos - i]
           up == [i \in 1 .. pos - cur |-> cur + i - 1]
           sd == SkippedDown(pos)
           su == SkippedUp(pos)
<1>0. cur \in Nat /\ cur <= pos
  BY LimitFacts
<1>1. /\ sd = [i \in 1 .. pos - cur |-> down[i] % U8]
      /\ su = [i \in 1 .. pos - cur |-> up[i] % U8]
  BY DEF SkippedDown, SkippedUp, Current
<1> HIDE DEF cur, sd, su
<1>2. /\ down \in [1 .. pos - cur -> cur .. pos - 1]
      /\ up \in [1 .. pos - cur -> cur .. pos - 1]
  BY <1>0
<1>3. /\ \A i \in 1 .. pos - cur : down[i] = pos - i
      /\ \A i \in 1 .. pos - cur : up[i] = cur + i - 1
  OBVIOUS
<1> HIDE DEF down, up
<1>4. /\ sd \in Seq(Nat) /\ Len(sd) = pos - cur /\ \A x \in ToSet(sd) : x < pos + 1
      /\ pos = cur \/ pos <= U8 => \A i \in 1 .. pos - cur : sd[i] = down[i]
  BY <1>0, <1>1, <1>2, TruncatedFacts
<1>5. /\ su \in Seq(Nat) /\ Len(su) = pos - cur /\ \A x \in ToSet(su) : x < pos + 1
      /\ pos = cur \/ pos <= U8 => \A i \in 1 .. pos - cur : su[i] = up[i]
  BY <1>0, <1>1, <1>2, TruncatedFacts
<1>6. ASSUME pos = cur \/ pos <= U8 PROVE ToSet(sd) = cur .. pos - 1 /\ NoDup(sd)
  <2>1. \A i \in 1 .. pos - cur : sd[i] = pos - i
    BY <1>3, <1>4, <1>6
  <2>2. /\ \A i \in 1 .. pos - cur : sd[i] \in cur .. pos - 1
        /\ \A i, j \in 1 .. pos - cur : sd[i] = sd[j] => i = j
    BY <1>0, <2>1
  <2>3. ASSUME NEW x \in cur .. pos - 1 PROVE \E i \in 1 .. pos - cur : sd[i] = x
    <3>1. pos - x \in 1 .. pos - cur /\ pos - (pos - x) = x
      BY <1>0
    <3> QED BY <2>1, <3>1
  <2> QED BY <1>0, <1>4, <2>2, <2>3, SkippedFacts
<1>7. ASSUME pos = cur \/ pos <= U8 PROVE ToSet(su) = cur .. pos - 1 /\ NoDup(su)
  <2>1. \A i \in 1 .. pos - cur : su[i] = cur + i - 1
    BY <1>3, <1>5, <1>7
  <2>2. /\ \A i \in 1 .. pos - cur : su[i] \in cur .. pos - 1
        /\ \A i, j \in 1 .. pos - cur : su[i] = su[j] => i = j
    BY <1>0, <2>1
  <2>3. ASSUME NEW x \in cur .. pos - 1 PROVE \E i \in 1 .. pos - cur : su[i] = x
    <3>1. x - cur + 1 \in 1 .. pos - cur /\ cur + (x - cur + 1) - 1 = x
      BY <1>0
    <3> QED BY <2>1, <3>1
  <2> QED BY <1>0, <1>5, <2>2, <2>3, SkippedFacts
<1> QED BY <1>4, <1>5, <1>6, <1>7 DEF cur, sd, su

\* The table grows to pos, below the limit.
LEMMA GrownInv ==
  ASSUME FdInv, NEW pos \in Nat, Len(inner) <= pos, pos < soft_limit, NEW f \in File,
         NEW sk \in {SkippedDown(pos), SkippedUp(pos)},
         recycled' = recycled \o sk, inner' = GrownTo(pos, f), SkipIntact(pos),
         UNCHANGED <<limits, forked>>
  PROVE  FdInv'
<1> DEFINE c == pos = Len(inner) \/ pos <= U8
<1>1. /\ sk \in Seq(Nat) /\ \A x \in ToSet(sk) : x < pos + 1
      /\ c => ToSet(sk) = Len(inner) .. pos - 1 /\ NoDup(sk)
  BY SkippedOK
<1>2. inner' = [i \in 1 .. pos + 1 |-> IF i <= Len(inner) THEN inner[i]
                                       ELSE IF i = pos + 1 THEN f ELSE None]
  BY DEF GrownTo, Current
<1>3. intact' = (intact /\ c)
  BY DEF SkipIntact, Current
<1> HIDE DEF c
<1>4. TableOK(inner', recycled', intact /\ c, (intact /\ ~forked) /\ c) /\ Len(inner') = pos + 1
  <2>1. TableOK(inner, recycled, intact, intact /\ ~forked)
    BY DEF FdInv
  <2> DEFINE b == intact /\ ~forked
  <2>2. TableOK(inner, recycled, intact, b)
    BY <2>1
  <2> HIDE DEF b
  <2>3. TableOK(inner', recycled', intact /\ c, b /\ c) /\ Len(inner') = pos + 1
    BY <1>1, <1>2, <2>2, GrowOK
  <2> QED BY <2>3 DEF b
<1>5. TableOK(inner', recycled', intact', intact' /\ ~forked)
  BY <1>3, <1>4 DEF TableOK
<1>7. intact' \in BOOLEAN /\ (~forked => Len(inner') <= soft_limit)
  BY <1>3, <1>4, LimitFacts
<1> QED BY <1>5, <1>7, StepOK

\* A slot is assigned: the limit holds as before.
LEMMA SlotInv ==
  ASSUME FdInv, NEW e, NEW f \in File, inner' = [inner EXCEPT ![e] = f],
         TableOK(inner', recycled', intact', intact' /\ ~forked),
         UNCHANGED <<limits, forked>>, intact' \in BOOLEAN
  PROVE  FdInv'
<1>1. Len(inner') = Len(inner)
  BY DEF FdInv, TypeOK
<1> QED BY <1>1, LimitFacts, StepOK

\* insert_at below the end of the table.
LEMMA ReplaceInv ==
  ASSUME FdInv, NEW k \in Nat, NEW f \in File, Replace(k, f), UNCHANGED <<limits, forked>>
  PROVE  FdInv'
<1> DEFINE b == intact /\ ~forked
           m == [inner EXCEPT ![k + 1] = f]
<1>0. TableOK(inner, recycled, intact, b) /\ intact' = intact /\ intact' \in BOOLEAN
      /\ k < Len(inner) /\ inner' = m
  BY LimitFacts DEF FdInv, Replace, Current
<1> HIDE DEF b, m
<1>1. TableOK(m, recycled', intact, b)
  <2>1. CASE At(k) = None
    <3>1. recycled' = Without(recycled, {k})
      BY <2>1 DEF Replace
    <3> QED BY <1>0, <3>1, FillOK DEF m
  <2>2. CASE At(k) # None
    <3>1. recycled' = recycled /\ inner[k + 1] # None
      BY <2>2 DEF Replace, At
    <3>2. TableOK(m, recycled, intact, b)
      BY <1>0, <3>1, ReplaceOK DEF m
    <3> QED BY <3>1, <3>2
  <2> QED BY <2>1, <2>2
<1>2. TableOK(inner', recycled', intact', intact' /\ ~forked)
  BY <1>0, <1>1 DEF b
<1> QED BY <1>0, <1>2, SlotInv DEF m

\* sys_dup3.
LEMMA Dup3Inv == ASSUME FdInv, NEW old \in Fd, NEW new \in Fd, Dup3(old, new) PROVE FdInv'
<1> DEFINE f == At(old)
<1>1. f \in File /\ new \in Nat /\ UNCHANGED <<limits, forked>>
  BY ValidFile, FdConstants DEF Dup3, Fd
<1>2. Replace(new, f) \/ Extend(new, f)
  BY DEF Dup3
<1> HIDE DEF f
<1>3. CASE Replace(new, f)
  BY <1>1, <1>3, ReplaceInv
<1>4. CASE Extend(new, f)
  <2>1. /\ Len(inner) <= new /\ new < soft_limit /\ recycled' = recycled \o SkippedDown(new)
        /\ inner' = GrownTo(new, f) /\ SkipIntact(new)
    BY <1>4 DEF Extend, Current
  <2> QED BY <1>1, <2>1, GrownInv
<1> QED BY <1>2, <1>3, <1>4

\* sys_fcntl with F_DUPFD: taking a recycled fd ends intact.
LEMMA DupfdInv == ASSUME FdInv, NEW fd \in Fd, NEW hint \in Fd, Dupfd(fd, hint) PROVE FdInv'
<1> DEFINE f == At(fd)
<1>1. f \in File /\ hint \in Nat /\ UNCHANGED <<limits, forked>> /\ hint < soft_limit
  BY ValidFile, FdConstants DEF Dupfd, Fd
<1>2. TakeHint(hint, f) \/ TakeRecycled(hint, f) \/ TakeNext(hint, f) \/ TakeBeyond(hint, f)
  BY DEF Dupfd
<1> HIDE DEF f
<1>3. CASE TakeHint(hint, f)
  <2>1. Replace(hint, f)
    BY <1>3 DEF TakeHint, Replace
  <2> QED BY <1>1, <2>1, ReplaceInv
<1>4. CASE TakeRecycled(hint, f)
  <2> DEFINE e == FirstAbove(hint) + 1
  <2>1. inner' = [inner EXCEPT ![e] = f] /\ intact' = FALSE /\ recycled' = recycled
    BY <1>4 DEF TakeRecycled
  <2> HIDE DEF e
  <2>2. inner \in Seq(Slot) /\ f \in Slot /\ recycled \in Seq(Nat) /\ Bounded(inner, recycled)
    BY <1>1 DEF FdInv, TableOK, Slot
  <2>3. inner' \in Seq(Slot) /\ Len(inner') = Len(inner)
    <3>1. inner \in [1 .. Len(inner) -> Slot] /\ Len(inner) \in Nat
      BY <2>2
    <3>2. inner' \in [1 .. Len(inner) -> Slot]
      BY <2>1, <2>2, <3>1
    <3> QED BY <3>1, <3>2
  <2>4. TableOK(inner', recycled', intact', intact' /\ ~forked)
    BY <2>1, <2>2, <2>3 DEF TableOK, Bounded
  <2> QED BY <1>1, <2>1, <2>4, SlotInv
<1>5. CASE TakeNext(hint, f)
  <2> DEFINE b == intact /\ ~forked
             p == Append(inner, f)
  <2>1. inner' = p /\ recycled' = recycled /\ intact' = intact /\ Len(inner) # soft_limit
    BY <1>5 DEF TakeNext, Current
  <2>2. Len(p) = Len(inner) + 1
    BY <1>1 DEF FdInv, TypeOK
  <2>3. TableOK(inner, recycled, intact, b)
    BY DEF FdInv
  <2> HIDE DEF b
  <2>4. TableOK(p, recycled, intact, b)
    BY <1>1, <2>3, PushOK
  <2> HIDE DEF p
  <2>5. TableOK(inner', recycled', intact', intact' /\ ~forked)
    BY <2>1, <2>4 DEF b
  <2>6. ~forked => Len(inner') <= soft_limit
    BY <2>1, <2>2, LimitFacts
  <2>7. intact' \in BOOLEAN
    BY <2>1, LimitFacts
  <2> QED BY <1>1, <2>5, <2>6, <2>7, StepOK
<1>6. CASE TakeBeyond(hint, f)
  <2>1. /\ Len(inner) <= hint /\ recycled' = recycled \o SkippedUp(hint)
        /\ inner' = GrownTo(hint, f) /\ SkipIntact(hint)
    BY <1>6 DEF TakeBeyond, Current
  <2> QED BY <1>1, <2>1, GrownInv
<1> QED BY <1>2, <1>3, <1>4, <1>5, <1>6

\* prlimit cuts the table to the smaller limit.
LEMMA PrlimitInv == ASSUME FdInv, NEW cur \in Limits, NEW max \in Limits, Prlimit(cur, max) PROVE FdInv'
<1> DEFINE k == IF cur < max THEN cur ELSE max
           b == intact /\ ~forked
<1>0. cur \in Nat /\ max \in Nat /\ k \in Nat /\ k <= cur
  BY FdConstants
<1>1. /\ soft_limit' = cur /\ hard_limit' = max /\ forked' = forked /\ intact' = intact
      /\ IF k < Len(inner) THEN inner' = Cut(k) /\ recycled' = Retained(k)
         ELSE UNCHANGED <<inner, recycled>>
  BY DEF Prlimit, Current
<1>2. TableOK(inner, recycled, intact, b)
  BY DEF FdInv
<1> HIDE DEF k, b
<1>3. TableOK(inner', recycled', intact, b) /\ Len(inner') <= cur
  <2>1. CASE k < Len(inner)
    <3>1. /\ inner' = SubSeq(inner, 1, k)
          /\ recycled' = Without(recycled, {fd \in ToSet(recycled) : fd >= k})
      BY <1>1, <2>1 DEF Cut, Retained
    <3>2. TableOK(inner', recycled', intact, b) /\ Len(inner') = k
      BY <1>0, <1>2, <2>1, <3>1, CutOK
    <3> QED BY <1>0, <3>2
  <2>2. CASE ~(k < Len(inner))
    <3>1. inner' = inner /\ recycled' = recycled
      BY <1>1, <2>2
    <3>2. Len(inner) <= cur
      BY <1>0, <2>2, LimitFacts
    <3> QED BY <1>2, <3>1, <3>2
  <2> QED BY <2>1, <2>2
<1>4. TableOK(inner', recycled', intact', intact' /\ ~forked')
  BY <1>1, <1>3 DEF b
<1>5. TypeOK' /\ LimitRespected'
  BY <1>0, <1>1, <1>3, LimitFacts DEF TypeOK, LimitRespected, Current, TableOK, Slot
<1> QED BY <1>4, <1>5 DEF FdInv, TableOK, Bounded, ListsFree, ListsAll

\* fork: the child recycles nothing yet.
LEMMA ForkInv == ASSUME FdInv, Fork PROVE FdInv'
<1>1. /\ inner' = inner /\ recycled' = <<>> /\ soft_limit' = DEFAULT_FD_LIMIT
      /\ hard_limit' = SYSTEM_FD_LIMIT /\ forked' = TRUE /\ intact' = TRUE
  BY DEF Fork
<1>2. recycled' \in Seq(Nat) /\ ToSet(recycled') = {} /\ NoDup(recycled')
  BY <1>1 DEF ToSet, NoDup
<1>3. inner' \in Seq(Slot)
  BY <1>1 DEF FdInv, TableOK
<1>4. TableOK(inner', recycled', intact', intact' /\ ~forked')
  BY <1>1, <1>2, <1>3 DEF TableOK, Bounded, ListsFree
<1>5. TypeOK' /\ LimitRespected'
  BY <1>1, <1>2, <1>3, FdConstants DEF TypeOK, LimitRespected, Slot
<1> QED BY <1>4, <1>5 DEF FdInv, TableOK, Bounded, ListsFree, ListsAll

\* The table of the first process.
LEMMA InitInv == Init => FdInv
<1> SUFFICES ASSUME Init PROVE FdInv
  OBVIOUS
<1>1. /\ inner = Stdio /\ recycled = <<>> /\ soft_limit = DEFAULT_FD_LIMIT
      /\ hard_limit = SYSTEM_FD_LIMIT /\ forked = FALSE /\ intact = TRUE
  BY DEF Init
<1>2. inner \in Seq(File) /\ inner \in Seq(Slot) /\ Len(inner) \in Nat
  BY <1>1, FdConstants DEF Slot
<1>3. \A i \in 1 .. Len(inner) : inner[i] # None
  BY <1>2, FdConstants
<1>4. ListsAll(inner, recycled)
  BY <1>2, <1>3 DEF ListsAll
<1>5. recycled \in Seq(Nat) /\ ToSet(recycled) = {} /\ NoDup(recycled)
  BY <1>1 DEF ToSet, NoDup
<1>6. TableOK(inner, recycled, intact, intact /\ ~forked)
  BY <1>2, <1>4, <1>5 DEF TableOK, Bounded, ListsFree
<1>7. TypeOK /\ LimitRespected
  BY <1>1, <1>2, <1>5, FdConstants DEF TypeOK, LimitRespected, Current, Slot
<1> QED BY <1>6, <1>7 DEF FdInv

\* Every step preserves the invariant.
LEMMA NextInv == FdInv /\ [Next]_vars => FdInv'
<1> SUFFICES ASSUME FdInv, [Next]_vars PROVE FdInv'
  OBVIOUS
<1>1. CASE UNCHANGED vars
  BY <1>1 DEF vars, FdInv, TableOK, Bounded, ListsFree, ListsAll, TypeOK, LimitRespected, Current
<1>2. CASE \E f \in File : Open(f)
  BY <1>2, OpenInv
<1>3. CASE \E fd \in Fd : Dup(fd) \/ Close(fd)
  BY <1>3, DupInv, CloseInv
<1>4. CASE \E f, g \in File : Pipe(f, g)
  BY <1>4, PipeInv
<1>5. CASE \E old, new \in Fd : Dup3(old, new)
  BY <1>5, Dup3Inv
<1>6. CASE \E fd, hint \in Fd : Dupfd(fd, hint)
  BY <1>6, DupfdInv
<1>7. CASE \E cur, max \in Limits : Prlimit(cur, max)
  BY <1>7, PrlimitInv
<1>8. CASE Fork
  BY <1>8, ForkInv
<1> QED BY <1>1, <1>2, <1>3, <1>4, <1>5, <1>6, <1>7, <1>8 DEF Next

-----------------------------------------------------------------------------
\* The invariant holds whatever the calls on the table.
THEOREM FdInvariant == Spec => []FdInv
BY InitInv, NextInv, PTL DEF Spec

\* The table keeps its types.
THEOREM FdTypes == Spec => []TypeOK
<1>1. FdInv => TypeOK
  BY DEF FdInv
<1> QED BY <1>1, FdInvariant, PTL

\* insert never indexes the table out of its bounds (fs/mod.rs:359).
THEOREM InsertInBounds == Spec => []RecycledInBounds
<1>1. FdInv => RecycledInBounds
  BY FdInvImplies
<1> QED BY <1>1, FdInvariant, PTL

\* While the history is intact, insert takes a free slot, listed once.
THEOREM InsertTakesFreeSlot == Spec => []RecycledAreFree
<1>1. FdInv => RecycledAreFree
  BY FdInvImplies
<1> QED BY <1>1, FdInvariant, PTL

\* In a table that no fork made, every free slot can be found again.
THEOREM FreeSlotsAreListed == Spec => []NoSlotLost
<1>1. FdInv => NoSlotLost
  BY FdInvImplies
<1> QED BY <1>1, FdInvariant, PTL

\* A table that no fork made stays within its soft limit.
THEOREM SoftLimitHolds == Spec => []LimitRespected
<1>1. FdInv => LimitRespected
  BY DEF FdInv
<1> QED BY <1>1, FdInvariant, PTL

-----------------------------------------------------------------------------
(* The id allocator, for any number of ids.                                 *)

\* The stack of recycled ids holds no id twice, and only ids below current.
StackOK == NoDup(recycled_ids) /\ \A id \in ToSet(recycled_ids) : id < current

\* An id has one handle exactly when it was created and is not recycled.
OwnedOK ==
  \A id \in Ids :
    handles[id] = IF id < current /\ id \notin ToSet(recycled_ids) THEN 1 ELSE 0

\* Every id ever created is live or recycled, and at the peak none is recycled.
CountOK == live + Len(recycled_ids) = current /\ peak = current

IInv == IdTypeOK /\ StackOK /\ OwnedOK /\ CountOK

\* The new allocator.
LEMMA InitIInv == New => IInv
  BY MaxIdsAssumption, EmptyFacts
  DEF New, IInv, IdTypeOK, StackOK, OwnedOK, CountOK, Ids

\* The invariant is inductive.
LEMMA StepIInv == IInv /\ [IdNext]_id_vars => IInv'
<1> SUFFICES ASSUME IInv, [IdNext]_id_vars PROVE IInv'
  OBVIOUS
<1> USE MaxIdsAssumption DEF IInv, IdTypeOK, StackOK, OwnedOK, CountOK, Hand
<1>1. CASE AllocRecycled
  <2> DEFINE id == Last(recycled_ids)
  <2>0. recycled_ids \in Seq(Ids) /\ recycled_ids # <<>> /\ recycled_ids' = Front(recycled_ids)
    BY <1>1 DEF AllocRecycled
  <2>1. /\ recycled_ids' \in Seq(Ids) /\ Len(recycled_ids') = Len(recycled_ids) - 1
        /\ id \in Ids /\ id \in ToSet(recycled_ids)
        /\ ToSet(recycled_ids') = ToSet(recycled_ids) \ {id}
        /\ NoDup(recycled_ids')
    BY <2>0, FrontFacts
  <2>2. Len(recycled_ids) \in Nat \ {0}
    BY <1>1 DEF AllocRecycled
  <2> HIDE DEF id
  <2>a. handles' \in [Ids -> Nat]
    BY <1>1, <2>1 DEF AllocRecycled, id
  <2>b. live' = live + 1 /\ live' \in Int /\ current' = current /\ current \in Int
    BY <1>1 DEF AllocRecycled
  <2>c. live + 1 <= peak
    BY <2>2
  <2>d. peak' = peak
    BY <1>1, <2>c DEF AllocRecycled
  <2>e. IdTypeOK'
    BY <2>1, <2>a, <2>b, <2>d
  <2>f. CountOK'
    BY <2>1, <2>2, <2>b, <2>d
  <2>3. IdTypeOK' /\ CountOK'
    BY <2>e, <2>f
  <2>4. StackOK'
    BY <1>1, <2>1 DEF AllocRecycled
  <2>5. OwnedOK'
    BY <1>1, <2>1 DEF AllocRecycled, Ids, id
  <2> QED BY <2>3, <2>4, <2>5
<1>2. CASE AllocFresh
  BY <1>2, EmptyFacts DEF AllocFresh, Ids
<1>3. ASSUME NEW id \in Ids, Dealloc(id) PROVE IInv'
  <2>1. id < current /\ id \notin ToSet(recycled_ids) /\ handles[id] = 1
    BY <1>3 DEF Dealloc, DeallocAsserts
  <2>2. /\ recycled_ids' \in Seq(Ids) /\ Len(recycled_ids') = Len(recycled_ids) + 1
        /\ ToSet(recycled_ids') = ToSet(recycled_ids) \cup {id}
        /\ NoDup(recycled_ids')
    BY <1>3, <2>1, AppendFacts DEF Dealloc
  <2>3. IdTypeOK' /\ CountOK'
    BY <1>3, <2>1, <2>2 DEF Dealloc
  <2>4. StackOK'
    BY <1>3, <2>1, <2>2 DEF Dealloc
  <2>5. OwnedOK'
    BY <1>3, <2>1, <2>2 DEF Dealloc, Ids
  <2> QED BY <2>3, <2>4, <2>5
<1>4. CASE UNCHANGED id_vars
  BY <1>4 DEF id_vars
<1> QED BY <1>1, <1>2, <1>3, <1>4 DEF IdNext

\* The allocator's fields keep their types.
THEOREM AllocatorTypes == IdSpec => []IdTypeOK
<1>1. IInv => IdTypeOK
  BY DEF IInv
<1> QED BY <1>1, InitIInv, StepIInv, PTL DEF IdSpec

\* alloc never hands out an id that a live PidHandle, KernelStack or
\* TaskUserRes still owns.
THEOREM NoIdHandedOutTwice == IdSpec => []UniqueIds
<1>1. IInv => UniqueIds
  BY DEF IInv, OwnedOK, UniqueIds
<1> QED BY <1>1, InitIInv, StepIInv, PTL DEF IdSpec

\* Dropping any live handle passes both assertions of dealloc.
THEOREM DropNeverPanics == IdSpec => []HandlesPassAsserts
<1>1. IInv => HandlesPassAsserts
  BY DEF IInv, OwnedOK, HandlesPassAsserts, DeallocAsserts
<1> QED BY <1>1, InitIInv, StepIInv, PTL DEF IdSpec

\* The number of ids ever created is the largest number of handles that were
\* live at the same time.
THEOREM IdsAreDense == IdSpec => []IdsBoundedByPeak
<1>1. IInv => IdsBoundedByPeak
  BY DEF IInv, CountOK, IdsBoundedByPeak
<1> QED BY <1>1, InitIInv, StepIInv, PTL DEF IdSpec
=============================================================================
