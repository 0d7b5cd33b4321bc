-------------------------- MODULE MemorySetLemmas ---------------------------
(***************************************************************************)
(* The first half of the proofs of MemorySet: what the operations on mem   *)
(* do to a sound memory, the inductive invariant Inv, and the actions that *)
(* make no new thread or space: system calls on pages, exits and waits.    *)
(***************************************************************************)
EXTENDS MemorySet, SeqLemmas

\* Most leaves are first-order: Zenon has a short try before the SMT solver.
USE ZenonT(6), SMTT(20), ZenonT(40)

Opt == Frame \cup {None}

\* No frame is lost or has two owners.
Sound(m) ==
  /\ m \in Mem /\ NoDup(m.recycled) /\ ToSet(m.recycled) \subseteq 0 .. m.current - 1
  /\ \A p \in Proc, s \in Slot : m.own[p][s] # None =>
       m.own[p][s] \in 0 .. m.current - 1 /\ m.own[p][s] \notin ToSet(m.recycled)
  /\ \A p, q \in Proc, r, s \in Slot :
       m.own[p][r] # None /\ m.own[p][r] = m.own[q][s] => p = q /\ r = s
  /\ \A f \in 0 .. m.current - 1 :
       f \in ToSet(m.recycled) \/ \E p \in Proc, s \in Slot : m.own[p][s] = f

\* The fields of a memory.
LEMMA MemFields ==
  ASSUME NEW m \in Mem
  PROVE  /\ m.current \in 0 .. FRAMES /\ m.recycled \in Seq(Frame)
         /\ m.own \in [Proc -> [Slot -> Opt]] /\ m.pte \in [Proc -> [Vpn -> Opt]]
         /\ m = [current |-> m.current, recycled |-> m.recycled, own |-> m.own, pte |-> m.pte]
BY DEF Mem, Opt

\* None is neither a frame nor a number.
LEMMA NoneIsNoFrame == None \notin Frame /\ None \notin Nat /\ FRAMES \in Nat
BY SMTT(30), MemoryConstants DEF Frame

-----------------------------------------------------------------------------
(* The list of a set of slots. *)

\* The list of S has the elements of S, each once.
LEMMA ListFacts ==
  ASSUME NEW S \in SUBSET Slot
  PROVE  List(S) \in Seq(Slot) /\ NoDup(List(S)) /\ ToSet(List(S)) = S
<1>1. SlotOrder \in Seq(Slot) /\ NoDup(SlotOrder) /\ ToSet(SlotOrder) = Slot
  BY MemoryConstants
<1>2. /\ Without(SlotOrder, Slot \ S) \in Seq(Slot) /\ NoDup(Without(SlotOrder, Slot \ S))
      /\ ToSet(Without(SlotOrder, Slot \ S)) = ToSet(SlotOrder) \ (Slot \ S)
  BY SMTT(30), <1>1, WithoutFacts
<1> QED BY <1>1, <1>2 DEF List

\* Every element of s is left out by T, or by exactly one of U and V.
Splits(s, T, U, V) ==
  \A i \in 1 .. Len(s) :
    IF s[i] \in T THEN s[i] \in U /\ s[i] \in V
    ELSE \/ s[i] \in U /\ s[i] \notin V
         \/ s[i] \notin U /\ s[i] \in V

\* Then the lengths of what is left add up.
LEMMA WithoutAdds ==
  ASSUME NEW S, NEW s \in Seq(S), NEW T, NEW U, NEW V, Splits(s, T, U, V)
  PROVE  Len(Without(s, T)) = Len(Without(s, U)) + Len(Without(s, V))
<1> DEFINE L == Len(s)
<1>1. L \in Nat /\ \A i \in 1 .. L : s[i] \in S
  OBVIOUS
<1>2. PICK A : WithoutSteps(s, T, A)
  BY <1>1, WithoutUnfolds
<1>3. PICK B : WithoutSteps(s, U, B)
  BY <1>1, WithoutUnfolds
<1>4. PICK C : WithoutSteps(s, V, C)
  BY <1>1, WithoutUnfolds
<1>5. Without(s, T) = A[L] /\ Without(s, U) = B[L] /\ Without(s, V) = C[L]
  BY <1>2, <1>3, <1>4 DEF WithoutSteps
<1>6. A[0] = <<>> /\ B[0] = <<>> /\ C[0] = <<>>
  BY <1>2, <1>3, <1>4 DEF WithoutSteps
<1> DEFINE Adds(n) == /\ A[n] \in Seq(S) /\ B[n] \in Seq(S) /\ C[n] \in Seq(S)
                      /\ Len(A[n]) = Len(B[n]) + Len(C[n])
           I == {n \in Nat : n <= L => Adds(n)}
<1>7. 0 \in I
  <2>1. <<>> \in Seq(S) /\ Len(<<>>) = Len(<<>>) + Len(<<>>)
    OBVIOUS
  <2>2. Adds(0)
    BY Zenon, <1>6, <2>1
  <2> HIDE DEF Adds
  <2> QED BY <2>2
<1>8. ASSUME NEW n \in Nat, n \in I PROVE n + 1 \in I
  <2>a. n + 1 \in Nat /\ (n + 1 <= L => n <= L)
    BY <1>1
  <2> SUFFICES ASSUME n + 1 <= L PROVE Adds(n + 1)
    <3> HIDE DEF Adds
    <3> QED BY <2>a
  <2>b. Adds(n)
    <3> HIDE DEF Adds
    <3> QED BY <1>8, <2>a
  <2> DEFINE a == A[n]
             b == B[n]
             c == C[n]
             x == s[n + 1]
  <2>1. a \in Seq(S) /\ b \in Seq(S) /\ c \in Seq(S) /\ Len(a) = Len(b) + Len(c)
    BY <2>b
  <2>2. x \in S /\ n + 1 \in 1 .. L
    BY <1>1
  <2>3. /\ A[n + 1] = IF x \in T THEN a ELSE Append(a, x)
        /\ B[n + 1] = IF x \in U THEN b ELSE Append(b, x)
        /\ C[n + 1] = IF x \in V THEN c ELSE Append(c, x)
    BY <1>2, <1>3, <1>4 DEF WithoutSteps
  <2>4. IF x \in T THEN x \in U /\ x \in V
        ELSE (x \in U /\ x \notin V) \/ (x \notin U /\ x \in V)
    BY <2>2 DEF Splits
  <2> HIDE DEF a, b, c, x
  <2>5. \A t \in Seq(S) : Append(t, x) \in Seq(S) /\ Len(Append(t, x)) = Len(t) + 1 /\ Len(t) \in Nat
    BY <2>2
  <2>6. CASE x \in T
    <3>1. A[n + 1] = a /\ B[n + 1] = b /\ C[n + 1] = c
      BY <2>3, <2>4, <2>6
    <3> QED BY <2>1, <3>1
  <2>7. CASE x \notin T /\ x \in U /\ x \notin V
    <3>1. /\ Len(Append(a, x)) = Len(a) + 1 /\ Len(Append(c, x)) = Len(c) + 1
          /\ Append(a, x) \in Seq(S) /\ Append(c, x) \in Seq(S)
          /\ Len(a) \in Nat /\ Len(b) \in Nat /\ Len(c) \in Nat
      BY <2>1, <2>5
    <3>2. Len(Append(a, x)) = Len(b) + Len(Append(c, x))
      <4> DEFINE la == Len(a)
                 lb == Len(b)
                 lc == Len(c)
                 ga == Len(Append(a, x))
                 gd == Len(Append(c, x))
      <4>1. ga = la + 1 /\ gd = lc + 1 /\ la = lb + lc /\ la \in Nat /\ lb \in Nat /\ lc \in Nat
        BY <2>1, <3>1
      <4> HIDE DEF la, lb, lc, ga, gd
      <4>2. ga = lb + gd
        BY <4>1
      <4> QED BY <4>2 DEF la, lb, lc, ga, gd
    <3>3. A[n + 1] = Append(a, x) /\ B[n + 1] = b /\ C[n + 1] = Append(c, x)
      BY <2>3, <2>7
    <3> QED BY <2>1, <3>1, <3>2, <3>3
  <2>8. CASE x \notin T /\ x \notin U /\ x \in V
    <3>1. /\ Len(Append(a, x)) = Len(a) + 1 /\ Len(Append(b, x)) = Len(b) + 1
          /\ Append(a, x) \in Seq(S) /\ Append(b, x) \in Seq(S)
          /\ Len(a) \in Nat /\ Len(b) \in Nat /\ Len(c) \in Nat
      BY <2>1, <2>5
    <3>2. Len(Append(a, x)) = Len(Append(b, x)) + Len(c)
      <4> DEFINE la == Len(a)
                 lb == Len(b)
                 lc == Len(c)
                 ga == Len(Append(a, x))
                 gd == Len(Append(b, x))
      <4>1. ga = la + 1 /\ gd = lb + 1 /\ la = lb + lc /\ la \in Nat /\ lb \in Nat /\ lc \in Nat
        BY <2>1, <3>1
      <4> HIDE DEF la, lb, lc, ga, gd
      <4>2. ga = gd + lc
        BY <4>1
      <4> QED BY <4>2 DEF la, lb, lc, ga, gd
    <3>3. A[n + 1] = Append(a, x) /\ B[n + 1] = Append(b, x) /\ C[n + 1] = c
      BY <2>3, <2>8
    <3> QED BY <2>1, <3>1, <3>2, <3>3
  <2> QED BY <2>4, <2>6, <2>7, <2>8
<1>9. L \in I
  <2> HIDE DEF I
  <2> QED BY <1>1, <1>7, <1>8, NatSetInduction
<1>10. Len(A[L]) = Len(B[L]) + Len(C[L])
  <2>1. L <= L
    BY <1>1
  <2>2. Adds(L)
    <3> HIDE DEF L, Adds
    <3> QED BY <1>9, <2>1
  <2> QED BY <2>2
<1> QED BY Zenon, <1>5, <1>10

\* What a set and the rest count.
LEMMA CountMinus ==
  ASSUME NEW B \in SUBSET Slot, NEW S \in SUBSET B
  PROVE  /\ Count(B) \in Nat /\ Count(S) \in Nat /\ Count(B \ S) \in Nat
         /\ Count(B) = Count(S) + Count(B \ S)
<1>1. Count(B) \in Nat /\ Count(S) \in Nat /\ Count(B \ S) \in Nat
  <2>1. List(B) \in Seq(Slot) /\ List(S) \in Seq(Slot) /\ List(B \ S) \in Seq(Slot)
    BY ListFacts
  <2> QED BY <2>1 DEF Count
<1>2. SlotOrder \in Seq(Slot) /\ \A i \in 1 .. Len(SlotOrder) : SlotOrder[i] \in Slot
  BY MemoryConstants
<1>3. Splits(SlotOrder, Slot \ B, Slot \ S, Slot \ (B \ S))
  BY <1>2 DEF Splits
<1>4. Len(Without(SlotOrder, Slot \ B))
        = Len(Without(SlotOrder, Slot \ S)) + Len(Without(SlotOrder, Slot \ (B \ S)))
  BY <1>2, <1>3, WithoutAdds
<1> QED BY <1>1, <1>4 DEF Count, List

\* A slot counts at most one.
LEMMA CountOne ==
  ASSUME NEW x \in Slot
  PROVE  Count({x}) \in Nat /\ Count({x}) <= 1
<1> DEFINE l == List({x})
<1>1. l \in Seq(Slot) /\ NoDup(l) /\ ToSet(l) = {x}
  BY ListFacts
<1> HIDE DEF l
<1>2. Len(l) \in Nat /\ \A i \in 1 .. Len(l) : l[i] = x
  <2>1. Len(l) \in Nat
    BY <1>1
  <2>2. \A i \in 1 .. Len(l) : l[i] \in {x}
    BY Zenon, <1>1, InToSet
  <2> QED BY <2>1, <2>2
<1>3. ~(Len(l) > 1)
  <2> SUFFICES ASSUME Len(l) > 1 PROVE FALSE
    OBVIOUS
  <2>1. 1 \in 1 .. Len(l) /\ 2 \in 1 .. Len(l) /\ 1 # 2
    BY <1>2
  <2> QED BY <1>1, <1>2, <2>1 DEF NoDup
<1>4. Len(l) <= 1
  BY <1>2, <1>3
<1> QED BY <1>2, <1>4 DEF Count, l

-----------------------------------------------------------------------------
(* frame_alloc, k times in a row. *)

\* The allocator after k frames were taken.
RestOf(m, k) ==
  IF k <= Len(m.recycled) THEN SubSeq(m.recycled, 1, Len(m.recycled) - k) ELSE <<>>
Top(m, k) == IF k <= Len(m.recycled) THEN m.current ELSE m.current + k - Len(m.recycled)

\* The recycled frames and the bump pointer after k calls of alloc.
LEMMA RestFacts ==
  ASSUME NEW m, Sound(m), NEW k \in Nat, k <= Len(m.recycled) + FRAMES - m.current
  PROVE  /\ RestOf(m, k) \in Seq(Frame) /\ NoDup(RestOf(m, k)) /\ Top(m, k) \in m.current .. FRAMES
         /\ Len(RestOf(m, k)) - Top(m, k) = Len(m.recycled) - m.current - k
         /\ Len(RestOf(m, k)) = IF k <= Len(m.recycled) THEN Len(m.recycled) - k ELSE 0
         /\ \A i \in 1 .. Len(RestOf(m, k)) : RestOf(m, k)[i] = m.recycled[i]
<1> DEFINE r == m.recycled
           n == Len(r)
           c == m.current
<1>1. r \in Seq(Frame) /\ c \in 0 .. FRAMES /\ NoDup(r) /\ FRAMES \in Nat /\ n \in Nat /\ n = Len(r)
  BY SMTT(30), MemFields, NoneIsNoFrame DEF Sound
<1> HIDE DEF r, c
<1>2. CASE k <= n
  <2> DEFINE e == n - k
             s == SubSeq(r, 1, e)
  <2> HIDE DEF n
  <2>1. e \in Nat /\ e <= Len(r)
    BY <1>1, <1>2
  <2> HIDE DEF e
  <2>2. s \in Seq(Frame) /\ Len(s) = e /\ \A i \in 1 .. e : s[i] = r[i]
    BY <1>1, <2>1
  <2> HIDE DEF s
  <2>3. s \in Seq(Frame) /\ Len(s) = n - k /\ \A i \in 1 .. n - k : s[i] = r[i]
    BY <2>2 DEF e
  <2>4. NoDup(s)
    BY SMTT(30), <1>1, <2>1, <2>2 DEF NoDup
  <2>5. RestOf(m, k) = s /\ Top(m, k) = c
    BY <1>2 DEF RestOf, Top, r, c, n, s, e
  <2>6. n - k - c = n - c - k /\ c \in c .. FRAMES
    BY <1>1
  <2> QED BY <1>2, <2>3, <2>4, <2>5, <2>6 DEF r, c, n
<1>3. CASE ~ k <= n
  <2> HIDE DEF n
  <2>1. RestOf(m, k) = <<>> /\ Top(m, k) = c + k - n
    BY <1>3 DEF RestOf, Top, r, c, n
  <2>2. <<>> \in Seq(Frame) /\ NoDup(<<>>) /\ Len(<<>>) = 0
    BY EmptyFacts
  <2>3. c + k - n \in c .. FRAMES /\ 0 - (c + k - n) = n - c - k
    BY <1>1, <1>3 DEF r, c, n
  <2> QED BY <1>3, <2>1, <2>2, <2>3 DEF r, c, n
<1> QED BY <1>2, <1>3

\* The first k frames that alloc hands out are new to all trackers, distinct,
\* and exactly the ones that leave the allocator.
Supplies(m, k) ==
  /\ \A i \in 1 .. k : /\ Taken(m, i) \in 0 .. Top(m, k) - 1 /\ Taken(m, i) \notin ToSet(RestOf(m, k))
                       /\ \A p \in Proc, s \in Slot : m.own[p][s] # Taken(m, i)
  /\ \A i, j \in 1 .. k : Taken(m, i) = Taken(m, j) => i = j
  /\ \A f \in 0 .. Top(m, k) - 1 :
       \/ f \in ToSet(RestOf(m, k)) \/ \E p \in Proc, s \in Slot : m.own[p][s] = f
       \/ \E i \in 1 .. k : Taken(m, i) = f

\* k calls of alloc return k different frames that were free.
LEMMA TakenSupplies ==
  ASSUME NEW m, Sound(m), NEW k \in Nat, k <= Len(m.recycled) + FRAMES - m.current
  PROVE  Supplies(m, k)
<1> DEFINE r == m.recycled
           n == Len(r)
           c == m.current
           q == RestOf(m, k)
           top == Top(m, k)
           T(i) == Taken(m, i)
<1>1. r \in Seq(Frame) /\ c \in 0 .. FRAMES /\ NoDup(r) /\ FRAMES \in Nat /\ n \in Nat /\ n = Len(r)
  BY MemFields, NoneIsNoFrame DEF Sound
<1>2. /\ q \in Seq(Frame) /\ top \in c .. FRAMES
      /\ Len(q) = IF k <= n THEN n - k ELSE 0
      /\ \A i \in 1 .. Len(q) : q[i] = r[i]
  BY RestFacts
<1>3. top = IF k <= n THEN c ELSE c + k - n
  BY DEF Top
<1>4. \A i : T(i) = IF i <= n THEN r[n + 1 - i] ELSE c + i - n - 1
  BY DEF Taken
<1>5. \A x : x \in ToSet(r) <=> \E i \in 1 .. n : r[i] = x
  BY <1>1, InToSet
<1>6. \A x : x \in ToSet(q) <=> \E i \in 1 .. Len(q) : q[i] = x
  BY <1>2, InToSet
<1>7. ToSet(r) \subseteq 0 .. c - 1 /\ \A i, j \in 1 .. n : r[i] = r[j] => i = j
  BY DEF Sound, NoDup
<1>8. \A p \in Proc, s \in Slot : m.own[p][s] # None => m.own[p][s] \in 0 .. c - 1 /\ m.own[p][s] \notin ToSet(r)
  BY DEF Sound
<1>9. \A f \in 0 .. c - 1 : f \in ToSet(r) \/ \E p \in Proc, s \in Slot : m.own[p][s] = f
  BY DEF Sound
<1>10. Len(q) \in Nat
  BY <1>2
<1> HIDE DEF r, c, q, top, T, n
<1>11. ASSUME NEW i \in 1 .. k
       PROVE  /\ T(i) \in 0 .. top - 1 /\ T(i) \notin ToSet(q)
              /\ T(i) \in ToSet(r) \/ (T(i) \in Nat /\ T(i) >= c)
  <2>1. CASE i <= n
    <3> DEFINE j == n + 1 - i
    <3>1. j \in 1 .. n /\ T(i) = r[j] /\ (k <= n => j > n - k)
      BY <1>1, <1>4, <2>1
    <3> HIDE DEF j
    <3>2. T(i) \in ToSet(r) /\ T(i) \in 0 .. c - 1
      BY <1>5, <1>7, <3>1
    <3>3. T(i) \notin ToSet(q)
      <4> SUFFICES ASSUME NEW h \in 1 .. Len(q), q[h] = r[j] PROVE FALSE
        BY <1>6, <3>1
      <4>1. h \in 1 .. n /\ h # j
        BY <1>1, <1>2, <1>10, <3>1
      <4> QED BY <1>2, <1>7, <3>1, <4>1
    <3> QED BY <1>1, <1>2, <3>2, <3>3
  <2>2. CASE ~ i <= n
    <3>1. T(i) = c + i - n - 1 /\ ~ k <= n
      BY <1>1, <1>4, <2>2
    <3>2. T(i) \in 0 .. top - 1 /\ T(i) \in Nat /\ T(i) >= c
      BY <1>1, <1>3, <2>2, <3>1
    <3>3. Len(q) = 0
      BY <1>2, <3>1
    <3>4. T(i) \notin ToSet(q)
      BY <1>6, <3>3
    <3> QED BY <3>2, <3>4
  <2> QED BY <2>1, <2>2
<1>12. ASSUME NEW i \in 1 .. k, NEW p \in Proc, NEW s \in Slot PROVE m.own[p][s] # T(i)
  <2>1. T(i) # None
    <3>1. T(i) \in 0 .. top - 1
      BY <1>11
    <3>2. T(i) \in Nat
      BY <3>1
    <3> QED BY <3>2, NoneIsNoFrame
  <2>2. CASE m.own[p][s] = None
    BY <2>1, <2>2
  <2>3. CASE m.own[p][s] # None
    <3>1. m.own[p][s] \in 0 .. c - 1 /\ m.own[p][s] \notin ToSet(r)
      BY <1>8, <2>3
    <3>2. CASE T(i) \in ToSet(r)
      BY <3>1, <3>2
    <3>3. CASE T(i) \in Nat /\ T(i) >= c
      BY <1>1, <3>1, <3>3
    <3> QED BY <1>11, <3>2, <3>3
  <2> QED BY <2>2, <2>3
<1>13. ASSUME NEW i \in 1 .. k, NEW j \in 1 .. k, T(i) = T(j) PROVE i = j
  <2>1. CASE i <= n /\ j <= n
    <3>1. T(i) = r[n + 1 - i] /\ T(j) = r[n + 1 - j] /\ n + 1 - i \in 1 .. n /\ n + 1 - j \in 1 .. n
      BY <1>1, <1>4, <2>1
    <3>2. n + 1 - i = n + 1 - j
      BY <1>7, <1>13, <3>1
    <3> QED BY <1>1, <3>2
  <2>2. CASE ~ i <= n /\ ~ j <= n
    <3>1. T(i) = c + i - n - 1 /\ T(j) = c + j - n - 1
      BY <1>4, <2>2
    <3>2. c + i - n - 1 = c + j - n - 1
      BY <1>13, <3>1
    <3> QED BY <1>1, <3>2
  <2>3. ASSUME NEW x \in 1 .. k, NEW y \in 1 .. k, x <= n, ~ y <= n PROVE T(x) # T(y)
    <3> DEFINE h == n + 1 - x
    <3>1. T(x) = r[h] /\ h \in 1 .. n
      BY <1>1, <1>4, <2>3
    <3> HIDE DEF h
    <3>2. T(x) \in 0 .. c - 1
      BY <1>5, <1>7, <3>1
    <3>3. T(y) = c + y - n - 1 /\ T(y) >= c
      BY <1>1, <1>4, <2>3
    <3> QED BY <1>1, <3>2, <3>3
  <2> QED BY <1>13, <2>1, <2>2, <2>3
<1>14. ASSUME NEW f \in 0 .. top - 1
       PROVE  \/ f \in ToSet(q) \/ \E p \in Proc, s \in Slot : m.own[p][s] = f
              \/ \E i \in 1 .. k : T(i) = f
  <2>1. CASE f < c
    <3>1. f \in 0 .. c - 1
      BY <1>1, <2>1
    <3>2. SUFFICES ASSUME f \in ToSet(r), f \notin ToSet(q) PROVE \E i \in 1 .. k : T(i) = f
      BY <1>9, <3>1
    <3>3. PICK h \in 1 .. n : r[h] = f
      BY <1>5, <3>2
    <3>4. ~ h \in 1 .. Len(q)
      BY <1>2, <1>6, <3>2, <3>3
    <3> DEFINE i == n + 1 - h
    <3>5. i \in 1 .. k /\ i <= n /\ n + 1 - i = h
      BY <1>1, <1>2, <1>10, <3>4
    <3> HIDE DEF i
    <3>6. T(i) = f
      BY <1>4, <3>3, <3>5
    <3> QED BY <3>5, <3>6
  <2>2. CASE ~ f < c
    <3> DEFINE i == f - c + n + 1
    <3>1. i \in 1 .. k /\ ~ i <= n /\ c + i - n - 1 = f
      BY <1>1, <1>3, <2>2
    <3> HIDE DEF i
    <3>2. T(i) = f
      BY <1>4, <3>1
    <3> QED BY <3>1, <3>2
  <2> QED BY <2>1, <2>2
<1> QED BY <1>11, <1>12, <1>13, <1>14 DEF Supplies, T, q, top

-----------------------------------------------------------------------------
(* New trackers. *)

\* R is m with frames for the slots S of p, none of which had one.
Grabbed(m, R, p, S) ==
  /\ Sound(R) /\ R.pte = m.pte
  /\ \A q \in Proc \ {p} : R.own[q] = m.own[q]
  /\ \A s \in Slot \ S : R.own[p][s] = m.own[p][s]
  /\ \A s \in S : R.own[p][s] \in Frame
  /\ \A B \in SUBSET Slot : S \subseteq B /\ Fits(m, B) => Fits(R, B \ S)

\* The frames of the slots of p after Grab.
NewOwn(m, p, S) ==
  [s \in Slot |-> IF s \in S THEN Taken(m, CHOOSE i \in 1 .. Len(List(S)) : List(S)[i] = s)
                 ELSE m.own[p][s]]

\* The fields of the memory after Grab.
LEMMA GrabFields ==
  ASSUME NEW m \in Mem, NEW p \in Proc, NEW S \in SUBSET Slot
  PROVE  Grab(m, p, S) =
           [current |-> Top(m, Len(List(S))), recycled |-> RestOf(m, Len(List(S))), pte |-> m.pte,
            own |-> [m.own EXCEPT ![p] = NewOwn(m, p, S)]]
<1> DEFINE k == Len(List(S))
           F == NewOwn(m, p, S)
           R == Grab(m, p, S)
<1>1. R = [m EXCEPT !.recycled = RestOf(m, k), !.current = Top(m, k), !.own[p] = F]
  BY DEF Grab, RestOf, Top, NewOwn
<1> HIDE DEF F, R, k
<1>2. m = [current |-> m.current, recycled |-> m.recycled, own |-> m.own, pte |-> m.pte]
  BY MemFields
<1>3. R = [current |-> Top(m, k), recycled |-> RestOf(m, k), pte |-> m.pte, own |-> [m.own EXCEPT ![p] = F]]
  BY <1>1, <1>2
<1> QED BY <1>3 DEF F, R, k

\* Grab hands out free frames: the memory stays sound.
LEMMA GrabFacts ==
  ASSUME NEW m, Sound(m), NEW p \in Proc, NEW S \in SUBSET Slot, Fits(m, S),
         \A s \in S : m.own[p][s] = None, NEW R, R = Grab(m, p, S)
  PROVE  Grabbed(m, R, p, S)
<1> DEFINE l == List(S)
           k == Len(l)
           pos(s) == CHOOSE i \in 1 .. k : l[i] = s
           T(i) == Taken(m, i)
           q == RestOf(m, k)
           top == Top(m, k)
           F == NewOwn(m, p, S)
<1>1. m \in Mem
  BY DEF Sound
<1>2. l \in Seq(Slot) /\ NoDup(l) /\ ToSet(l) = S /\ k = Count(S) /\ k \in Nat
  BY ListFacts DEF Count
<1>3. R = [current |-> top, recycled |-> q, pte |-> m.pte, own |-> [m.own EXCEPT ![p] = F]]
  BY <1>1, GrabFields
<1>4. k <= Len(m.recycled) + FRAMES - m.current
  BY <1>2 DEF Fits
<1>5. Supplies(m, k)
  BY <1>2, <1>4, TakenSupplies
<1>6. q \in Seq(Frame) /\ NoDup(q) /\ top \in m.current .. FRAMES
      /\ Len(q) - top = Len(m.recycled) - m.current - k
      /\ \A i \in 1 .. Len(q) : q[i] = m.recycled[i]
      /\ Len(q) = IF k <= Len(m.recycled) THEN Len(m.recycled) - k ELSE 0
  BY <1>2, <1>4, RestFacts
<1>7. /\ m.current \in 0 .. FRAMES /\ m.recycled \in Seq(Frame)
      /\ m.own \in [Proc -> [Slot -> Opt]] /\ m.pte \in [Proc -> [Vpn -> Opt]]
  BY <1>1, MemFields
<1>8. \A s \in S : pos(s) \in 1 .. k /\ l[pos(s)] = s
  BY <1>2, InToSet
<1>9. /\ \A i \in 1 .. k : /\ T(i) \in 0 .. top - 1 /\ T(i) \notin ToSet(q)
                          /\ \A p_1 \in Proc, s \in Slot : m.own[p_1][s] # T(i)
      /\ \A i, j \in 1 .. k : T(i) = T(j) => i = j
      /\ \A f \in 0 .. top - 1 :
           \/ f \in ToSet(q) \/ \E p_1 \in Proc, s \in Slot : m.own[p_1][s] = f
           \/ \E i \in 1 .. k : T(i) = f
  BY <1>5 DEF Supplies
<1>10. \A i \in 1 .. k : l[i] \in S /\ pos(l[i]) = i
  BY <1>2, <1>8, InToSet DEF NoDup
<1>11. FRAMES \in Nat /\ None \notin Nat
  BY NoneIsNoFrame
<1>12. \A s \in Slot : F[s] = IF s \in S THEN T(pos(s)) ELSE m.own[p][s]
  BY DEF NewOwn
<1>13. F = [s \in Slot |-> F[s]]
  BY SMTT(30) DEF NewOwn
<1> HIDE DEF l, k, pos, T, q, top, F
<1>14. \A i \in 1 .. k : T(i) \in Frame
  BY SMTT(30), <1>6, <1>7, <1>9, <1>11 DEF Frame
<1>15. F \in [Slot -> Opt]
  <2>1. \A s \in Slot : F[s] \in Opt
    BY SMTT(30), <1>7, <1>8, <1>14, <1>12 DEF Opt
  <2> QED BY <1>13, <2>1
<1>16. R.own = [m.own EXCEPT ![p] = F] /\ R.current = top /\ R.recycled = q /\ R.pte = m.pte
  BY SMTT(30), <1>3
<1>17. R.own \in [Proc -> [Slot -> Opt]] /\ R.own[p] = F /\ \A p_1 \in Proc \ {p} : R.own[p_1] = m.own[p_1]
  BY <1>7, <1>15, <1>16
<1>18. R \in Mem
  <2>1. top \in 0 .. FRAMES
    BY SMTT(30), <1>6, <1>7, <1>11
  <2>2. R.own \in [Proc -> [Slot -> Frame \cup {None}]] /\ m.pte \in [Proc -> [Vpn -> Frame \cup {None}]]
    BY <1>7, <1>17 DEF Opt
  <2> QED BY SMTT(30), <1>3, <1>6, <2>1, <2>2 DEF Mem
<1>19. \A s \in S : F[s] = T(pos(s)) /\ F[s] \in Frame
  BY <1>8, <1>14, <1>12
<1>20. \A s \in Slot \ S : F[s] = m.own[p][s]
  BY <1>12
<1>21. \A x : x \in ToSet(q) => x \in ToSet(m.recycled)
  <2> SUFFICES ASSUME NEW x \in ToSet(q) PROVE x \in ToSet(m.recycled)
    OBVIOUS
  <2>1. PICK i \in 1 .. Len(q) : q[i] = x
    BY <1>6, InToSet
  <2>2. m.recycled[i] = x /\ i \in 1 .. Len(m.recycled)
    <3>1. Len(m.recycled) \in Nat /\ Len(q) \in Nat
      BY SMTT(30), <1>6, <1>7
    <3> QED BY <1>2, <1>6, <2>1, <3>1
  <2> QED BY <1>7, <2>2, InToSet
<1>22. ToSet(q) \subseteq 0 .. R.current - 1
  <2>1. ToSet(m.recycled) \subseteq 0 .. m.current - 1
    BY DEF Sound
  <2> QED BY SMTT(30), <1>6, <1>7, <1>16, <1>21, <2>1
<1>23. ASSUME NEW p_1 \in Proc, NEW s \in Slot, R.own[p_1][s] # None
       PROVE  R.own[p_1][s] \in 0 .. top - 1 /\ R.own[p_1][s] \notin ToSet(q)
  <2>1. CASE p_1 = p /\ s \in S
    BY SMTT(30), <1>8, <1>9, <1>17, <1>19, <2>1
  <2>2. CASE ~(p_1 = p /\ s \in S)
    <3>1. R.own[p_1][s] = m.own[p_1][s]
      BY <1>17, <1>20, <2>2
    <3>2. m.own[p_1][s] \in 0 .. m.current - 1 /\ m.own[p_1][s] \notin ToSet(m.recycled)
      BY <1>23, <3>1 DEF Sound
    <3>3. m.own[p_1][s] \in 0 .. top - 1
      BY SMTT(30), <1>6, <1>7, <3>2
    <3> QED BY <1>21, <3>1, <3>2, <3>3
  <2> QED BY <2>1, <2>2
<1>24. ASSUME NEW p1 \in Proc, NEW p2 \in Proc, NEW r \in Slot, NEW s \in Slot,
              R.own[p1][r] # None, R.own[p1][r] = R.own[p2][s]
       PROVE  p1 = p2 /\ r = s
  <2>1. \A x \in Proc, y \in Slot : ~(x = p /\ y \in S) => R.own[x][y] = m.own[x][y]
    BY <1>17, <1>20
  <2>2. \A x \in Proc, y \in Slot : x = p /\ y \in S =>
          R.own[x][y] = T(pos(y)) /\ \A x2 \in Proc, y2 \in Slot : m.own[x2][y2] # R.own[x][y]
    BY SMTT(30), <1>8, <1>9, <1>17, <1>19
  <2>3. CASE p1 = p /\ r \in S /\ p2 = p /\ s \in S
    <3>1. T(pos(r)) = T(pos(s))
      BY SMTT(30), <1>24, <2>2, <2>3
    <3>2. pos(r) = pos(s)
      BY <1>8, <1>9, <2>3, <3>1
    <3> QED BY <1>8, <2>3, <3>2
  <2>4. CASE ~(p1 = p /\ r \in S) /\ ~(p2 = p /\ s \in S)
    <3>1. m.own[p1][r] # None /\ m.own[p1][r] = m.own[p2][s]
      BY <1>24, <2>1, <2>4
    <3> QED BY SMTT(30), <3>1 DEF Sound
  <2>5. CASE (p1 = p /\ r \in S) /\ ~(p2 = p /\ s \in S)
    BY SMTT(30), <1>24, <2>1, <2>2, <2>5
  <2>6. CASE ~(p1 = p /\ r \in S) /\ (p2 = p /\ s \in S)
    BY SMTT(30), <1>24, <2>1, <2>2, <2>6
  <2> QED BY <2>3, <2>4, <2>5, <2>6
<1>25. ASSUME NEW f \in 0 .. top - 1
       PROVE  f \in ToSet(q) \/ \E p_1 \in Proc, s \in Slot : R.own[p_1][s] = f
  <2>1. CASE \E p_1 \in Proc, s \in Slot : m.own[p_1][s] = f
    <3>1. PICK p_1 \in Proc, s \in Slot : m.own[p_1][s] = f
      BY <2>1
    <3>2. f \in Nat
      OBVIOUS
    <3>3. ~(p_1 = p /\ s \in S)
      BY <1>11, <3>1, <3>2
    <3>4. R.own[p_1][s] = f
      BY <1>17, <1>20, <3>1, <3>3
    <3> QED BY <3>4
  <2>2. CASE \E i \in 1 .. k : T(i) = f
    <3>1. PICK i \in 1 .. k : T(i) = f
      BY <2>2
    <3>2. R.own[p][l[i]] = f
      BY <1>10, <1>17, <1>19, <3>1
    <3> QED BY <1>10, <3>2
  <2> QED BY <1>9, <2>1, <2>2
<1>26. Sound(R)
  BY SMTT(30), <1>6, <1>16, <1>18, <1>22, <1>23, <1>24, <1>25 DEF Sound
<1>27. ASSUME NEW B \in SUBSET Slot, S \subseteq B, Fits(m, B) PROVE Fits(R, B \ S)
  <2>1. Count(B) \in Nat /\ Count(B \ S) \in Nat /\ Count(B) = Count(S) + Count(B \ S)
    BY <1>27, CountMinus
  <2>4. Count(B \ S) = Count(B) - k
    BY <1>2, <2>1
  <2> DEFINE b == Count(B)
             n == Len(m.recycled)
             c == m.current
             h == Len(q)
  <2>5. b <= n + FRAMES - c /\ b \in Nat /\ n \in Nat /\ c \in 0 .. FRAMES /\ h \in Nat
        /\ h - top = n - c - k /\ top \in c .. FRAMES /\ k \in Nat
    BY SMTT(30), <1>2, <1>6, <1>7, <1>27, <2>1 DEF Fits
  <2> HIDE DEF b, n, c, h
  <2>6. b - k <= h + FRAMES - top
    BY <1>11, <2>5
  <2> QED BY <1>16, <2>4, <2>6 DEF Fits, b, h
<1> QED BY <1>16, <1>17, <1>19, <1>20, <1>26, <1>27 DEF Grabbed

-----------------------------------------------------------------------------
(* Dropped trackers. *)

\* R is m without frames for the slots S of p.
Dropped(m, R, p, S) ==
  /\ Sound(R) /\ R.pte = m.pte
  /\ \A q \in Proc \ {p} : R.own[q] = m.own[q]
  /\ \A s \in Slot \ S : R.own[p][s] = m.own[p][s]
  /\ \A s \in S : R.own[p][s] = None

Frees(m, p, S) == LET l == List({s \in S : m.own[p][s] # None}) IN [i \in DOMAIN l |-> m.own[p][l[i]]]
Left(m, p, S) == [s \in Slot |-> IF s \in S THEN None ELSE m.own[p][s]]

\* The fields of the memory after Drop.
LEMMA DropFields ==
  ASSUME NEW m \in Mem, NEW p \in Proc, NEW S \in SUBSET Slot
  PROVE  Drop(m, p, S) =
           [current |-> m.current, recycled |-> m.recycled \o Frees(m, p, S), pte |-> m.pte,
            own |-> [m.own EXCEPT ![p] = Left(m, p, S)]]
<1> DEFINE f == Frees(m, p, S)
           F == Left(m, p, S)
           R == Drop(m, p, S)
<1>1. R = [m EXCEPT !.recycled = m.recycled \o f, !.own[p] = F]
  BY DEF Drop, Frees, Left
<1> HIDE DEF F, R, f
<1>2. m = [current |-> m.current, recycled |-> m.recycled, own |-> m.own, pte |-> m.pte]
  BY MemFields
<1>3. R = [current |-> m.current, recycled |-> m.recycled \o f, pte |-> m.pte, own |-> [m.own EXCEPT ![p] = F]]
  BY <1>1, <1>2
<1> QED BY <1>3 DEF F, R, f

\* The frames that Drop gives back.
LEMMA FreesFacts ==
  ASSUME NEW m, Sound(m), NEW p \in Proc, NEW S \in SUBSET Slot
  PROVE  /\ Frees(m, p, S) \in Seq(Frame) /\ NoDup(Frees(m, p, S))
         /\ \A f : f \in ToSet(Frees(m, p, S)) <=> \E s \in S : m.own[p][s] = f /\ f # None
<1> DEFINE D == {s \in S : m.own[p][s] # None}
           l == List(D)
           n == Len(l)
           x == Frees(m, p, S)
<1>1. l \in Seq(Slot) /\ NoDup(l) /\ ToSet(l) = D
  BY ListFacts
<1>2. x = [i \in 1 .. n |-> m.own[p][l[i]]] /\ n \in Nat
  BY <1>1 DEF Frees
<1>3. m \in Mem
  BY DEF Sound
<1>4. m.own \in [Proc -> [Slot -> Opt]]
  BY <1>3, MemFields
<1>5. \A s : s \in D <=> \E i \in 1 .. n : l[i] = s
  BY <1>1, InToSet
<1>6. \A i, j \in 1 .. n : l[i] = l[j] => i = j
  BY <1>1 DEF NoDup
<1>7. \A s : s \in D <=> s \in S /\ m.own[p][s] # None
  OBVIOUS
<1> HIDE DEF D, l, n, x
<1>8. \A i \in 1 .. n : l[i] \in Slot /\ l[i] \in S /\ m.own[p][l[i]] # None /\ m.own[p][l[i]] \in Frame
  BY SMTT(30), <1>4, <1>5, <1>7 DEF Opt
<1>9. x \in Seq(Frame) /\ Len(x) = n
  BY <1>2, <1>8
<1>10. \A i \in 1 .. n : x[i] = m.own[p][l[i]]
  BY <1>2
<1>11. NoDup(x)
  <2> SUFFICES ASSUME NEW i \in 1 .. n, NEW j \in 1 .. n, x[i] = x[j] PROVE i = j
    BY <1>9 DEF NoDup
  <2>1. l[i] = l[j]
    BY SMTT(30), <1>8, <1>10 DEF Sound
  <2> QED BY <1>6, <2>1
<1>12. \A f : f \in ToSet(x) <=> \E i \in 1 .. n : x[i] = f
  BY <1>9, InToSet
<1>13. \A f : f \in ToSet(x) <=> \E s \in S : m.own[p][s] = f /\ f # None
  BY SMTT(30), <1>5, <1>7, <1>8, <1>10, <1>12
<1> QED BY <1>9, <1>11, <1>13 DEF x

\* The elements of a concatenation, and when none is repeated.
LEMMA ConcatSet ==
  ASSUME NEW S, NEW a \in Seq(S), NEW b \in Seq(S)
  PROVE  /\ a \o b \in Seq(S) /\ ToSet(a \o b) = ToSet(a) \cup ToSet(b)
         /\ NoDup(a) /\ NoDup(b) /\ ToSet(a) \cap ToSet(b) = {} => NoDup(a \o b)
<1> DEFINE c == a \o b
           m == Len(a)
           n == Len(b)
<1>1. /\ c \in Seq(S) /\ Len(c) = m + n
      /\ \A i \in 1 .. m + n : c[i] = IF i <= m THEN a[i] ELSE b[i - m]
  BY ConcatFacts
<1>2. /\ m \in Nat /\ n \in Nat
      /\ \A x : x \in ToSet(a) <=> \E i \in 1 .. m : a[i] = x
      /\ \A x : x \in ToSet(b) <=> \E i \in 1 .. n : b[i] = x
      /\ \A x : x \in ToSet(c) <=> \E i \in 1 .. m + n : c[i] = x
  <2>1. \A x : x \in ToSet(a) <=> \E i \in 1 .. m : a[i] = x
    BY InToSet
  <2>2. \A x : x \in ToSet(b) <=> \E i \in 1 .. n : b[i] = x
    BY InToSet
  <2>3. \A x : x \in ToSet(c) <=> \E i \in 1 .. Len(c) : c[i] = x
    BY <1>1, InToSet, Zenon
  <2>4. m \in Nat /\ n \in Nat
    OBVIOUS
  <2> QED BY <1>1, <2>1, <2>2, <2>3, <2>4
<1>3. NoDup(a) => \A i, j \in 1 .. m : a[i] = a[j] => i = j
  BY DEF NoDup
<1>4. NoDup(b) => \A i, j \in 1 .. n : b[i] = b[j] => i = j
  BY DEF NoDup
<1> HIDE DEF c, m, n
<1>5. \A i \in 1 .. m : i \in 1 .. m + n /\ c[i] = a[i]
  BY SMTT(30), <1>1, <1>2
<1>6. \A i \in 1 .. n : m + i \in 1 .. m + n /\ c[m + i] = b[i]
  <2> TAKE i \in 1 .. n
  <2> DEFINE h == m + i
  <2>1. h \in 1 .. m + n /\ ~ h <= m /\ h - m = i
    BY <1>2
  <2> HIDE DEF h
  <2>2. c[h] = b[i]
    BY <1>1, <2>1
  <2> QED BY <2>1, <2>2 DEF h
<1>7. \A i \in 1 .. m + n : i \in 1 .. m \/ \E j \in 1 .. n : i = m + j
  <2> TAKE i \in 1 .. m + n
  <2>1. CASE i <= m
    BY <1>2, <2>1
  <2>2. CASE ~ i <= m
    <3>1. i - m \in 1 .. n /\ i = m + (i - m)
      BY <1>2, <2>2
    <3> QED BY <3>1
  <2> QED BY <2>1, <2>2
<1>8. ToSet(c) = ToSet(a) \cup ToSet(b)
  <2>1. ASSUME NEW x \in ToSet(c) PROVE x \in ToSet(a) \/ x \in ToSet(b)
    <3>1. PICK i \in 1 .. m + n : c[i] = x
      BY <1>2
    <3>2. CASE i \in 1 .. m
      BY <1>2, <1>5, <3>1, <3>2
    <3>3. CASE \E j \in 1 .. n : i = m + j
      <4>1. PICK j \in 1 .. n : i = m + j
        BY <3>3
      <4>2. x = b[j]
        BY <1>6, <3>1, <4>1
      <4> QED BY <1>2, <4>2
    <3> QED BY <1>7, <3>2, <3>3
  <2>2. ASSUME NEW x \in ToSet(a) PROVE x \in ToSet(c)
    BY <1>2, <1>5
  <2>3. ASSUME NEW x \in ToSet(b) PROVE x \in ToSet(c)
    BY <1>2, <1>6
  <2> QED BY <2>1, <2>2, <2>3
<1>9. ASSUME NoDup(a), NoDup(b), ToSet(a) \cap ToSet(b) = {} PROVE NoDup(c)
  <2> SUFFICES ASSUME NEW i \in 1 .. m + n, NEW j \in 1 .. m + n, c[i] = c[j] PROVE i = j
    BY <1>1 DEF NoDup
  <2>1. CASE i \in 1 .. m /\ j \in 1 .. m
    BY <1>3, <1>5, <1>9, <2>1
  <2>2. CASE (\E h \in 1 .. n : i = m + h) /\ \E h \in 1 .. n : j = m + h
    BY SMTT(30), <1>4, <1>6, <1>9, <2>2
  <2>3. ASSUME NEW g \in 1 .. m, NEW h \in 1 .. n PROVE c[g] # c[m + h]
    <3>1. c[g] \in ToSet(a) /\ c[m + h] \in ToSet(b)
      BY <1>2, <1>5, <1>6
    <3> QED BY <1>9, <3>1
  <2> QED BY <1>7, <2>1, <2>2, <2>3
<1> QED BY <1>1, <1>8, <1>9 DEF c

\* Drop gives the frames back: the memory stays sound.
LEMMA DropFacts ==
  ASSUME NEW m, Sound(m), NEW p \in Proc, NEW S \in SUBSET Slot, NEW R, R = Drop(m, p, S)
  PROVE  Dropped(m, R, p, S)
<1> DEFINE x == Frees(m, p, S)
           F == Left(m, p, S)
           rec == m.recycled
<1>1. m \in Mem
  BY DEF Sound
<1>2. R = [current |-> m.current, recycled |-> rec \o x, pte |-> m.pte, own |-> [m.own EXCEPT ![p] = F]]
  BY <1>1, DropFields
<1>3. /\ m.current \in 0 .. FRAMES /\ rec \in Seq(Frame)
      /\ m.own \in [Proc -> [Slot -> Opt]] /\ m.pte \in [Proc -> [Vpn -> Opt]]
  BY <1>1, MemFields
<1>4. /\ x \in Seq(Frame) /\ NoDup(x)
      /\ \A f : f \in ToSet(x) <=> \E s \in S : m.own[p][s] = f /\ f # None
  BY FreesFacts
<1>5. F = [s \in Slot |-> IF s \in S THEN None ELSE m.own[p][s]]
  BY DEF Left
<1>6. NoDup(rec) /\ ToSet(rec) \subseteq 0 .. m.current - 1
  BY DEF Sound
<1> HIDE DEF x, F, rec
<1>7. ToSet(rec) \cap ToSet(x) = {}
  BY SMTT(30), <1>4 DEF Sound, rec
<1>8. rec \o x \in Seq(Frame) /\ ToSet(rec \o x) = ToSet(rec) \cup ToSet(x) /\ NoDup(rec \o x)
  BY SMTT(30), <1>3, <1>4, <1>6, <1>7, ConcatSet
<1>9. R.own = [m.own EXCEPT ![p] = F] /\ R.current = m.current /\ R.recycled = rec \o x /\ R.pte = m.pte
  BY <1>2
<1>10. \A s \in Slot : F[s] = IF s \in S THEN None ELSE m.own[p][s]
  BY <1>5
<1>11. F \in [Slot -> Opt]
  BY SMTT(30), <1>3, <1>5 DEF Opt
<1>12. R.own \in [Proc -> [Slot -> Opt]] /\ R.own[p] = F /\ \A q \in Proc \ {p} : R.own[q] = m.own[q]
  BY <1>3, <1>9, <1>11
<1>13. R \in Mem
  <2>1. R.own \in [Proc -> [Slot -> Frame \cup {None}]] /\ m.pte \in [Proc -> [Vpn -> Frame \cup {None}]]
    BY <1>3, <1>12 DEF Opt
  <2> QED BY SMTT(30), <1>2, <1>3, <1>8, <2>1 DEF Mem
<1>14. \A q \in Proc, s \in Slot : R.own[q][s] = IF q = p /\ s \in S THEN None ELSE m.own[q][s]
  BY <1>10, <1>12
<1>15. ToSet(R.recycled) \subseteq 0 .. R.current - 1
  BY SMTT(30), <1>4, <1>6, <1>8, <1>9 DEF Sound
<1>16. ASSUME NEW q \in Proc, NEW s \in Slot, R.own[q][s] # None
       PROVE  R.own[q][s] \in 0 .. R.current - 1 /\ R.own[q][s] \notin ToSet(R.recycled)
  <2>1. R.own[q][s] = m.own[q][s] /\ ~(q = p /\ s \in S)
    BY <1>14, <1>16
  <2>2. m.own[q][s] \in 0 .. m.current - 1 /\ m.own[q][s] \notin ToSet(rec)
    BY <1>16, <2>1 DEF Sound, rec
  <2>3. m.own[q][s] \notin ToSet(x)
    BY SMTT(30), <1>4, <1>16, <2>1 DEF Sound
  <2> QED BY <1>8, <1>9, <2>1, <2>2, <2>3
<1>17. ASSUME NEW p1 \in Proc, NEW p2 \in Proc, NEW r \in Slot, NEW s \in Slot,
              R.own[p1][r] # None, R.own[p1][r] = R.own[p2][s]
       PROVE  p1 = p2 /\ r = s
  <2>1. m.own[p1][r] # None /\ m.own[p1][r] = m.own[p2][s]
    BY <1>14, <1>17
  <2> QED BY SMTT(30), <2>1 DEF Sound
<1>18. ASSUME NEW f \in 0 .. R.current - 1
       PROVE  f \in ToSet(R.recycled) \/ \E q \in Proc, s \in Slot : R.own[q][s] = f
  <2>1. CASE f \in ToSet(rec)
    BY <1>8, <1>9, <2>1
  <2>2. CASE \E q \in Proc, s \in Slot : m.own[q][s] = f
    <3>1. PICK q \in Proc, s \in Slot : m.own[q][s] = f
      BY <2>2
    <3>2. CASE q = p /\ s \in S
      <4>1. f # None
        BY NoneIsNoFrame
      <4>2. f \in ToSet(x)
        BY <1>4, <3>1, <3>2, <4>1
      <4> QED BY <1>8, <1>9, <4>2
    <3>3. CASE ~(q = p /\ s \in S)
      BY <1>14, <3>1, <3>3
    <3> QED BY <3>2, <3>3
  <2> QED BY <1>9, <2>1, <2>2 DEF Sound, rec
<1>19. Sound(R)
  BY SMTT(30), <1>8, <1>9, <1>13, <1>15, <1>16, <1>17, <1>18 DEF Sound
<1> QED BY <1>9, <1>10, <1>12, <1>19 DEF Dropped

-----------------------------------------------------------------------------
(* Page tables. *)

Kinds == {"heap", "mmap", "area"}

\* The kinds of slots.
LEMMA SlotFacts ==
  /\ \A kind \in Kinds, v \in Vpn : <<kind, v>> \in Slot /\ <<kind, v>>[1] = kind /\ <<kind, v>>[2] = v
  /\ \A v \in Vpn : Table(v) \in Slot /\ Table(v)[1] = "table"
  /\ \A k \in Kid : Kstack(k) \in Slot /\ Kstack(k)[1] = "kstack" /\ Kstack(k)[2] = k
  /\ Root \in Slot /\ Root[1] = "root" /\ Bare \in Slot /\ Bare[1] = "bare"
BY DEF Kinds, Slot, Tables, Table, Kstack, Root, Bare

\* The slots N that mapping the pages V of p takes frames for.
Needs(m, p, kind, V, N) ==
  /\ N \in SUBSET Slot
  /\ \A s \in N : m.own[p][s] = None \/ \E v \in V : s = <<kind, v>>
  /\ \A v \in V : <<kind, v>> \in N
  /\ \A s \in Slot : s \in N => s[1] = "table" \/ s[1] = kind
  /\ \A j \in Kinds, v \in Vpn : <<j, v>> \in N => j = kind /\ v \in V
  /\ \A s \in N : s \in Slots(kind, V) \cup Tables(V)

\* The slots that Map takes frames for.
LEMMA NeededFacts ==
  ASSUME NEW m, NEW p, NEW kind \in Kinds, NEW V \in SUBSET Vpn
  PROVE  Needs(m, p, kind, V, Needed(m, p, kind, V))
<1> DEFINE N == Needed(m, p, kind, V)
<1>1. N = Slots(kind, V) \cup {s \in Tables(V) : m.own[p][s] = None}
  BY DEF Needed
<1>2. \A s : s \in Slots(kind, V) <=> \E v \in V : s = <<kind, v>>
  BY DEF Slots
<1>3. \A s : s \in Tables(V) <=> \E v \in V : s = Table(v)
  BY DEF Tables
<1>4. \A s \in N : (\E v \in V : s = <<kind, v>>) \/ (m.own[p][s] = None /\ \E v \in V : s = Table(v))
  BY <1>1, <1>2, <1>3
<1>5. N \in SUBSET Slot /\ \A s \in N : s[1] = "table" \/ s[1] = kind
  BY SMTT(30), <1>4, SlotFacts
<1>6. \A j \in Kinds, v \in Vpn : <<j, v>> \in N => j = kind /\ v \in V
  <2> SUFFICES ASSUME NEW j \in Kinds, NEW v \in Vpn, <<j, v>> \in N PROVE j = kind /\ v \in V
    OBVIOUS
  <2>1. <<j, v>>[1] = j /\ <<j, v>>[2] = v /\ j # "table"
    BY DEF Kinds
  <2>2. PICK w \in V : <<j, v>> = <<kind, w>> \/ <<j, v>> = Table(w)
    BY <1>4
  <2>3. <<j, v>> # Table(w)
    BY SMTT(30), <2>1, SlotFacts
  <2> QED BY <2>2, <2>3
<1> QED BY <1>1, <1>2, <1>4, <1>5, <1>6 DEF Needs

\* R is m with the page table F for p.
Repaged(m, R, p, F) ==
  /\ Sound(R) /\ R.own = m.own /\ R.pte[p] = F /\ \A q \in Proc \ {p} : R.pte[q] = m.pte[q]
  /\ \A B : Fits(R, B) <=> Fits(m, B)

\* Entries of a page table do not matter to the allocator.
LEMMA PteFacts ==
  ASSUME NEW m, Sound(m), NEW p \in Proc, NEW F \in [Vpn -> Opt], NEW R, R = [m EXCEPT !.pte[p] = F]
  PROVE  Repaged(m, R, p, F)
<1>1. m \in Mem
  BY DEF Sound
<1>2. /\ m.current \in 0 .. FRAMES /\ m.recycled \in Seq(Frame)
      /\ m.own \in [Proc -> [Slot -> Opt]] /\ m.pte \in [Proc -> [Vpn -> Opt]]
  BY <1>1, MemFields
<1> DEFINE P == [m.pte EXCEPT ![p] = F]
<1>3. R = [current |-> m.current, recycled |-> m.recycled, own |-> m.own, pte |-> P]
  <2>1. m = [current |-> m.current, recycled |-> m.recycled, own |-> m.own, pte |-> m.pte]
    BY <1>1, MemFields
  <2> QED BY <2>1
<1>4. P \in [Proc -> [Vpn -> Opt]] /\ P[p] = F /\ \A q \in Proc \ {p} : P[q] = m.pte[q]
  BY <1>2
<1> HIDE DEF P
<1>5. R.current = m.current /\ R.recycled = m.recycled /\ R.own = m.own /\ R.pte = P
  BY SMTT(30), <1>3
<1>6. R \in Mem
  <2>1. m.own \in [Proc -> [Slot -> Frame \cup {None}]] /\ P \in [Proc -> [Vpn -> Frame \cup {None}]]
    BY <1>2, <1>4 DEF Opt
  <2>2. m.current \in 0 .. FRAMES /\ m.recycled \in Seq(Frame)
    BY <1>2
  <2> DEFINE c == m.current
             r == m.recycled
             o == m.own
  <2> HIDE DEF c, r, o
  <2> SUFFICES [current |-> c, recycled |-> r, own |-> o, pte |-> P] \in Mem
    BY <1>3 DEF c, r, o
  <2> QED BY <2>1, <2>2 DEF Mem, c, r, o
<1>7. Sound(R)
  BY SMTT(30), <1>5, <1>6 DEF Sound
<1> QED BY <1>4, <1>5, <1>7 DEF Fits, Repaged

\* R is m with the pages V of p mapped under new trackers of this kind.
Mapped(m, R, p, kind, V) ==
  LET N == Needed(m, p, kind, V) IN
  /\ Sound(R)
  /\ \A q \in Proc \ {p} : R.own[q] = m.own[q] /\ R.pte[q] = m.pte[q]
  /\ \A s \in Slot \ N : R.own[p][s] = m.own[p][s]
  /\ \A s \in N : R.own[p][s] \in Frame
  /\ \A v \in V : R.pte[p][v] = R.own[p][<<kind, v>>]
  /\ \A v \in Vpn \ V : R.pte[p][v] = m.pte[p][v]
  /\ \A B \in SUBSET Slot : N \subseteq B /\ Fits(m, B) => Fits(R, B \ N)

\* Map of pages without trackers of this kind.
LEMMA MapFacts ==
  ASSUME NEW m, Sound(m), NEW p \in Proc, NEW kind \in Kinds, NEW V \in SUBSET Vpn,
         Fits(m, Needed(m, p, kind, V)), \A v \in V : m.own[p][<<kind, v>>] = None,
         NEW R, R = Map(m, p, kind, V)
  PROVE  Mapped(m, R, p, kind, V)
<1> DEFINE N == Needed(m, p, kind, V)
           n == Grab(m, p, N)
           F == [v \in Vpn |-> IF v \in V THEN n.own[p][<<kind, v>>] ELSE n.pte[p][v]]
<1>1. /\ N \in SUBSET Slot
      /\ \A s \in N : m.own[p][s] = None \/ \E v \in V : s = <<kind, v>>
      /\ \A v \in V : <<kind, v>> \in N
  <2>1. Needs(m, p, kind, V, N)
    BY NeededFacts
  <2> HIDE DEF N
  <2> QED BY <2>1 DEF Needs
<1>2. \A s \in N : m.own[p][s] = None
  BY <1>1
<1>3. R = [n EXCEPT !.pte[p] = F]
  BY DEF Map
<1>4. Fits(m, N)
  OBVIOUS
<1> HIDE DEF N
<1>5. Grabbed(m, n, p, N)
  BY <1>1, <1>2, <1>4, GrabFacts
<1> HIDE DEF n
<1>6. /\ Sound(n) /\ n.pte = m.pte
      /\ \A q \in Proc \ {p} : n.own[q] = m.own[q]
      /\ \A s \in Slot \ N : n.own[p][s] = m.own[p][s]
      /\ \A s \in N : n.own[p][s] \in Frame
      /\ \A B \in SUBSET Slot : N \subseteq B /\ Fits(m, B) => Fits(n, B \ N)
  BY <1>5 DEF Grabbed
<1>7. n.pte \in [Proc -> [Vpn -> Opt]]
  <2>1. n \in Mem
    BY <1>6 DEF Sound
  <2> QED BY <2>1, MemFields
<1>8. \A v \in V : n.own[p][<<kind, v>>] \in Frame
  BY <1>1, <1>6
<1>9. F \in [Vpn -> Opt]
  BY <1>7, <1>8 DEF Opt
<1>10. \A v \in Vpn : F[v] = IF v \in V THEN n.own[p][<<kind, v>>] ELSE n.pte[p][v]
  OBVIOUS
<1> HIDE DEF F
<1>11. /\ Sound(R) /\ R.own = n.own /\ R.pte[p] = F /\ \A q \in Proc \ {p} : R.pte[q] = n.pte[q]
       /\ \A B : Fits(R, B) <=> Fits(n, B)
  <2>1. Sound(n)
    BY <1>6
  <2>2. Repaged(n, R, p, F)
    BY <1>3, <1>9, <2>1, PteFacts
  <2> QED BY <2>2 DEF Repaged
<1>12. \A v \in V : R.pte[p][v] = R.own[p][<<kind, v>>]
  BY <1>10, <1>11
<1>13. \A v \in Vpn \ V : R.pte[p][v] = m.pte[p][v]
  BY <1>6, <1>10, <1>11
<1>14. \A q \in Proc \ {p} : R.own[q] = m.own[q] /\ R.pte[q] = m.pte[q]
  BY <1>6, <1>11
<1>15. /\ \A s \in Slot \ N : R.own[p][s] = m.own[p][s]
       /\ \A s \in N : R.own[p][s] \in Frame
  BY <1>6, <1>11
<1>16. \A B \in SUBSET Slot : N \subseteq B /\ Fits(m, B) => Fits(R, B \ N)
  BY <1>6, <1>11
<1> QED BY <1>11, <1>12, <1>13, <1>14, <1>15, <1>16 DEF Mapped, N

\* R is m without the trackers of the slots S and the entries of the pages V of p.
Cleared(m, R, p, S, V) ==
  /\ Sound(R)
  /\ \A q \in Proc \ {p} : R.own[q] = m.own[q] /\ R.pte[q] = m.pte[q]
  /\ \A s \in Slot \ S : R.own[p][s] = m.own[p][s]
  /\ \A s \in S : R.own[p][s] = None
  /\ \A v \in Vpn \ V : R.pte[p][v] = m.pte[p][v]
  /\ \A v \in V : R.pte[p][v] = None

\* Drop leaves the entries alone.
LEMMA DropClears ==
  ASSUME NEW m, Sound(m), NEW p \in Proc, NEW S \in SUBSET Slot, NEW R, R = Drop(m, p, S)
  PROVE  Cleared(m, R, p, S, {})
<1>1. Dropped(m, R, p, S)
  BY DropFacts
<1> QED BY <1>1 DEF Dropped, Cleared

\* Dropping trackers and then the entries of some pages.
LEMMA ClearFacts ==
  ASSUME NEW m, Sound(m), NEW p \in Proc, NEW S \in SUBSET Slot, NEW V \in SUBSET Vpn,
         NEW d, d = Drop(m, p, S), NEW F, F = [v \in Vpn |-> IF v \in V THEN None ELSE d.pte[p][v]],
         NEW R, R = [d EXCEPT !.pte[p] = F]
  PROVE  Cleared(m, R, p, S, V)
<1>1. /\ Sound(d) /\ d.pte = m.pte
      /\ \A q \in Proc \ {p} : d.own[q] = m.own[q]
      /\ \A s \in Slot \ S : d.own[p][s] = m.own[p][s]
      /\ \A s \in S : d.own[p][s] = None
  <2>1. Dropped(m, d, p, S)
    BY DropFacts
  <2> QED BY <2>1 DEF Dropped
<1>2. Sound(d)
  BY <1>1
<1>3. d.pte \in [Proc -> [Vpn -> Opt]]
  <2>1. d \in Mem
    BY <1>2 DEF Sound
  <2> QED BY <2>1, MemFields
<1>4. F \in [Vpn -> Opt] /\ \A v \in Vpn : F[v] = IF v \in V THEN None ELSE d.pte[p][v]
  BY SMTT(30), <1>3 DEF Opt
<1>5. F \in [Vpn -> Opt]
  BY <1>4
<1>6. /\ Sound(R) /\ R.own = d.own /\ R.pte[p] = F /\ \A q \in Proc \ {p} : R.pte[q] = d.pte[q]
  <2>1. Repaged(d, R, p, F)
    BY <1>2, <1>5, PteFacts
  <2> QED BY <2>1 DEF Repaged
<1>7. \A v \in Vpn \ V : R.pte[p][v] = m.pte[p][v]
  BY <1>1, <1>4, <1>6
<1>8. \A v \in V : R.pte[p][v] = None
  BY <1>4, <1>6
<1> QED BY SMTT(30), <1>1, <1>6, <1>7, <1>8 DEF Cleared

\* Unmap drops trackers and entries.
LEMMA UnmapFacts ==
  ASSUME NEW m, Sound(m), NEW p \in Proc, NEW V \in SUBSET Vpn, NEW R, R = Unmap(m, p, V)
  PROVE  Cleared(m, R, p, Slots("area", V), V)
<1> DEFINE d == Drop(m, p, Slots("area", V))
           F == [v \in Vpn |-> IF v \in V THEN None ELSE d.pte[p][v]]
<1>1. Slots("area", V) \in SUBSET Slot
  BY SMTT(30), SlotFacts DEF Slots, Kinds
<1>2. R = [d EXCEPT !.pte[p] = F]
  BY DEF Unmap
<1> QED BY <1>1, <1>2, ClearFacts

\* DropSpace drops trackers and all entries.
LEMMA DropSpaceFacts ==
  ASSUME NEW m, Sound(m), NEW p \in Proc, NEW S \in SUBSET Slot, NEW R, R = DropSpace(m, p, S)
  PROVE  Cleared(m, R, p, S, Vpn)
<1> DEFINE d == Drop(m, p, S)
           F == [v \in Vpn |-> IF v \in Vpn THEN None ELSE d.pte[p][v]]
<1>1. NoPages = F
  BY DEF NoPages
<1>2. R = [d EXCEPT !.pte[p] = F]
  BY <1>1 DEF DropSpace
<1> QED BY <1>2, ClearFacts

-----------------------------------------------------------------------------
(* What the user reaches. *)

\* The page table of p and its trackers agree, but for entries of the pages U.
Reach(m, p, U) ==
  \A v \in Vpn :
    /\ \A kind \in Kinds : m.own[p][<<kind, v>>] # None => m.pte[p][v] = m.own[p][<<kind, v>>]
    /\ m.pte[p][v] # None /\ v \notin U => \E kind \in Kinds : m.own[p][<<kind, v>>] = m.pte[p][v]

\* p has no pages.
Blank(m, p) ==
  \A v \in Vpn : m.pte[p][v] = None /\ \A kind \in Kinds : m.own[p][<<kind, v>>] = None

\* Without pages, the page table and the trackers agree.
LEMMA BlankReach == ASSUME NEW m, NEW p, Blank(m, p), NEW U PROVE Reach(m, p, U)
BY DEF Blank, Reach

\* A page has trackers of one kind only.
LEMMA OneKind ==
  ASSUME NEW m, Sound(m), NEW p \in Proc, NEW U, Reach(m, p, U), NEW v \in Vpn,
         NEW i \in Kinds, NEW j \in Kinds, m.own[p][<<i, v>>] # None, m.own[p][<<j, v>>] # None
  PROVE  i = j
<1>1. m.own[p][<<i, v>>] = m.own[p][<<j, v>>]
  BY DEF Reach
<1>2. <<i, v>> \in Slot /\ <<j, v>> \in Slot
  BY SlotFacts
<1> DEFINE r == <<i, v>>
           s == <<j, v>>
<1>3. r[1] = i /\ s[1] = j
  OBVIOUS
<1> HIDE DEF r, s
<1>4. r \in Slot /\ s \in Slot /\ m.own[p][r] # None /\ m.own[p][r] = m.own[p][s]
  BY <1>1, <1>2 DEF r, s
<1>5. r = s
  BY <1>4 DEF Sound
<1> QED BY <1>3, <1>5

\* Mapping pages without trackers.
LEMMA MapReach ==
  ASSUME NEW m, NEW p \in Proc, NEW U, Reach(m, p, U), NEW kind \in Kinds, NEW V \in SUBSET Vpn,
         NEW R, Mapped(m, R, p, kind, V), \A v \in V, j \in Kinds : m.own[p][<<j, v>>] = None
  PROVE  Reach(R, p, U)
<1> DEFINE N == Needed(m, p, kind, V)
<1>1. /\ \A v \in V : <<kind, v>> \in N
      /\ \A j \in Kinds, v \in Vpn : <<j, v>> \in N => j = kind /\ v \in V
  <2>1. Needs(m, p, kind, V, N)
    BY NeededFacts
  <2> HIDE DEF N
  <2> QED BY <2>1 DEF Needs
<1>2. /\ \A s \in Slot \ N : R.own[p][s] = m.own[p][s]
      /\ \A s \in N : R.own[p][s] \in Frame
      /\ \A v \in V : R.pte[p][v] = R.own[p][<<kind, v>>]
      /\ \A v \in Vpn \ V : R.pte[p][v] = m.pte[p][v]
  BY DEF Mapped
<1> HIDE DEF N
<1>3. \A j \in Kinds, v \in Vpn : ~(j = kind /\ v \in V) => R.own[p][<<j, v>>] = m.own[p][<<j, v>>]
  BY <1>1, <1>2, SlotFacts
<1>4. ASSUME NEW v \in V, NEW j \in Kinds, R.own[p][<<j, v>>] # None PROVE R.pte[p][v] = R.own[p][<<j, v>>]
  BY <1>2, <1>3, <1>4
<1>5. \A v \in Vpn \ V, j \in Kinds : R.own[p][<<j, v>>] = m.own[p][<<j, v>>]
  BY <1>3
<1> QED BY SMTT(30), <1>2, <1>4, <1>5 DEF Reach

\* Trackers of other kinds.
LEMMA SameReach ==
  ASSUME NEW m, NEW p, NEW U, Reach(m, p, U), NEW R,
         \A v \in Vpn : R.pte[p][v] = m.pte[p][v] /\ \A j \in Kinds : R.own[p][<<j, v>>] = m.own[p][<<j, v>>]
  PROVE  Reach(R, p, U)
<1> SUFFICES ASSUME NEW v \in Vpn
             PROVE  /\ \A j \in Kinds : R.own[p][<<j, v>>] # None => R.pte[p][v] = R.own[p][<<j, v>>]
                    /\ R.pte[p][v] # None /\ v \notin U => \E j \in Kinds : R.own[p][<<j, v>>] = R.pte[p][v]
  BY DEF Reach
<1>1. R.pte[p][v] = m.pte[p][v] /\ \A j \in Kinds : R.own[p][<<j, v>>] = m.own[p][<<j, v>>]
  OBVIOUS
<1>2. /\ \A j \in Kinds : m.own[p][<<j, v>>] # None => m.pte[p][v] = m.own[p][<<j, v>>]
      /\ m.pte[p][v] # None /\ v \notin U => \E j \in Kinds : m.own[p][<<j, v>>] = m.pte[p][v]
  BY DEF Reach
<1> QED BY <1>1, <1>2

\* The trackers and entries after a Map.
Pages1(m, R, p, kind, V) ==
  /\ \A v \in V : R.own[p][<<kind, v>>] \in Frame /\ R.pte[p][v] = R.own[p][<<kind, v>>]
  /\ \A v \in Vpn \ V : R.pte[p][v] = m.pte[p][v]
  /\ \A j \in Kinds, v \in Vpn : ~(j = kind /\ v \in V) => R.own[p][<<j, v>>] = m.own[p][<<j, v>>]
  /\ \A s \in Slot : s[1] \notin {"table", kind} => R.own[p][s] = m.own[p][s]

\* The pages after Map, without the tables.
LEMMA MappedPages ==
  ASSUME NEW m, NEW p \in Proc, NEW kind \in Kinds, NEW V \in SUBSET Vpn, NEW R, Mapped(m, R, p, kind, V)
  PROVE  Pages1(m, R, p, kind, V)
<1> DEFINE N == Needed(m, p, kind, V)
<1>1. Needs(m, p, kind, V, N)
  BY NeededFacts
<1>2. /\ \A s \in Slot \ N : R.own[p][s] = m.own[p][s]
      /\ \A s \in N : R.own[p][s] \in Frame
      /\ \A v \in V : R.pte[p][v] = R.own[p][<<kind, v>>]
      /\ \A v \in Vpn \ V : R.pte[p][v] = m.pte[p][v]
  BY DEF Mapped
<1> HIDE DEF N
<1>3. /\ \A v \in V : <<kind, v>> \in N
      /\ \A j \in Kinds, v \in Vpn : <<j, v>> \in N => j = kind /\ v \in V
      /\ \A s \in Slot : s \in N => s[1] = "table" \/ s[1] = kind
  BY <1>1 DEF Needs
<1>4. \A j \in Kinds, v \in Vpn : ~(j = kind /\ v \in V) => R.own[p][<<j, v>>] = m.own[p][<<j, v>>]
  BY <1>2, <1>3, SlotFacts
<1>5. \A s \in Slot : s[1] \notin {"table", kind} => R.own[p][s] = m.own[p][s]
  BY <1>2, <1>3
<1> QED BY <1>2, <1>3, <1>4, <1>5 DEF Pages1

-----------------------------------------------------------------------------
(* The inductive invariant. *)

\* The kernel stacks, the pages and the threads of p.
TcbInv(p) ==
  \A t \in Tid : tasks[p][t] # None =>
    Owned(p, Kstack(tasks[p][t])) /\ \A u \in Tid : tasks[p][u] = tasks[p][t] => u = t
TrapInv(p) ==
  \A t \in threads[p] :
    /\ trap_cx[p][t] # None
    /\ trap_cx[p][t] = mem.own[p][<<"area", TrapCx(t)>>]
    /\ trap_cx[p][t] = mem.pte[p][TrapCx(t)]
HeapInv(p) ==
  \A v \in Vpn : HEAP_BASE <= v * PAGE_SIZE /\ v * PAGE_SIZE < heap_end[p] => Owned(p, <<"heap", v>>)
ThreadsInv(p) == 0 \in threads[p] /\ \A t \in threads[p] : t < tasks_len[p]
NoSpace(m, p) == \A s \in Slot : s[1] # "kstack" => m.own[p][s] = None

ProcInv(p) ==
  /\ mem.own[p][Bare] = None /\ TcbInv(p) /\ TrapInv(p)
  /\ state[p] = "none" => NoSpace(mem, p) /\ Blank(mem, p)
  /\ state[p] # "live" => threads[p] = {} /\ tasks[p] = [t \in Tid |-> None]
  /\ state[p] = "live" => ThreadsInv(p) /\ Reach(mem, p, unmapped[p]) /\ HeapInv(p)

Inv == TypeOK /\ Sound(mem) /\ \A p \in Proc : ProcInv(p)

\* A step leaves the process q alone.
Same(q) ==
  /\ mem'.own[q] = mem.own[q] /\ mem'.pte[q] = mem.pte[q] /\ heap_end'[q] = heap_end[q]
  /\ unmapped'[q] = unmapped[q] /\ state'[q] = state[q] /\ threads'[q] = threads[q]
  /\ tasks'[q] = tasks[q] /\ tasks_len'[q] = tasks_len[q] /\ trap_cx'[q] = trap_cx[q]

\* A process that a step leaves alone keeps its part of the invariant.
LEMMA SameKeeps == ASSUME NEW q, ProcInv(q), Same(q) PROVE ProcInv(q)'
<1>1. TcbInv(q)'
  <2>1. TcbInv(q) /\ tasks'[q] = tasks[q] /\ mem'.own[q] = mem.own[q]
    BY DEF ProcInv, Same
  <2> QED BY <2>1 DEF TcbInv, Owned, Kstack
<1>2. TrapInv(q)'
  BY DEF ProcInv, Same, TrapInv, TrapCx
<1>3. state'[q] = "none" => NoSpace(mem', q) /\ Blank(mem', q)
  <2>1. state[q] = "none" => NoSpace(mem, q) /\ Blank(mem, q)
    BY DEF ProcInv
  <2>2. state'[q] = state[q] /\ mem'.own[q] = mem.own[q] /\ mem'.pte[q] = mem.pte[q]
    BY DEF Same
  <2> QED BY <2>1, <2>2 DEF NoSpace, Blank
<1>4. state'[q] # "live" => threads'[q] = {} /\ tasks'[q] = [t \in Tid |-> None]
  BY DEF ProcInv, Same
<1>5. state'[q] = "live" => ThreadsInv(q)' /\ Reach(mem', q, unmapped'[q]) /\ HeapInv(q)'
  <2> SUFFICES ASSUME state'[q] = "live" PROVE ThreadsInv(q)' /\ Reach(mem', q, unmapped'[q]) /\ HeapInv(q)'
    OBVIOUS
  <2>1. ThreadsInv(q) /\ Reach(mem, q, unmapped[q]) /\ HeapInv(q)
    BY DEF ProcInv, Same
  <2>2. ThreadsInv(q)'
    BY <2>1 DEF ThreadsInv, Same
  <2>3. HeapInv(q)'
    BY <2>1 DEF HeapInv, Same, Owned
  <2>4. Reach(mem', q, unmapped'[q])
    BY <2>1, SameReach DEF Same
  <2> QED BY <2>2, <2>3, <2>4
<1>6. mem'.own[q][Bare] = None
  BY DEF ProcInv, Same
<1> QED BY <1>1, <1>2, <1>3, <1>4, <1>5, <1>6 DEF ProcInv

\* A step about the process p only.
LEMMA OneProcess ==
  ASSUME Inv, NEW p \in Proc, TypeOK', Sound(mem'), ProcInv(p)', \A q \in Proc \ {p} : Same(q)
  PROVE  Inv'
BY SameKeeps DEF Inv

\* The facts of the invariant about a live process.
LEMMA LiveFacts ==
  ASSUME Inv, NEW p \in Proc, state[p] = "live"
  PROVE  /\ Sound(mem) /\ TypeOK /\ mem.own[p][Bare] = None /\ TcbInv(p) /\ TrapInv(p)
         /\ ThreadsInv(p) /\ Reach(mem, p, unmapped[p]) /\ HeapInv(p)
BY DEF Inv, ProcInv

\* A panic changes nothing but halt.
LEMMA PanicKeeps ==
  ASSUME Inv, NEW why, Panic(why),
         why \in {"oom", "brk_mapped", "mmap_mapped", "mmap_copy", "clone_mapped", "threads", "shutdown"}
  PROVE  Inv'
<1>1. UNCHANGED <<mem, bounds, state, tcbs>> /\ halt' = why
  BY DEF Panic
<1>2. TypeOK'
  BY <1>1 DEF Inv, TypeOK, bounds, tcbs
<1>3. Sound(mem')
  BY <1>1 DEF Inv
<1>4. \A q \in Proc : Same(q)
  BY <1>1 DEF Same, bounds, tcbs
<1> QED BY <1>2, <1>3, <1>4, SameKeeps DEF Inv

-----------------------------------------------------------------------------
(* Addresses and pages. *)

\* Quotient and remainder.
LEMMA DivFacts ==
  ASSUME NEW a \in Nat, NEW P \in Nat \ {0}
  PROVE  a \div P \in Nat /\ (a \div P) * P <= a /\ a < (a \div P) * P + P
BY SMTT(30)

\* Multiplication is monotonic.
LEMMA TimesLe ==
  ASSUME NEW a \in Nat, NEW b \in Nat, NEW P \in Nat, a <= b
  PROVE  a * P <= b * P
BY SMTT(30)

\* The next multiple.
LEMMA TimesSucc ==
  ASSUME NEW a \in Nat, NEW P \in Nat PROVE (a + 1) * P = a * P + P /\ a * P \in Nat
BY SMTT(30)

\* The page of an address.
LEMMA FloorFacts ==
  ASSUME NEW a \in Nat
  PROVE  Floor(a) \in Nat /\ \A v \in Nat : v < Floor(a) => v * PAGE_SIZE < a
<1>1. PAGE_SIZE \in Nat \ {0} /\ PAGE_SIZE \in Nat /\ PAGE_SIZE > 0
  BY SMTT(30), MemoryConstants
<1> DEFINE f == Floor(a)
<1>2. f \in Nat /\ f * PAGE_SIZE <= a
  BY <1>1, DivFacts DEF Floor
<1> HIDE DEF f
<1>3. ASSUME NEW v \in Nat, v < f PROVE v * PAGE_SIZE < a
  <2>1. v + 1 \in Nat /\ v + 1 <= f
    BY <1>2, <1>3
  <2>2. (v + 1) * PAGE_SIZE <= f * PAGE_SIZE
    BY <1>1, <1>2, <2>1, TimesLe
  <2>3. (v + 1) * PAGE_SIZE = v * PAGE_SIZE + PAGE_SIZE /\ v * PAGE_SIZE \in Nat /\ f * PAGE_SIZE \in Nat
    BY <1>1, <1>2, TimesSucc
  <2> DEFINE x == v * PAGE_SIZE
             y == f * PAGE_SIZE
  <2>4. x + PAGE_SIZE <= y /\ x \in Nat /\ y \in Nat /\ y <= a
    BY <1>2, <2>2, <2>3
  <2> HIDE DEF x, y
  <2>5. x < a
    BY <1>1, <2>4
  <2> QED BY <2>5 DEF x
<1> QED BY <1>2, <1>3 DEF f

\* The pages below the end of the last page of a start below a.
LEMMA CeilFacts ==
  ASSUME NEW a \in Nat
  PROVE  /\ Ceil(a) \in Nat /\ Ceil(a) * PAGE_SIZE \in Nat
         /\ \A v \in Nat : v < Ceil(a) => v * PAGE_SIZE < a
         /\ \A v \in Nat : v * PAGE_SIZE < Ceil(a) * PAGE_SIZE => v < Ceil(a)
<1>1. PAGE_SIZE \in Nat \ {0} /\ PAGE_SIZE \in Nat /\ PAGE_SIZE > 0
  BY MemoryConstants
<1> DEFINE c == Ceil(a)
           b == a + PAGE_SIZE - 1
<1>2. b \in Nat /\ c = b \div PAGE_SIZE
  BY <1>1 DEF Ceil
<1> HIDE DEF b, c
<1>3. c \in Nat /\ c * PAGE_SIZE <= b
  BY <1>1, <1>2, DivFacts
<1>4. ASSUME NEW v \in Nat, v < c PROVE v * PAGE_SIZE < a
  <2>1. v + 1 \in Nat /\ v + 1 <= c
    BY <1>3, <1>4
  <2>2. (v + 1) * PAGE_SIZE <= c * PAGE_SIZE
    BY <1>1, <1>3, <2>1, TimesLe
  <2>3. (v + 1) * PAGE_SIZE = v * PAGE_SIZE + PAGE_SIZE /\ v * PAGE_SIZE \in Nat /\ c * PAGE_SIZE \in Nat
    BY <1>1, <1>3, TimesSucc
  <2> DEFINE x == v * PAGE_SIZE
             y == c * PAGE_SIZE
  <2>4. x + PAGE_SIZE <= y /\ x \in Nat /\ y \in Nat /\ y <= a + PAGE_SIZE - 1
    BY <1>3, <2>2, <2>3 DEF b
  <2> HIDE DEF x, y
  <2>5. x < a
    BY SMTT(30), <1>1, <2>4
  <2> QED BY <2>5 DEF x
<1>5. ASSUME NEW v \in Nat, v * PAGE_SIZE < c * PAGE_SIZE PROVE v < c
  <2> SUFFICES ASSUME c <= v PROVE FALSE
    BY <1>3
  <2> DEFINE x == v * PAGE_SIZE
             y == c * PAGE_SIZE
  <2>1. y <= x
    BY <1>1, <1>3, TimesLe
  <2>2. x < y /\ x \in Nat /\ y \in Nat
    BY <1>1, <1>3, <1>5, TimesSucc
  <2> HIDE DEF x, y
  <2> QED BY <2>1, <2>2
<1>6. c * PAGE_SIZE \in Nat
  BY <1>1, <1>3, TimesSucc
<1> QED BY <1>3, <1>4, <1>5, <1>6 DEF c

-----------------------------------------------------------------------------
(* System calls on the pages of a process. *)

\* Kernel stacks and trap contexts of p stay.
KeepsTcbs(p) ==
  /\ mem'.own[p][Bare] = mem.own[p][Bare]
  /\ \A k \in Kid : mem'.own[p][Kstack(k)] = mem.own[p][Kstack(k)]
  /\ \A t \in threads[p] : /\ mem'.own[p][<<"area", TrapCx(t)>>] = mem.own[p][<<"area", TrapCx(t)>>]
                          /\ mem'.pte[p][TrapCx(t)] = mem.pte[p][TrapCx(t)]

\* The types of the fields of a process.
LEMMA TaskTypes ==
  ASSUME TypeOK, NEW p \in Proc
  PROVE  /\ \A t \in Tid : tasks[p][t] # None => tasks[p][t] \in Kid
         /\ threads[p] \subseteq Tid /\ \A t \in Tid : TrapCx(t) \in Vpn
         /\ heap_end[p] \in Nat /\ mmap_end[p] \in Nat /\ tasks_len[p] \in Nat
BY MemoryConstants DEF TypeOK

\* A step of a live process that changes its pages only.
LEMMA SpaceStep ==
  ASSUME Inv, NEW p \in Proc, state[p] = "live", UNCHANGED <<state, tcbs>>, KeepsTcbs(p),
         Reach(mem', p, unmapped'[p]), HeapInv(p)'
  PROVE  ProcInv(p)'
<1>1. /\ Sound(mem) /\ TypeOK /\ mem.own[p][Bare] = None /\ TcbInv(p) /\ TrapInv(p) /\ ThreadsInv(p)
  BY LiveFacts
<1>2. state' = state /\ threads' = threads /\ tasks' = tasks /\ tasks_len' = tasks_len /\ trap_cx' = trap_cx
  BY DEF tcbs
<1>3. TcbInv(p)'
  <2>1. \A t \in Tid : tasks[p][t] # None => tasks[p][t] \in Kid
    BY <1>1, TaskTypes
  <2> QED BY <1>1, <1>2, <2>1 DEF TcbInv, Owned, KeepsTcbs, Kstack
<1>4. TrapInv(p)'
  BY <1>1, <1>2 DEF TrapInv, KeepsTcbs, TrapCx
<1>5. ThreadsInv(p)'
  BY <1>1, <1>2 DEF ThreadsInv
<1> QED BY <1>1, <1>2, <1>3, <1>4, <1>5 DEF ProcInv, KeepsTcbs

\* sys_brk within the last page, and down.
LEMMA BrkWithinInv == ASSUME Inv, NEW p \in Proc, NEW a \in Breaks, BrkWithin(p, a) PROVE Inv'
<1>1. /\ state[p] = "live" /\ a <= Ceil(heap_end[p]) * PAGE_SIZE
      /\ heap_end' = [heap_end EXCEPT ![p] = a]
      /\ UNCHANGED <<mem, mmap_end, unmapped, state, tcbs, halt>>
  BY DEF BrkWithin, Running
<1>2. TypeOK /\ Sound(mem) /\ Reach(mem, p, unmapped[p]) /\ HeapInv(p)
  BY <1>1, LiveFacts
<1>3. a \in Nat /\ heap_end \in [Proc -> Nat] /\ heap_end[p] \in Nat
  BY <1>2, MemoryConstants DEF TypeOK
<1>4. heap_end' \in [Proc -> Nat] /\ heap_end'[p] = a /\ \A q \in Proc \ {p} : heap_end'[q] = heap_end[q]
  BY <1>1, <1>3
<1>5. TypeOK'
  BY <1>1, <1>2, <1>4 DEF TypeOK, tcbs
<1>6. HeapInv(p)'
  <2> SUFFICES ASSUME NEW v \in Vpn, HEAP_BASE <= v * PAGE_SIZE, v * PAGE_SIZE < a
               PROVE  mem.own[p][<<"heap", v>>] # None
    BY <1>1, <1>4 DEF HeapInv, Owned
  <2>1. v \in Nat /\ PAGE_SIZE \in Nat /\ v * PAGE_SIZE \in Nat
    BY SMTT(30), MemoryConstants, TimesSucc DEF Vpn
  <2> DEFINE x == v * PAGE_SIZE
             y == Ceil(heap_end[p]) * PAGE_SIZE
  <2>2. y \in Nat /\ x \in Nat /\ x < a /\ a <= y
    BY <1>1, <1>3, <2>1, CeilFacts
  <2> HIDE DEF x, y
  <2>3. x < y
    BY SMTT(30), <1>3, <2>2
  <2>4. v < Ceil(heap_end[p])
    BY <1>3, <2>1, <2>3, CeilFacts DEF x, y
  <2>5. v * PAGE_SIZE < heap_end[p]
    BY <1>3, <2>1, <2>4, CeilFacts
  <2> QED BY <1>2, <2>5 DEF HeapInv, Owned
<1>7. KeepsTcbs(p) /\ Reach(mem', p, unmapped'[p])
  BY <1>1, <1>2 DEF KeepsTcbs
<1>8. UNCHANGED <<state, tcbs>>
  BY <1>1
<1>9. ProcInv(p)'
  BY <1>1, <1>6, <1>7, <1>8, SpaceStep
<1>10. \A q \in Proc \ {p} : Same(q)
  BY <1>1, <1>4 DEF Same, tcbs
<1> QED BY <1>1, <1>2, <1>5, <1>9, <1>10, OneProcess

\* Pages without valid entries are mapped: trackers and contexts stay.
LEMMA MapStep ==
  ASSUME Inv, NEW p \in Proc, state[p] = "live", NEW kind \in Kinds, NEW V \in SUBSET Vpn,
         \A v \in V : ~ Valid(p, v), Fits(mem, Needed(mem, p, kind, V)), NEW R, R = Map(mem, p, kind, V)
  PROVE  /\ Mapped(mem, R, p, kind, V) /\ Pages1(mem, R, p, kind, V) /\ Reach(R, p, unmapped[p])
         /\ \A v \in V, j \in Kinds : mem.own[p][<<j, v>>] = None
<1>1. Sound(mem) /\ Reach(mem, p, unmapped[p])
  BY LiveFacts
<1>2. \A v \in V : mem.pte[p][v] = None
  BY DEF Valid
<1>3. \A v \in V, j \in Kinds : mem.own[p][<<j, v>>] = None
  BY <1>1, <1>2 DEF Reach
<1>4. Mapped(mem, R, p, kind, V)
  BY <1>1, <1>3, MapFacts
<1> QED BY <1>1, <1>3, <1>4, MapReach, MappedPages

\* Map of pages without entries keeps the contexts, the stacks and the heap.
LEMMA MapKeeps ==
  ASSUME Inv, NEW p \in Proc, state[p] = "live", NEW kind \in Kinds, NEW V \in SUBSET Vpn,
         Mapped(mem, mem', p, kind, V), \A v \in V : mem.pte[p][v] = None
  PROVE  /\ KeepsTcbs(p)
         /\ \A v \in Vpn : mem.own[p][<<"heap", v>>] # None => mem'.own[p][<<"heap", v>>] # None
<1>1. Pages1(mem, mem', p, kind, V)
  BY MappedPages
<1>2. Sound(mem) /\ TypeOK /\ TrapInv(p) /\ Reach(mem, p, unmapped[p])
  BY LiveFacts
<1>3. /\ \A v \in V : mem'.own[p][<<kind, v>>] \in Frame
      /\ \A v \in Vpn \ V : mem'.pte[p][v] = mem.pte[p][v]
      /\ \A j \in Kinds, v \in Vpn : ~(j = kind /\ v \in V) => mem'.own[p][<<j, v>>] = mem.own[p][<<j, v>>]
      /\ \A s \in Slot : s[1] \notin {"table", kind} => mem'.own[p][s] = mem.own[p][s]
  BY <1>1 DEF Pages1
<1>4. mem'.own[p][Bare] = mem.own[p][Bare]
  BY <1>3, SlotFacts DEF Kinds
<1>5. \A k \in Kid : mem'.own[p][Kstack(k)] = mem.own[p][Kstack(k)]
  BY SMTT(30), <1>3, SlotFacts DEF Kinds
<1>6. \A t \in threads[p] : TrapCx(t) \in Vpn /\ TrapCx(t) \notin V
  <2> TAKE t \in threads[p]
  <2>1. TrapCx(t) \in Vpn
    BY <1>2, TaskTypes
  <2>2. mem.pte[p][TrapCx(t)] # None
    BY <1>2 DEF TrapInv
  <2> QED BY <2>1, <2>2
<1>7. \A t \in threads[p] : /\ mem'.own[p][<<"area", TrapCx(t)>>] = mem.own[p][<<"area", TrapCx(t)>>]
                          /\ mem'.pte[p][TrapCx(t)] = mem.pte[p][TrapCx(t)]
  BY <1>3, <1>6 DEF Kinds
<1>8. \A v \in Vpn : mem.own[p][<<"heap", v>>] # None => mem'.own[p][<<"heap", v>>] # None
  <2>1. "heap" \in Kinds
    BY DEF Kinds
  <2>2. \A f \in Frame : f # None
    BY NoneIsNoFrame
  <2> QED BY <1>3, <2>1, <2>2
<1> QED BY <1>4, <1>5, <1>7, <1>8 DEF KeepsTcbs

\* Any other process keeps its trackers and entries.
LEMMA MappedOthers ==
  ASSUME NEW m, NEW R, NEW p, NEW kind, NEW V, Mapped(m, R, p, kind, V)
  PROVE  Sound(R) /\ \A q \in Proc \ {p} : R.own[q] = m.own[q] /\ R.pte[q] = m.pte[q]
BY DEF Mapped

\* A sound memory has its type.
LEMMA SoundType == ASSUME NEW m, Sound(m) PROVE m \in Mem
BY DEF Sound

\* sys_brk beyond the last page.
LEMMA BrkGrowInv == ASSUME Inv, NEW p \in Proc, NEW a \in Breaks, BrkGrow(p, a) PROVE Inv'
<1> DEFINE V == HeapPages(p, a)
<1>1. state[p] = "live" /\ V \in SUBSET Vpn
  BY DEF BrkGrow, Running
<1>2. CASE \E v \in V : Valid(p, v)
  <2>1. Panic("brk_mapped")
    BY <1>2 DEF BrkGrow
  <2> QED BY <2>1, PanicKeeps
<1>3. CASE ~(\E v \in V : Valid(p, v)) /\ ~ Fits(mem, Needed(mem, p, "heap", V))
  <2>1. Panic("oom")
    BY <1>3 DEF BrkGrow, OrPanic
  <2> QED BY <2>1, PanicKeeps
<1>4. CASE ~(\E v \in V : Valid(p, v)) /\ Fits(mem, Needed(mem, p, "heap", V))
  <2>1. /\ mem' = Map(mem, p, "heap", V)
        /\ heap_end' = [heap_end EXCEPT ![p] = Ceil(a) * PAGE_SIZE]
        /\ UNCHANGED <<mmap_end, unmapped, state, tcbs, halt>>
    BY <1>4 DEF BrkGrow, OrPanic
  <2>2. TypeOK /\ HeapInv(p)
    BY <1>1, LiveFacts
  <2>3. a \in Nat /\ heap_end \in [Proc -> Nat] /\ heap_end[p] \in Nat
    BY <2>2, MemoryConstants DEF TypeOK
  <2>4. Ceil(a) * PAGE_SIZE \in Nat /\ Ceil(a) \in Nat
    BY <2>3, CeilFacts
  <2>5. V = Floor(heap_end[p]) .. Ceil(a) - 1
    BY DEF HeapPages
  <2> HIDE DEF V
  <2>6. \A v \in V : ~ Valid(p, v)
    BY <1>4
  <2>7. "heap" \in Kinds /\ Fits(mem, Needed(mem, p, "heap", V))
    BY <1>4 DEF Kinds
  <2>8. Mapped(mem, mem', p, "heap", V) /\ Pages1(mem, mem', p, "heap", V) /\ Reach(mem', p, unmapped[p])
    BY <1>1, <2>1, <2>6, <2>7, MapStep
  <2>9. \A v \in V : mem.pte[p][v] = None
    BY <2>6 DEF Valid
  <2>10. /\ KeepsTcbs(p)
         /\ \A v \in Vpn : mem.own[p][<<"heap", v>>] # None => mem'.own[p][<<"heap", v>>] # None
    BY <1>1, <2>7, <2>8, <2>9, MapKeeps
  <2>11. Sound(mem') /\ \A q \in Proc \ {p} : mem'.own[q] = mem.own[q] /\ mem'.pte[q] = mem.pte[q]
    BY SMTT(30), <2>8, MappedOthers
  <2> DEFINE e == Ceil(a) * PAGE_SIZE
  <2>12. e \in Nat /\ heap_end' = [heap_end EXCEPT ![p] = e]
    BY <2>1, <2>4
  <2> HIDE DEF e
  <2>13. heap_end' \in [Proc -> Nat] /\ heap_end'[p] = e /\ \A q \in Proc \ {p} : heap_end'[q] = heap_end[q]
    BY <2>3, <2>12
  <2>14. TypeOK'
    BY <2>1, <2>2, <2>11, <2>13, SoundType DEF TypeOK, tcbs
  <2>15. HeapInv(p)'
    <3> SUFFICES ASSUME NEW v \in Vpn, HEAP_BASE <= v * PAGE_SIZE, v * PAGE_SIZE < e
                 PROVE  mem'.own[p][<<"heap", v>>] # None
      BY <2>13 DEF HeapInv, Owned
    <3>1. v \in Nat
      BY DEF Vpn
    <3>2. v < Ceil(a)
      BY <2>3, <3>1, CeilFacts DEF e
    <3>3. CASE v < Floor(heap_end[p])
      <4>1. v * PAGE_SIZE < heap_end[p]
        BY <2>3, <3>1, <3>3, FloorFacts
      <4>2. mem.own[p][<<"heap", v>>] # None
        BY <2>2, <4>1 DEF HeapInv, Owned
      <4> QED BY <2>10, <4>2
    <3>4. CASE ~ v < Floor(heap_end[p])
      <4>1. Floor(heap_end[p]) \in Nat
        BY <2>3, FloorFacts
      <4>2. v \in V
        BY SMTT(30), <2>4, <2>5, <3>1, <3>2, <3>4, <4>1
      <4>3. mem'.own[p][<<"heap", v>>] \in Frame
        BY <2>8, <4>2 DEF Pages1
      <4> QED BY <4>3, NoneIsNoFrame
    <3> QED BY <3>3, <3>4
  <2>16. UNCHANGED <<state, tcbs>> /\ Reach(mem', p, unmapped'[p])
    BY <2>1, <2>8
  <2>17. ProcInv(p)'
    BY <1>1, <2>10, <2>15, <2>16, SpaceStep
  <2>18. \A q \in Proc \ {p} : Same(q)
    BY <2>1, <2>11, <2>13 DEF Same, tcbs
  <2> QED BY <2>11, <2>14, <2>17, <2>18, OneProcess
<1> QED BY <1>2, <1>3, <1>4

\* MemorySet::mmap.
LEMMA MmapLenInv ==
  ASSUME Inv, NEW p \in Proc, state[p] = "live", NEW start \in Nat, NEW len \in Nat, NEW fails \in BOOLEAN,
         MmapLen(p, start, len, fails)
  PROVE  Inv'
<1> DEFINE V == NewPages(p, start, len)
           e == (Ceil(MmapStart(p, start) + len) + 1) * PAGE_SIZE
<1>1. V \in SUBSET Vpn
  BY DEF MmapLen, NewPages
<1>2. TypeOK /\ HeapInv(p)
  BY LiveFacts
<1>3. e \in Nat
  <2> DEFINE b == MmapStart(p, start) + len
  <2>1. MmapStart(p, start) \in Nat
    BY <1>2, TaskTypes DEF MmapStart
  <2>2. b \in Nat
    BY <2>1
  <2> HIDE DEF b
  <2>3. Ceil(b) \in Nat /\ PAGE_SIZE \in Nat
    BY <2>2, CeilFacts, MemoryConstants
  <2>4. (Ceil(b) + 1) * PAGE_SIZE \in Nat
    <3> DEFINE c == Ceil(b) + 1
    <3>1. c \in Nat
      BY <2>3
    <3> HIDE DEF c
    <3>2. c * PAGE_SIZE \in Nat
      BY <2>3, <3>1, TimesSucc
    <3> QED BY <3>2 DEF c
  <2> QED BY <2>4 DEF b
<1> HIDE DEF e
<1>4. CASE \E v \in V : Valid(p, v)
  <2>1. Panic("mmap_mapped")
    BY <1>4 DEF MmapLen
  <2> QED BY <2>1, PanicKeeps
<1>5. CASE ~(\E v \in V : Valid(p, v)) /\ ~ Fits(mem, Needed(mem, p, "mmap", V))
  <2>1. Panic("oom")
    BY <1>5 DEF MmapLen, OrPanic
  <2> QED BY <2>1, PanicKeeps
<1>6. CASE ~(\E v \in V : Valid(p, v)) /\ Fits(mem, Needed(mem, p, "mmap", V)) /\ fails
  <2>1. Panic("mmap_copy")
    BY <1>6 DEF MmapLen, OrPanic
  <2> QED BY <2>1, PanicKeeps
<1>7. CASE ~(\E v \in V : Valid(p, v)) /\ Fits(mem, Needed(mem, p, "mmap", V)) /\ ~ fails
  <2>1. /\ mem' = Map(mem, p, "mmap", V)
        /\ mmap_end' = [mmap_end EXCEPT ![p] = e]
        /\ UNCHANGED <<heap_end, unmapped, state, tcbs, halt>>
    BY <1>7 DEF MmapLen, OrPanic, e
  <2> HIDE DEF V
  <2>2. \A v \in V : ~ Valid(p, v)
    BY <1>7
  <2>3. "mmap" \in Kinds /\ Fits(mem, Needed(mem, p, "mmap", V))
    BY <1>7 DEF Kinds
  <2>4. Mapped(mem, mem', p, "mmap", V) /\ Reach(mem', p, unmapped[p])
    BY <1>1, <2>1, <2>2, <2>3, MapStep
  <2>5. \A v \in V : mem.pte[p][v] = None
    BY <2>2 DEF Valid
  <2>6. /\ KeepsTcbs(p)
        /\ \A v \in Vpn : mem.own[p][<<"heap", v>>] # None => mem'.own[p][<<"heap", v>>] # None
    BY <1>1, <2>3, <2>4, <2>5, MapKeeps
  <2>7. Sound(mem') /\ \A q \in Proc \ {p} : mem'.own[q] = mem.own[q] /\ mem'.pte[q] = mem.pte[q]
    BY <2>4, MappedOthers
  <2>8. mmap_end' \in [Proc -> Nat]
    BY <1>2, <1>3, <2>1 DEF TypeOK
  <2>9. TypeOK'
    BY <1>2, <2>1, <2>7, <2>8, SoundType DEF TypeOK, tcbs
  <2>10. HeapInv(p)'
    BY <1>2, <2>1, <2>6 DEF HeapInv, Owned
  <2>11. UNCHANGED <<state, tcbs>> /\ Reach(mem', p, unmapped'[p])
    BY <2>1, <2>4
  <2>12. ProcInv(p)'
    BY <2>6, <2>10, <2>11, SpaceStep
  <2>13. \A q \in Proc \ {p} : Same(q)
    BY <2>1, <2>7 DEF Same, tcbs
  <2> QED BY <2>7, <2>9, <2>12, <2>13, OneProcess
<1> QED BY <1>4, <1>5, <1>6, <1>7

\* sys_mmap.
LEMMA MmapInv ==
  ASSUME Inv, NEW p \in Proc, NEW a \in Addr \cup {0}, NEW n \in Lens,
         MmapAnonymous(p, a, n) \/ \E o \in Offsets : MmapFile(p, a, n, o)
  PROVE  Inv'
<1>1. a \in Nat /\ n \in Nat
  BY MemoryConstants
<1>2. CASE MmapAnonymous(p, a, n)
  BY <1>1, <1>2, MmapLenInv DEF MmapAnonymous, Running
<1>3. ASSUME NEW o \in Offsets, MmapFile(p, a, n, o) PROVE Inv'
  <2> DEFINE length == IF n <= FileLen - o THEN n ELSE FileLen - o
             fails == CopyFails(p, a, length, o)
  <2>1. o \in Nat /\ FileLen \in Nat /\ o < FileLen
    BY <1>3, MemoryConstants DEF MmapFile
  <2>2. length \in Nat
    BY SMTT(30), <1>1, <2>1
  <2>3. state[p] = "live" /\ MmapLen(p, a, length, fails)
    BY <1>3 DEF MmapFile, Running
  <2>4. fails \in BOOLEAN
    BY DEF CopyFails
  <2> HIDE DEF length, fails
  <2> QED BY <1>1, <2>2, <2>3, <2>4, MmapLenInv
<1> QED BY <1>2, <1>3

\* What Cleared says, one fact after the other.
LEMMA ClearedOthers ==
  ASSUME NEW m, NEW R, NEW p, NEW S, NEW V, Cleared(m, R, p, S, V)
  PROVE  /\ Sound(R) /\ \A q \in Proc \ {p} : R.own[q] = m.own[q] /\ R.pte[q] = m.pte[q]
         /\ \A s \in Slot \ S : R.own[p][s] = m.own[p][s]
         /\ \A s \in S : R.own[p][s] = None
         /\ \A v \in Vpn \ V : R.pte[p][v] = m.pte[p][v]
         /\ \A v \in V : R.pte[p][v] = None
BY DEF Cleared

\* The slots of one kind.
LEMMA SlotsOf ==
  ASSUME NEW kind \in Kinds, NEW V \in SUBSET Vpn
  PROVE  /\ Slots(kind, V) \in SUBSET Slot
         /\ \A j \in Kinds, v \in Vpn : <<j, v>> \in Slots(kind, V) <=> j = kind /\ v \in V
         /\ \A s \in Slots(kind, V) : s[1] = kind
<1>1. \A s : s \in Slots(kind, V) <=> \E v \in V : s = <<kind, v>>
  BY DEF Slots
<1>2. Slots(kind, V) \in SUBSET Slot /\ \A s \in Slots(kind, V) : s[1] = kind
  BY SMTT(30), <1>1, SlotFacts
<1>3. \A j \in Kinds, v \in Vpn : <<j, v>> \in Slots(kind, V) <=> j = kind /\ v \in V
  BY <1>1
<1> QED BY <1>2, <1>3

\* sys_munmap.
LEMMA MunmapInv ==
  ASSUME Inv, NEW p \in Proc, NEW start, NEW len, Munmap(p, start, len)
  PROVE  Inv'
<1> DEFINE V == {v \in Vpn : Ceil(start) <= v /\ v < Ceil(start + len)}
           S == Slots("mmap", V)
           gone == {v \in V : mem.own[p][<<"mmap", v>>] # None}
<1>1. /\ state[p] = "live" /\ mem' = Drop(mem, p, S)
      /\ unmapped' = [unmapped EXCEPT ![p] = unmapped[p] \cup gone]
      /\ UNCHANGED <<heap_end, mmap_end, state, tcbs, halt>>
  BY DEF Munmap, Running
<1>2. V \in SUBSET Vpn /\ "mmap" \in Kinds /\ "heap" \in Kinds /\ "area" \in Kinds
  BY DEF Kinds
<1> HIDE DEF V
<1>3. S \in SUBSET Slot
      /\ (\A j \in Kinds, v \in Vpn : <<j, v>> \in S <=> j = "mmap" /\ v \in V)
      /\ \A s \in S : s[1] = "mmap"
  BY <1>2, SlotsOf
<1>4. \A v : v \in gone <=> v \in V /\ mem.own[p][<<"mmap", v>>] # None
  OBVIOUS
<1>5. gone \subseteq Vpn
  BY <1>2
<1> HIDE DEF S, gone
<1>6. Sound(mem) /\ TypeOK /\ Reach(mem, p, unmapped[p]) /\ HeapInv(p)
  BY <1>1, LiveFacts
<1>7. Cleared(mem, mem', p, S, {})
  BY <1>1, <1>3, <1>6, DropClears
<1>8. /\ Sound(mem') /\ \A q \in Proc \ {p} : mem'.own[q] = mem.own[q] /\ mem'.pte[q] = mem.pte[q]
      /\ \A s \in Slot \ S : mem'.own[p][s] = mem.own[p][s]
      /\ \A s \in S : mem'.own[p][s] = None
      /\ \A v \in Vpn : mem'.pte[p][v] = mem.pte[p][v]
  BY SMTT(30), <1>7, ClearedOthers
<1>9. \A j \in Kinds, v \in Vpn : ~(j = "mmap" /\ v \in V) => mem'.own[p][<<j, v>>] = mem.own[p][<<j, v>>]
  BY <1>3, <1>8, SlotFacts
<1>10. unmapped' \in [Proc -> SUBSET Vpn] /\ unmapped'[p] = unmapped[p] \cup gone
       /\ \A q \in Proc \ {p} : unmapped'[q] = unmapped[q]
  BY <1>1, <1>5, <1>6 DEF TypeOK
<1>11. Reach(mem', p, unmapped'[p])
  <2>1. ASSUME NEW v \in Vpn, NEW j \in Kinds, mem'.own[p][<<j, v>>] # None
        PROVE  mem'.pte[p][v] = mem'.own[p][<<j, v>>]
    <3>1. mem'.own[p][<<j, v>>] = mem.own[p][<<j, v>>]
      BY <1>3, <1>8, <1>9, <2>1
    <3> QED BY <1>6, <1>8, <2>1, <3>1 DEF Reach
  <2>2. ASSUME NEW v \in Vpn, mem'.pte[p][v] # None, v \notin unmapped'[p]
        PROVE  \E j \in Kinds : mem'.own[p][<<j, v>>] = mem'.pte[p][v]
    <3>1. PICK j \in Kinds : mem.own[p][<<j, v>>] = mem.pte[p][v]
      BY <1>6, <1>8, <1>10, <2>2 DEF Reach
    <3>2. ~(j = "mmap" /\ v \in V)
      BY <1>4, <1>8, <1>10, <2>2, <3>1
    <3> QED BY <1>8, <1>9, <3>1, <3>2
  <2> QED BY <2>1, <2>2 DEF Reach
<1>12. KeepsTcbs(p)
  <2>1. mem'.own[p][Bare] = mem.own[p][Bare] /\ \A k \in Kid : mem'.own[p][Kstack(k)] = mem.own[p][Kstack(k)]
    BY <1>3, <1>8, SlotFacts
  <2>2. \A t \in threads[p] : TrapCx(t) \in Vpn
    BY <1>6, TaskTypes
  <2>3. \A t \in threads[p] : /\ mem'.own[p][<<"area", TrapCx(t)>>] = mem.own[p][<<"area", TrapCx(t)>>]
                            /\ mem'.pte[p][TrapCx(t)] = mem.pte[p][TrapCx(t)]
    BY <1>2, <1>8, <1>9, <2>2
  <2> QED BY <2>1, <2>3 DEF KeepsTcbs
<1>13. HeapInv(p)'
  BY <1>1, <1>2, <1>6, <1>9 DEF HeapInv, Owned
<1>14. TypeOK'
  BY <1>1, <1>6, <1>8, <1>10, SoundType DEF TypeOK, tcbs
<1>15. UNCHANGED <<state, tcbs>>
  BY <1>1
<1>16. ProcInv(p)'
  BY <1>1, <1>11, <1>12, <1>13, <1>15, SpaceStep
<1>17. \A q \in Proc \ {p} : Same(q)
  BY <1>1, <1>8, <1>10 DEF Same, tcbs
<1> QED BY <1>8, <1>14, <1>16, <1>17, OneProcess

-----------------------------------------------------------------------------
(* Exits and waits. *)

\* Pages of threads.
LEMMA UserFacts ==
  /\ \A t \in Tid : User(t) \subseteq Vpn /\ TrapCx(t) \in User(t) /\ TrapCx(t) \in Vpn /\ t \in Nat
  /\ \A t \in Tid \ {0} : User(t) = {TrapCx(t)}
  /\ \A t, u \in Tid : TrapCx(t) = TrapCx(u) => t = u
  /\ 0 \in Tid
<1>1. Tid \subseteq Nat /\ TRAP_CONTEXT \in Nat /\ STACK \in Vpn /\ 0 \in Tid /\ \A t \in Tid : TrapCx(t) \in Vpn
  BY MemoryConstants
<1>2. \A t, u \in Tid : TrapCx(t) = TrapCx(u) => t = u
  BY <1>1 DEF TrapCx
<1>3. \A t \in Tid : User(t) \subseteq Vpn /\ TrapCx(t) \in User(t)
  BY <1>1 DEF User
<1>4. \A t \in Tid \ {0} : User(t) = {TrapCx(t)}
  BY DEF User
<1> QED BY <1>1, <1>2, <1>3, <1>4

\* Kernel stacks are told apart by their number.
LEMMA KstackInjective == \A j, k : Kstack(j) = Kstack(k) => j = k
<1> TAKE j, k
<1>1. Kstack(j)[2] = j /\ Kstack(k)[2] = k
  BY DEF Kstack
<1> QED BY <1>1

\* The exit of a thread other than the main one.
LEMMA ExitThreadInv == ASSUME Inv, NEW p \in Proc, NEW t \in Tid, ExitThread(p, t) PROVE Inv'
<1> DEFINE V == {TrapCx(t)}
           S == Slots("area", V)
<1>1. /\ state[p] = "live" /\ t \in threads[p] /\ t # 0 /\ mem' = Unmap(mem, p, V)
      /\ threads' = [threads EXCEPT ![p] = threads[p] \ {t}]
      /\ UNCHANGED <<bounds, state, tasks, tasks_len, trap_cx, halt>>
  BY UserFacts DEF ExitThread, Running
<1>2. V \in SUBSET Vpn /\ "area" \in Kinds /\ "heap" \in Kinds
  BY UserFacts DEF Kinds
<1>3. \A v : v \in V <=> v = TrapCx(t)
  OBVIOUS
<1> HIDE DEF V
<1>4. S \in SUBSET Slot
      /\ (\A j \in Kinds, v \in Vpn : <<j, v>> \in S <=> j = "area" /\ v \in V)
      /\ \A s \in S : s[1] = "area"
  BY <1>2, SlotsOf
<1>5. /\ Sound(mem) /\ TypeOK /\ mem.own[p][Bare] = None /\ TcbInv(p) /\ TrapInv(p)
      /\ ThreadsInv(p) /\ Reach(mem, p, unmapped[p]) /\ HeapInv(p)
  BY <1>1, LiveFacts
<1>6. Cleared(mem, mem', p, S, V)
  BY <1>1, <1>2, <1>5, UnmapFacts
<1> HIDE DEF S
<1>7. /\ Sound(mem') /\ \A q \in Proc \ {p} : mem'.own[q] = mem.own[q] /\ mem'.pte[q] = mem.pte[q]
      /\ \A s \in Slot \ S : mem'.own[p][s] = mem.own[p][s]
      /\ \A s \in S : mem'.own[p][s] = None
      /\ \A v \in Vpn \ V : mem'.pte[p][v] = mem.pte[p][v]
      /\ \A v \in V : mem'.pte[p][v] = None
  BY SMTT(30), <1>6, ClearedOthers
<1>8. \A j \in Kinds, v \in Vpn : ~(j = "area" /\ v \in V) => mem'.own[p][<<j, v>>] = mem.own[p][<<j, v>>]
  BY <1>4, <1>7, SlotFacts
<1>9. \A j \in Kinds, v \in V : mem'.own[p][<<j, v>>] = None
  <2> TAKE j \in Kinds, v \in V
  <2>1. CASE j = "area"
    BY <1>2, <1>4, <1>7, <2>1
  <2>2. CASE j # "area"
    <3>1. mem.own[p][<<"area", v>>] # None
      BY <1>1, <1>3, <1>5 DEF TrapInv
    <3>2. mem.own[p][<<j, v>>] = None
      BY SMTT(30), <1>2, <1>5, <2>2, <3>1, OneKind
    <3> QED BY <1>2, <1>8, <2>2, <3>2
  <2> QED BY <2>1, <2>2
<1>10. threads' \in [Proc -> SUBSET Tid] /\ threads'[p] = threads[p] \ {t}
       /\ \A q \in Proc \ {p} : threads'[q] = threads[q]
  BY <1>1, <1>5 DEF TypeOK
<1>11. Reach(mem', p, unmapped[p])
  <2>1. \A v \in Vpn \ V, j \in Kinds : mem'.own[p][<<j, v>>] = mem.own[p][<<j, v>>]
    BY <1>8
  <2>2. /\ \A v \in Vpn \ V : mem'.pte[p][v] = mem.pte[p][v]
        /\ \A v \in V : mem'.pte[p][v] = None
    BY <1>7
  <2>3. Reach(mem, p, unmapped[p])
    BY <1>5
  <2> SUFFICES ASSUME NEW v \in Vpn
               PROVE  /\ \A j \in Kinds : mem'.own[p][<<j, v>>] # None => mem'.pte[p][v] = mem'.own[p][<<j, v>>]
                      /\ mem'.pte[p][v] # None /\ v \notin unmapped[p]
                           => \E j \in Kinds : mem'.own[p][<<j, v>>] = mem'.pte[p][v]
    BY DEF Reach
  <2>4. CASE v \in V
    BY <1>9, <2>2, <2>4
  <2>5. CASE v \notin V
    <3>1. mem'.pte[p][v] = mem.pte[p][v] /\ \A j \in Kinds : mem'.own[p][<<j, v>>] = mem.own[p][<<j, v>>]
      BY <2>1, <2>2, <2>5
    <3>2. /\ \A j \in Kinds : mem.own[p][<<j, v>>] # None => mem.pte[p][v] = mem.own[p][<<j, v>>]
          /\ mem.pte[p][v] # None /\ v \notin unmapped[p]
               => \E j \in Kinds : mem.own[p][<<j, v>>] = mem.pte[p][v]
      BY <2>3 DEF Reach
    <3> QED BY <3>1, <3>2
  <2> QED BY <2>4, <2>5
<1>12. TcbInv(p)'
  <2>1. \A u \in Tid : tasks[p][u] # None => tasks[p][u] \in Kid
    BY <1>5, TaskTypes
  <2>2. \A k \in Kid : mem'.own[p][Kstack(k)] = mem.own[p][Kstack(k)]
    BY <1>4, <1>7, SlotFacts
  <2> QED BY <1>1, <1>5, <2>1, <2>2 DEF TcbInv, Owned
<1>13. TrapInv(p)'
  <2>1. \A u \in threads'[p] : u \in threads[p] /\ u \in Tid /\ TrapCx(u) \in Vpn /\ TrapCx(u) \notin V
    <3>1. \A u \in threads'[p] : u \in threads[p] /\ u # t /\ u \in Tid
      BY <1>5, <1>10, TaskTypes
    <3> QED BY <1>3, <3>1, UserFacts
  <2>2. \A u \in threads'[p] : /\ mem'.own[p][<<"area", TrapCx(u)>>] = mem.own[p][<<"area", TrapCx(u)>>]
                             /\ mem'.pte[p][TrapCx(u)] = mem.pte[p][TrapCx(u)]
    BY <1>2, <1>7, <1>8, <2>1
  <2> QED BY <1>1, <1>5, <2>1, <2>2 DEF TrapInv
<1>14. HeapInv(p)'
  <2>1. \A v \in Vpn : mem'.own[p][<<"heap", v>>] = mem.own[p][<<"heap", v>>]
    BY <1>2, <1>8
  <2> QED BY <1>1, <1>5, <2>1 DEF HeapInv, Owned, bounds
<1>15. ThreadsInv(p)'
  BY <1>1, <1>5, <1>10 DEF ThreadsInv
<1>16. mem'.own[p][Bare] = None
  BY <1>4, <1>5, <1>7, SlotFacts
<1>17. state'[p] = "live" /\ unmapped' = unmapped
  BY <1>1 DEF bounds
<1>18. ProcInv(p)'
  BY <1>11, <1>12, <1>13, <1>14, <1>15, <1>16, <1>17 DEF ProcInv
<1>19. TypeOK'
  BY <1>1, <1>5, <1>7, <1>10, SoundType DEF TypeOK, bounds
<1>20. \A q \in Proc \ {p} : Same(q)
  BY <1>1, <1>7, <1>10 DEF Same, bounds
<1> QED BY <1>7, <1>18, <1>19, <1>20, OneProcess

\* The kernel stack of the TCB in tasks[t].
LEMMA TcbSlots ==
  ASSUME TypeOK, NEW p \in Proc, NEW t \in Tid
  PROVE  LET S == {Kstack(k) : k \in {tasks[p][t]} \ {None}} IN
         /\ S \in SUBSET Slot
         /\ \A s \in S : s[1] = "kstack" /\ tasks[p][t] # None /\ s = Kstack(tasks[p][t])
<1>1. tasks[p][t] # None => tasks[p][t] \in Kid
  BY TaskTypes
<1>2. \A s \in {Kstack(k) : k \in {tasks[p][t]} \ {None}} : tasks[p][t] # None /\ s = Kstack(tasks[p][t])
  OBVIOUS
<1> QED BY SMTT(30), <1>1, <1>2, SlotFacts

\* Dropping a kernel stack leaves the pages and the contexts alone.
LEMMA StackDropped ==
  ASSUME NEW m, Sound(m), NEW p \in Proc, NEW S \in SUBSET Slot, \A s \in S : s[1] = "kstack",
         NEW R, R = Drop(m, p, S)
  PROVE  /\ Cleared(m, R, p, S, {})
         /\ \A s \in Slot : s[1] # "kstack" => R.own[p][s] = m.own[p][s]
         /\ \A j \in Kinds, v \in Vpn : R.own[p][<<j, v>>] = m.own[p][<<j, v>>]
         /\ \A v \in Vpn : R.pte[p][v] = m.pte[p][v]
         /\ R.own[p][Bare] = m.own[p][Bare]
<1>1. Cleared(m, R, p, S, {})
  BY DropClears
<1>2. \A s \in Slot : s[1] # "kstack" => R.own[p][s] = m.own[p][s]
  BY SMTT(30), <1>1, ClearedOthers
<1>3. \A j \in Kinds, v \in Vpn : <<j, v>> \in Slot /\ <<j, v>>[1] # "kstack"
  BY SlotFacts DEF Kinds
<1>4. \A v \in Vpn : R.pte[p][v] = m.pte[p][v]
  BY <1>1, ClearedOthers
<1> QED BY <1>1, <1>2, <1>3, <1>4, SlotFacts

\* sys_waittid of a thread that has exited.
LEMMA WaitTidInv == ASSUME Inv, NEW p \in Proc, NEW t \in Tid, WaitTid(p, t) PROVE Inv'
<1> DEFINE S == {Kstack(k) : k \in {tasks[p][t]} \ {None}}
<1>1. /\ state[p] = "live" /\ tasks[p][t] # None /\ mem' = Drop(mem, p, S)
      /\ tasks' = [tasks EXCEPT ![p][t] = None]
      /\ UNCHANGED <<bounds, state, threads, tasks_len, trap_cx, halt>>
  BY DEF WaitTid, Running, DropTcb
<1>2. /\ Sound(mem) /\ TypeOK /\ mem.own[p][Bare] = None /\ TcbInv(p) /\ TrapInv(p)
      /\ ThreadsInv(p) /\ Reach(mem, p, unmapped[p]) /\ HeapInv(p)
  BY <1>1, LiveFacts
<1>3. S \in SUBSET Slot /\ \A s \in S : s[1] = "kstack" /\ s = Kstack(tasks[p][t])
  BY <1>2, TcbSlots
<1> HIDE DEF S
<1>4. /\ Cleared(mem, mem', p, S, {})
      /\ \A j \in Kinds, v \in Vpn : mem'.own[p][<<j, v>>] = mem.own[p][<<j, v>>]
      /\ \A v \in Vpn : mem'.pte[p][v] = mem.pte[p][v]
      /\ mem'.own[p][Bare] = mem.own[p][Bare]
  BY <1>1, <1>2, <1>3, StackDropped
<1>5. /\ Sound(mem') /\ \A q \in Proc \ {p} : mem'.own[q] = mem.own[q] /\ mem'.pte[q] = mem.pte[q]
      /\ \A s \in Slot \ S : mem'.own[p][s] = mem.own[p][s]
  BY SMTT(30), <1>4, ClearedOthers
<1>6. /\ tasks' \in [Proc -> [Tid -> Kid \cup {None}]] /\ tasks'[p][t] = None
      /\ \A u \in Tid \ {t} : tasks'[p][u] = tasks[p][u]
      /\ \A q \in Proc \ {p} : tasks'[q] = tasks[q]
  BY <1>1, <1>2 DEF TypeOK
<1>7. TcbInv(p)'
  <2> SUFFICES ASSUME NEW u \in Tid, tasks'[p][u] # None
               PROVE  /\ mem'.own[p][Kstack(tasks'[p][u])] # None
                      /\ \A w \in Tid : tasks'[p][w] = tasks'[p][u] => w = u
    BY DEF TcbInv, Owned
  <2>1. u # t /\ tasks'[p][u] = tasks[p][u] /\ tasks[p][u] \in Kid
    BY <1>2, <1>6, TaskTypes
  <2>2. mem.own[p][Kstack(tasks[p][u])] # None /\ \A w \in Tid : tasks[p][w] = tasks[p][u] => w = u
    BY <1>2, <1>6, <2>1 DEF TcbInv, Owned
  <2>3. Kstack(tasks[p][u]) \notin S
    BY <1>3, <2>1, <2>2, KstackInjective
  <2>4. mem'.own[p][Kstack(tasks[p][u])] # None
    BY <1>5, <2>1, <2>2, <2>3, SlotFacts
  <2>5. \A w \in Tid : tasks'[p][w] = tasks'[p][u] => w = u
    BY <1>6, <2>1, <2>2
  <2> QED BY <2>1, <2>4, <2>5
<1>8. \A u \in threads[p] : TrapCx(u) \in Vpn
  BY <1>2, TaskTypes
<1>9. "area" \in Kinds /\ "heap" \in Kinds
  BY DEF Kinds
<1>10. TrapInv(p)'
  BY <1>1, <1>2, <1>4, <1>8, <1>9 DEF TrapInv
<1>11. HeapInv(p)'
  BY <1>1, <1>2, <1>4, <1>9 DEF HeapInv, Owned, bounds
<1>12. ThreadsInv(p)'
  BY <1>1, <1>2 DEF ThreadsInv
<1>13. Reach(mem', p, unmapped[p])
  BY <1>2, <1>4, SameReach
<1>14. state'[p] = "live" /\ unmapped' = unmapped
  BY <1>1 DEF bounds
<1>15. ProcInv(p)'
  BY <1>2, <1>4, <1>7, <1>10, <1>11, <1>12, <1>13, <1>14 DEF ProcInv
<1>16. TypeOK'
  BY <1>1, <1>2, <1>5, <1>6, SoundType DEF TypeOK, bounds
<1>17. \A q \in Proc \ {p} : Same(q)
  BY <1>1, <1>5, <1>6 DEF Same, bounds
<1> QED BY <1>5, <1>15, <1>16, <1>17, OneProcess

\* The exit of the main thread.
LEMMA ExitMainInv == ASSUME Inv, NEW p \in Proc, NEW held \in SUBSET Tid, ExitMain(p, held) PROVE Inv'
<1> DEFINE pages == UNION {User(t) : t \in threads[p]}
           kids == {tasks[p][t] : t \in Tid \ held} \ {None}
           a == Unmap(mem, p, pages)
           b == Drop(a, p, Slots("area", Vpn))
<1>1. CASE p = InitProc
  <2>1. Panic("shutdown")
    BY <1>1 DEF ExitMain
  <2> QED BY <2>1, PanicKeeps
<1>2. CASE p # InitProc
  <2>1. /\ state[p] = "live" /\ mem' = Drop(b, p, Slots("kstack", kids))
        /\ state' = [state EXCEPT ![p] = "zombie"]
        /\ threads' = [threads EXCEPT ![p] = {}]
        /\ tasks' = [tasks EXCEPT ![p] = [t \in Tid |-> None]]
        /\ tasks_len' = [tasks_len EXCEPT ![p] = 0]
        /\ UNCHANGED <<bounds, trap_cx, halt>>
    BY <1>2 DEF ExitMain, Running
  <2>2. Sound(mem) /\ TypeOK /\ mem.own[p][Bare] = None
    BY <2>1, LiveFacts
  <2>3. pages \in SUBSET Vpn
    <3>1. threads[p] \subseteq Tid
      BY <2>2, TaskTypes
    <3> QED BY SMTT(30), <3>1, UserFacts
  <2>4. kids \subseteq Kid
    BY <2>2, TaskTypes
  <2> DEFINE S == Slots("area", pages)
             T == Slots("area", Vpn)
             K == Slots("kstack", kids)
  <2>5. S \in SUBSET Slot /\ T \in SUBSET Slot /\ (\A s \in S : s[1] = "area") /\ (\A s \in T : s[1] = "area")
    <3> HIDE DEF pages
    <3>1. "area" \in Kinds /\ Vpn \in SUBSET Vpn
      BY DEF Kinds
    <3> QED BY <2>3, <3>1, SlotsOf
  <2>6. K \in SUBSET Slot /\ \A s \in K : s[1] = "kstack"
    <3> HIDE DEF kids
    <3> QED BY <2>4 DEF Slots, Slot
  <2> HIDE DEF pages, kids
  <2>7. Cleared(mem, a, p, S, pages)
    BY <2>2, <2>3, UnmapFacts
  <2> HIDE DEF S, T, K, a
  <2>8. Sound(a) /\ a.own[p][Bare] = None /\ \A q \in Proc \ {p} : a.own[q] = mem.own[q] /\ a.pte[q] = mem.pte[q]
    BY <2>2, <2>5, <2>7, ClearedOthers, SlotFacts
  <2>9. Cleared(a, b, p, T, {})
    BY <2>5, <2>8, DropClears DEF T
  <2> HIDE DEF b
  <2>10. Sound(b) /\ b.own[p][Bare] = None /\ \A q \in Proc \ {p} : b.own[q] = mem.own[q] /\ b.pte[q] = mem.pte[q]
    <3>1. /\ Sound(b) /\ \A q \in Proc \ {p} : b.own[q] = a.own[q] /\ b.pte[q] = a.pte[q]
          /\ \A s \in Slot \ T : b.own[p][s] = a.own[p][s]
      BY <2>9, ClearedOthers
    <3>2. Bare \in Slot \ T
      BY <2>5, SlotFacts
    <3>3. b.own[p][Bare] = a.own[p][Bare]
      BY <3>1, <3>2
    <3> QED BY <2>8, <3>1, <3>3
  <2>11. Cleared(b, mem', p, K, {})
    BY <2>1, <2>6, <2>10, DropClears DEF K
  <2>12. /\ Sound(mem') /\ mem'.own[p][Bare] = None
         /\ \A q \in Proc \ {p} : mem'.own[q] = mem.own[q] /\ mem'.pte[q] = mem.pte[q]
    <3>1. /\ Sound(mem') /\ \A q \in Proc \ {p} : mem'.own[q] = b.own[q] /\ mem'.pte[q] = b.pte[q]
          /\ \A s \in Slot \ K : mem'.own[p][s] = b.own[p][s]
      BY <2>11, ClearedOthers
    <3>2. Bare \in Slot \ K
      BY <2>6, SlotFacts
    <3>3. mem'.own[p][Bare] = b.own[p][Bare]
      BY <3>1, <3>2
    <3> QED BY <2>10, <3>1, <3>3
  <2>13. /\ state' \in [Proc -> {"none", "live", "zombie"}] /\ state'[p] = "zombie"
         /\ \A q \in Proc \ {p} : state'[q] = state[q]
    BY <2>1, <2>2 DEF TypeOK
  <2>14. /\ threads' \in [Proc -> SUBSET Tid] /\ threads'[p] = {} /\ \A q \in Proc \ {p} : threads'[q] = threads[q]
    BY <2>1, <2>2 DEF TypeOK
  <2>15. /\ tasks' \in [Proc -> [Tid -> Kid \cup {None}]] /\ tasks'[p] = [t \in Tid |-> None]
         /\ \A q \in Proc \ {p} : tasks'[q] = tasks[q]
    BY <2>1, <2>2 DEF TypeOK
  <2>16. /\ tasks_len' \in [Proc -> Nat] /\ \A q \in Proc \ {p} : tasks_len'[q] = tasks_len[q]
    BY <2>1, <2>2 DEF TypeOK
  <2>17. ProcInv(p)'
    BY <2>12, <2>13, <2>14, <2>15 DEF ProcInv, TcbInv, TrapInv
  <2>18. TypeOK'
    BY <2>1, <2>2, <2>12, <2>13, <2>14, <2>15, <2>16, SoundType DEF TypeOK, bounds
  <2>19. \A q \in Proc \ {p} : Same(q)
    BY <2>1, <2>12, <2>13, <2>14, <2>15, <2>16 DEF Same, bounds
  <2> QED BY <2>12, <2>17, <2>18, <2>19, OneProcess
<1> QED BY <1>1, <1>2

\* sys_wait4 of a zombie.
LEMMA ReapInv == ASSUME Inv, NEW p \in Proc, Reap(p) PROVE Inv'
<1> DEFINE S == {s \in Slot : s[1] # "kstack"}
<1>1. /\ state[p] = "zombie" /\ mem' = DropSpace(mem, p, S)
      /\ heap_end' = [heap_end EXCEPT ![p] = HEAP_BASE]
      /\ mmap_end' = [mmap_end EXCEPT ![p] = MMAP_BASE]
      /\ unmapped' = [unmapped EXCEPT ![p] = {}]
      /\ state' = [state EXCEPT ![p] = "none"]
      /\ trap_cx' = [trap_cx EXCEPT ![p] = [t \in Tid |-> None]]
      /\ UNCHANGED <<threads, tasks, tasks_len, halt>>
  BY DEF Reap
<1>2. TypeOK /\ Sound(mem) /\ threads[p] = {} /\ tasks[p] = [t \in Tid |-> None]
  BY <1>1 DEF Inv, ProcInv
<1>3. S \in SUBSET Slot /\ \A s \in Slot : s[1] # "kstack" => s \in S
  OBVIOUS
<1> HIDE DEF S
<1>4. Cleared(mem, mem', p, S, Vpn)
  BY <1>1, <1>2, <1>3, DropSpaceFacts
<1>5. /\ Sound(mem') /\ \A q \in Proc \ {p} : mem'.own[q] = mem.own[q] /\ mem'.pte[q] = mem.pte[q]
      /\ \A s \in S : mem'.own[p][s] = None
      /\ \A v \in Vpn : mem'.pte[p][v] = None
  BY SMTT(30), <1>4, ClearedOthers
<1>6. NoSpace(mem', p)
  BY <1>3, <1>5 DEF NoSpace
<1>7. \A j \in Kinds, v \in Vpn : <<j, v>> \in Slot /\ <<j, v>>[1] # "kstack"
  BY SlotFacts DEF Kinds
<1>8. Blank(mem', p)
  BY <1>5, <1>6, <1>7 DEF Blank, NoSpace
<1>9. mem'.own[p][Bare] = None
  BY <1>6, SlotFacts DEF NoSpace
<1>10. /\ state' \in [Proc -> {"none", "live", "zombie"}] /\ state'[p] = "none"
       /\ \A q \in Proc \ {p} : state'[q] = state[q]
  BY <1>1, <1>2 DEF TypeOK
<1>11. /\ heap_end' \in [Proc -> Nat] /\ mmap_end' \in [Proc -> Nat]
       /\ \A q \in Proc \ {p} : heap_end'[q] = heap_end[q]
  BY <1>1, <1>2, MemoryConstants DEF TypeOK
<1>12. unmapped' \in [Proc -> SUBSET Vpn] /\ \A q \in Proc \ {p} : unmapped'[q] = unmapped[q]
  BY <1>1, <1>2 DEF TypeOK
<1>13. /\ trap_cx' \in [Proc -> [Tid -> Frame \cup {None}]]
       /\ \A q \in Proc \ {p} : trap_cx'[q] = trap_cx[q]
  BY <1>1, <1>2 DEF TypeOK
<1>14. ProcInv(p)'
  BY <1>1, <1>2, <1>6, <1>8, <1>9, <1>10 DEF ProcInv, TcbInv, TrapInv
<1>15. TypeOK'
  BY <1>1, <1>2, <1>5, <1>10, <1>11, <1>12, <1>13, SoundType DEF TypeOK
<1>16. \A q \in Proc \ {p} : Same(q)
  BY <1>1, <1>5, <1>10, <1>11, <1>12, <1>13 DEF Same
<1> QED BY <1>5, <1>14, <1>15, <1>16, OneProcess
=============================================================================
