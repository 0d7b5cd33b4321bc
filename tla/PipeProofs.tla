----------------------------- MODULE PipeProofs -----------------------------
(* Proofs about Pipe for a ring of any size and any threads, processes and  *)
(* calls: the loops of read_byte and write_byte move a prefix of the bytes, *)
(* so that the ring implements the queue of PipeFifo.                       *)
EXTENDS Pipe, SeqLemmas, SequenceTheorems

\* Most leaves are first-order: Zenon has a short try before the SMT solver.
USE ZenonT(6), SMTT(20), ZenonT(40)

N == RING_BUFFER_SIZE
Index == 0 .. N - 1

\* Indices wrap around at most once.
LEMMA WrapFacts ==
  ASSUME NEW i \in Nat, i < 2 * N
  PROVE  /\ Wrap(i) = IF i < N THEN i ELSE i - N
         /\ Wrap(i) \in Index
<1>1. N \in Nat \ {0}
  BY PipeConstants DEF N
<1>2. Wrap(i) = i % N
  BY DEF Wrap, N
<1> HIDE DEF N
<1>3. i % N = IF i < N THEN i ELSE i - N
  BY <1>1
<1> QED BY <1>1, <1>2, <1>3 DEF Index

-----------------------------------------------------------------------------
(* One byte. *)

Ring == [arr : [Index -> Byte], head : Index, tail : Index, status : {"Empty", "Normal", "Full"}]
Agrees(r) == r \in Ring /\ (r.status = "Normal" <=> r.head # r.tail)
\* The i-th byte in the ring, from the oldest one on.
At(r, i) == r.arr[Wrap(r.head + i - 1)]

\* The number of bytes in the ring, and what status says of it.
LEMMA AvailableFacts ==
  ASSUME NEW r, Agrees(r)
  PROVE  /\ AvailableRead(r) \in 0 .. N
         /\ AvailableWrite(r) = N - AvailableRead(r)
         /\ Wrap(r.head + AvailableRead(r)) = r.tail
         /\ r.status = "Empty" <=> AvailableRead(r) = 0
         /\ r.status = "Full" <=> AvailableRead(r) = N
<1>1. N \in Nat \ {0} /\ N = RING_BUFFER_SIZE
  BY PipeConstants DEF N
<1>2. /\ r.head \in Index /\ r.tail \in Index /\ r.status \in {"Empty", "Normal", "Full"}
      /\ r.status = "Normal" <=> r.head # r.tail
  BY DEF Agrees, Ring
<1> DEFINE h == r.head
           t == r.tail
           n == AvailableRead(r)
<1> HIDE DEF N
<1>3. n = IF r.status = "Empty" THEN 0 ELSE IF t > h THEN t - h ELSE t + N - h
  BY <1>1 DEF AvailableRead
<1>4. AvailableWrite(r) = IF r.status = "Full" THEN 0 ELSE N - n
  BY <1>1 DEF AvailableWrite
<1>5. n \in 0 .. N /\ (r.status = "Empty" <=> n = 0) /\ (r.status = "Full" <=> n = N)
  BY <1>1, <1>2, <1>3 DEF Index
<1> DEFINE x == h + n
<1>6. x \in Nat /\ x < 2 * N /\ t = IF x < N THEN x ELSE x - N
  BY <1>1, <1>2, <1>3 DEF Index
<1>7. Wrap(x) = t
  <2> HIDE DEF x
  <2> QED BY <1>6, WrapFacts
<1> QED BY <1>1, <1>4, <1>5, <1>7

\* write_byte into a ring that is not full appends the byte.
Wrote(r, R, b) ==
  /\ Agrees(R) /\ AvailableRead(R) = AvailableRead(r) + 1 /\ R.head = r.head
  /\ At(R, AvailableRead(r) + 1) = b
  /\ \A i \in 1 .. AvailableRead(r) : At(R, i) = At(r, i)

\* The fields of the ring after write_byte.
LEMMA WriteByteFields ==
  ASSUME NEW r \in Ring, NEW b \in Byte, NEW R, R = WriteByte(r, b)
  PROVE  /\ R \in Ring /\ R.head = r.head /\ R.tail = Wrap(r.tail + 1)
         /\ R.arr = [r.arr EXCEPT ![r.tail] = b]
         /\ R.status = IF R.tail = R.head THEN "Full" ELSE "Normal"
<1> DEFINE e == Wrap(r.tail + 1)
           a == [r.arr EXCEPT ![r.tail] = b]
           s == IF e = r.head THEN "Full" ELSE "Normal"
<1>1. N \in Nat \ {0}
  BY PipeConstants DEF N
<1>2. r.tail \in Index /\ r.arr \in [Index -> Byte] /\ r.head \in Index
  BY DEF Ring
<1>3. r.tail + 1 \in Nat /\ r.tail + 1 < 2 * N
  BY <1>1, <1>2 DEF Index
<1>4. e \in Index
  BY <1>3, WrapFacts
<1>5. a \in [Index -> Byte]
  BY <1>2
<1>6. s \in {"Empty", "Normal", "Full"}
  OBVIOUS
<1>7. R = [arr |-> a, head |-> r.head, tail |-> e, status |-> s]
  BY DEF WriteByte, Ring
<1>8. s = IF e = r.head THEN "Full" ELSE "Normal"
  OBVIOUS
<1> HIDE DEF e, a, s
<1>9. R \in Ring /\ R.head = r.head /\ R.tail = e /\ R.arr = a /\ R.status = s
  BY SMT, <1>2, <1>4, <1>5, <1>6, <1>7 DEF Ring
<1> QED BY <1>8, <1>9 DEF e, a

\* write_byte of a ring that is not full adds one byte at the end.
LEMMA WriteByteFacts ==
  ASSUME NEW r, Agrees(r), AvailableRead(r) < N, NEW b \in Byte, NEW R, R = WriteByte(r, b)
  PROVE  Wrote(r, R, b)
<1> DEFINE h == r.head
           t == r.tail
           n == AvailableRead(r)
<1>1. N \in Nat \ {0} /\ N = RING_BUFFER_SIZE
  BY PipeConstants DEF N
<1>2. /\ r \in Ring /\ h \in Index /\ t \in Index /\ n \in 0 .. N - 1 /\ Wrap(h + n) = t
      /\ r.status # "Full"
  BY SMT, <1>1, AvailableFacts DEF Agrees, Ring
<1>3. /\ R \in Ring /\ R.head = h /\ R.tail = Wrap(t + 1)
      /\ R.arr = [r.arr EXCEPT ![t] = b]
      /\ R.status = IF R.tail = R.head THEN "Full" ELSE "Normal"
  BY SMT, <1>2, WriteByteFields
<1>4. Agrees(R)
  BY <1>3 DEF Agrees
<1> HIDE DEF N
<1>5. t = IF h + n < N THEN h + n ELSE h + n - N
  BY SMT, <1>1, <1>2, WrapFacts DEF Index
<1>6. Wrap(t + 1) = IF t + 1 < N THEN t + 1 ELSE t + 1 - N
  BY SMT, <1>1, <1>2, WrapFacts DEF Index
<1>7. AvailableRead(R) = IF R.status = "Empty" THEN 0
                         ELSE IF R.tail > R.head THEN R.tail - R.head ELSE R.tail + N - R.head
  BY <1>1 DEF AvailableRead
<1>8. AvailableRead(R) = n + 1
  BY SMT, <1>1, <1>2, <1>3, <1>5, <1>6, <1>7 DEF Index
<1>9. At(R, n + 1) = b
  <2>1. h + (n + 1) - 1 = h + n
    BY <1>1, <1>2 DEF Index
  <2>2. Wrap(R.head + (n + 1) - 1) = t
    BY <1>2, <1>3, <2>1
  <2> QED BY SMT, <1>2, <1>3, <2>2 DEF At, Ring
<1>10. ASSUME NEW i \in 1 .. n PROVE At(R, i) = At(r, i)
  <2> DEFINE x == h + i - 1
  <2>1. x \in Nat /\ x < 2 * N
    BY <1>1, <1>2 DEF Index
  <2>2. Wrap(x) \in Index /\ Wrap(x) = IF x < N THEN x ELSE x - N
    <3> HIDE DEF x
    <3> QED BY <2>1, WrapFacts
  <2>3. Wrap(x) # t
    BY <1>1, <1>2, <1>5, <2>2 DEF Index
  <2>4. At(R, i) = R.arr[Wrap(x)] /\ At(r, i) = r.arr[Wrap(x)]
    BY <1>3 DEF At
  <2> HIDE DEF x
  <2>5. r.arr \in [Index -> Byte]
    BY <1>2 DEF Ring
  <2> QED BY <1>2, <1>3, <2>2, <2>3, <2>4, <2>5
<1> QED BY <1>3, <1>4, <1>8, <1>9, <1>10 DEF Wrote

\* read_byte from a ring that is not empty takes the oldest byte.
Took(r, R) ==
  /\ Agrees(R) /\ AvailableRead(R) = AvailableRead(r) - 1 /\ R.arr = r.arr
  /\ \A i \in 1 .. AvailableRead(r) - 1 : At(R, i) = At(r, i + 1)

\* The fields of the ring after read_byte.
LEMMA ReadByteFields ==
  ASSUME NEW r \in Ring, NEW R, R = ReadByte(r)
  PROVE  /\ R \in Ring /\ R.tail = r.tail /\ R.head = Wrap(r.head + 1) /\ R.arr = r.arr
         /\ R.status = IF R.tail = R.head THEN "Empty" ELSE "Normal"
<1> DEFINE e == Wrap(r.head + 1)
           s == IF e = r.tail THEN "Empty" ELSE "Normal"
<1>1. N \in Nat \ {0}
  BY PipeConstants DEF N
<1>2. r.tail \in Index /\ r.arr \in [Index -> Byte] /\ r.head \in Index
  BY DEF Ring
<1>3. r.head + 1 \in Nat /\ r.head + 1 < 2 * N
  BY <1>1, <1>2 DEF Index
<1>4. e \in Index
  BY <1>3, WrapFacts
<1>5. s \in {"Empty", "Normal", "Full"}
  OBVIOUS
<1>6. R = [arr |-> r.arr, head |-> e, tail |-> r.tail, status |-> s]
  BY DEF ReadByte, Ring
<1>7. s = IF e = r.tail THEN "Empty" ELSE "Normal"
  OBVIOUS
<1> HIDE DEF e, s
<1>8. R \in Ring /\ R.head = e /\ R.tail = r.tail /\ R.arr = r.arr /\ R.status = s
  BY SMT, <1>2, <1>4, <1>5, <1>6 DEF Ring
<1> QED BY <1>7, <1>8 DEF e

\* read_byte of a ring that is not empty takes the first byte.
LEMMA ReadByteFacts ==
  ASSUME NEW r, Agrees(r), AvailableRead(r) > 0, NEW R, R = ReadByte(r)
  PROVE  Took(r, R)
<1> DEFINE h == r.head
           t == r.tail
           n == AvailableRead(r)
<1>1. N \in Nat \ {0} /\ N = RING_BUFFER_SIZE
  BY PipeConstants DEF N
<1>2. r \in Ring /\ h \in Index /\ t \in Index /\ n \in 1 .. N /\ Wrap(h + n) = t
  BY SMT, <1>1, AvailableFacts DEF Agrees, Ring
<1>3. /\ R \in Ring /\ R.tail = t /\ R.head = Wrap(h + 1) /\ R.arr = r.arr
      /\ R.status = IF R.tail = R.head THEN "Empty" ELSE "Normal"
  BY <1>2, ReadByteFields
<1>4. Agrees(R)
  BY <1>3 DEF Agrees
<1> HIDE DEF N
<1>5. t = IF h + n < N THEN h + n ELSE h + n - N
  BY SMT, <1>1, <1>2, WrapFacts DEF Index
<1>6. Wrap(h + 1) = IF h + 1 < N THEN h + 1 ELSE h + 1 - N
  BY SMT, <1>1, <1>2, WrapFacts DEF Index
<1>7. AvailableRead(R) = IF R.status = "Empty" THEN 0
                         ELSE IF R.tail > R.head THEN R.tail - R.head ELSE R.tail + N - R.head
  BY <1>1 DEF AvailableRead
<1>8. AvailableRead(R) = n - 1
  BY <1>1, <1>2, <1>3, <1>5, <1>6, <1>7 DEF Index
<1>9. ASSUME NEW i \in 1 .. n - 1 PROVE At(R, i) = At(r, i + 1)
  <2> DEFINE x == h + (i + 1) - 1
             y == R.head + i - 1
  <2>1. x \in Nat /\ x < 2 * N /\ y \in Nat /\ y < 2 * N
    BY <1>1, <1>2, <1>3, <1>6 DEF Index
  <2>2. Wrap(x) = (IF x < N THEN x ELSE x - N) /\ Wrap(y) = IF y < N THEN y ELSE y - N
    <3> HIDE DEF x, y
    <3> QED BY <2>1, WrapFacts
  <2>3. Wrap(x) = Wrap(y)
    BY <1>1, <1>2, <1>3, <1>6, <2>2 DEF Index
  <2> QED BY <1>3, <2>3 DEF At
<1> QED BY <1>3, <1>4, <1>8, <1>9 DEF Took

-----------------------------------------------------------------------------
(* Loops over bytes. *)

\* The states that the loop of a write goes through.
LEMMA WriteBytesSteps ==
  ASSUME NEW r \in Ring, NEW d \in Seq(Byte)
  PROVE  \E W : /\ WriteBytes(r, d) = W[Len(d)] /\ W[0] = r
                /\ \A i \in 1 .. Len(d) : W[i] = WriteByte(W[i - 1], d[i])
<1> DEFINE n == Len(d)
           B(g) == [i \in 0 .. n |-> IF i = 0 THEN r ELSE WriteByte(g[i - 1], d[i])]
           W == CHOOSE g : g = B(g)
           H == [x \in (1 .. n) \X Ring |-> WriteByte(x[2], d[x[1]])]
<1>1. n \in Nat /\ \A i \in 1 .. n : d[i] \in Byte
  OBVIOUS
<1>2. \A i \in 1 .. n : \A x \in Ring : WriteByte(x, d[i]) \in Ring
  BY <1>1, WriteByteFields
<1>3. H \in [(1 .. n) \X Ring -> Ring] /\ \A i \in 1 .. n : \A x \in Ring : H[<<i, x>>] = WriteByte(x, d[i])
  BY <1>2
<1>4. PICK g : Iterates(g, H, n, Ring, r)
  <2>1. IsStep(H, n, Ring)
    BY <1>3 DEF IsStep
  <2> HIDE DEF H, n
  <2> QED BY <1>1, <2>1, RecursionExists
<1>5. \A i \in 1 .. n : g[i] = WriteByte(g[i - 1], d[i])
  <2>1. \A i \in 1 .. n : i - 1 \in 0 .. n
    BY <1>1
  <2> HIDE DEF H, n
  <2> QED BY <1>3, <1>4, <2>1 DEF Iterates
<1>6. g = B(g)
  <2> HIDE DEF n, H
  <2>1. \A i \in 0 .. n : i # 0 => i \in 1 .. n
    BY <1>1
  <2>2. \A i \in 0 .. n : g[i] = IF i = 0 THEN r ELSE WriteByte(g[i - 1], d[i])
    BY <1>4, <1>5, <2>1 DEF Iterates
  <2> QED BY <1>4, <2>2 DEF Iterates
<1>7. W = B(W)
  <2> HIDE DEF B
  <2> QED BY <1>6, Zenon
<1>8. WriteBytes(r, d) = W[n]
  BY DEF WriteBytes
<1> HIDE DEF W, n
<1>9. 0 \in 0 .. n /\ \A i \in 1 .. n : i \in 0 .. n /\ i # 0
  BY <1>1
<1>10. W[0] = r /\ \A i \in 1 .. n : W[i] = WriteByte(W[i - 1], d[i])
  BY <1>7, <1>9
<1> QED BY <1>8, <1>10 DEF n

\* The loop of a write that fits appends its bytes.
WroteAll(r, R, d, k) ==
  /\ Agrees(R) /\ AvailableRead(R) = AvailableRead(r) + k /\ R.head = r.head
  /\ \A i \in 1 .. AvailableRead(r) : At(R, i) = At(r, i)
  /\ \A i \in 1 .. k : At(R, AvailableRead(r) + i) = d[i]

\* Bytes that fit are all added, in their order.
LEMMA WriteBytesFacts ==
  ASSUME NEW r, Agrees(r), NEW d \in Seq(Byte), AvailableRead(r) + Len(d) <= N
  PROVE  WroteAll(r, WriteBytes(r, d), d, Len(d))
<1> DEFINE n == Len(d)
           a == AvailableRead(r)
<1>1. r \in Ring /\ n \in Nat /\ N \in Nat /\ a \in Nat /\ \A i \in 1 .. n : d[i] \in Byte
  BY SMT, PipeConstants, AvailableFacts DEF N, Agrees
<1>2. PICK W : /\ WriteBytes(r, d) = W[n] /\ W[0] = r
               /\ \A i \in 1 .. n : W[i] = WriteByte(W[i - 1], d[i])
  BY <1>1, WriteBytesSteps
<1> DEFINE I == {k \in Nat : k <= n => WroteAll(r, W[k], d, k)}
<1>3. 0 \in I
  BY SMT, <1>1, <1>2 DEF WroteAll
<1>4. ASSUME NEW k \in Nat, k \in I PROVE k + 1 \in I
  <2> SUFFICES ASSUME k + 1 <= n PROVE WroteAll(r, W[k + 1], d, k + 1)
    OBVIOUS
  <2> DEFINE Q == W[k]
             R == W[k + 1]
  <2>1. WroteAll(r, Q, d, k) /\ k + 1 \in 1 .. n /\ (k + 1) - 1 = k
    BY <1>1, <1>4
  <2>2. R = WriteByte(Q, d[k + 1]) /\ d[k + 1] \in Byte
    BY <1>1, <1>2, <2>1
  <2>3. Agrees(Q) /\ AvailableRead(Q) < N /\ AvailableRead(Q) = a + k
    BY <1>1, <2>1 DEF WroteAll
  <2> HIDE DEF Q, R, I
  <2>4. Wrote(Q, R, d[k + 1])
    BY <2>2, <2>3, WriteByteFacts
  <2>5. \A i \in 1 .. a : At(R, i) = At(r, i)
    <3>1. \A i \in 1 .. a : i \in 1 .. a + k
      BY <1>1
    <3> QED BY <2>1, <2>3, <2>4, <3>1 DEF WroteAll, Wrote
  <2>6. \A i \in 1 .. k + 1 : At(R, a + i) = d[i]
    <3>1. \A i \in 1 .. k : a + i \in 1 .. a + k
      BY <1>1
    <3>2. \A i \in 1 .. k : At(R, a + i) = d[i]
      BY <2>1, <2>3, <2>4, <3>1 DEF WroteAll, Wrote
    <3>3. At(R, a + (k + 1)) = d[k + 1]
      <4>1. a + k + 1 = a + (k + 1)
        BY <1>1
      <4> QED BY <2>3, <2>4, <4>1 DEF Wrote
    <3> QED BY <3>2, <3>3
  <2>7. AvailableRead(R) = a + (k + 1)
    BY <1>1, <2>3, <2>4 DEF Wrote
  <2>8. Agrees(R) /\ R.head = r.head
    BY <2>1, <2>4 DEF Wrote, WroteAll
  <2> QED BY <2>5, <2>6, <2>7, <2>8 DEF WroteAll, R
<1>5. n \in I
  <2> HIDE DEF I
  <2> QED BY <1>1, <1>3, <1>4, NatSetInduction
<1> QED BY <1>1, <1>2, <1>5

\* The states that the loop of a read goes through.
LEMMA ReadBytesSteps ==
  ASSUME NEW r \in Ring, NEW n \in Nat
  PROVE  \E W : /\ ReadBytes(r, n) = W[n] /\ W[0] = r
                /\ \A i \in 1 .. n : W[i] = ReadByte(W[i - 1])
<1> DEFINE B(g) == [i \in 0 .. n |-> IF i = 0 THEN r ELSE ReadByte(g[i - 1])]
           W == CHOOSE g : g = B(g)
           H == [x \in (1 .. n) \X Ring |-> ReadByte(x[2])]
<1>1. \A x \in Ring : ReadByte(x) \in Ring
  BY ReadByteFields
<1>2. H \in [(1 .. n) \X Ring -> Ring] /\ \A i \in 1 .. n : \A x \in Ring : H[<<i, x>>] = ReadByte(x)
  BY <1>1
<1>3. PICK g : Iterates(g, H, n, Ring, r)
  <2>1. IsStep(H, n, Ring)
    BY <1>2 DEF IsStep
  <2> HIDE DEF H
  <2> QED BY <2>1, RecursionExists
<1>4. \A i \in 1 .. n : g[i] = ReadByte(g[i - 1])
  <2>1. \A i \in 1 .. n : i - 1 \in 0 .. n
    OBVIOUS
  <2> HIDE DEF H
  <2> QED BY <1>2, <1>3, <2>1 DEF Iterates
<1>5. g = B(g)
  <2> HIDE DEF H
  <2>1. \A i \in 0 .. n : i # 0 => i \in 1 .. n
    OBVIOUS
  <2>2. \A i \in 0 .. n : g[i] = IF i = 0 THEN r ELSE ReadByte(g[i - 1])
    BY <1>3, <1>4, <2>1 DEF Iterates
  <2> QED BY <1>3, <2>2 DEF Iterates
<1>6. W = B(W)
  <2> HIDE DEF B
  <2> QED BY <1>5, Zenon
<1>7. ReadBytes(r, n) = W[n]
  BY DEF ReadBytes
<1> HIDE DEF W
<1>8. 0 \in 0 .. n /\ \A i \in 1 .. n : i \in 0 .. n /\ i # 0
  OBVIOUS
<1>9. W[0] = r /\ \A i \in 1 .. n : W[i] = ReadByte(W[i - 1])
  BY <1>6, <1>8
<1> QED BY <1>7, <1>9

\* The loop of a read of bytes that are there takes them off the front.
TookAll(r, R, k) ==
  /\ Agrees(R) /\ AvailableRead(R) = AvailableRead(r) - k
  /\ \A i \in 1 .. AvailableRead(r) - k : At(R, i) = At(r, i + k)

\* As many bytes as there are can be taken.
LEMMA ReadBytesFacts ==
  ASSUME NEW r, Agrees(r), NEW n \in 0 .. AvailableRead(r)
  PROVE  TookAll(r, ReadBytes(r, n), n)
<1> DEFINE a == AvailableRead(r)
<1>1. r \in Ring /\ n \in Nat /\ a \in Nat
  BY SMT, PipeConstants, AvailableFacts DEF N, Agrees
<1>2. PICK W : ReadBytes(r, n) = W[n] /\ W[0] = r /\ \A i \in 1 .. n : W[i] = ReadByte(W[i - 1])
  BY <1>1, ReadBytesSteps
<1> DEFINE I == {k \in Nat : k <= n => TookAll(r, W[k], k)}
<1>3. 0 \in I
  BY SMT, <1>1, <1>2 DEF TookAll
<1>4. ASSUME NEW k \in Nat, k \in I PROVE k + 1 \in I
  <2> SUFFICES ASSUME k + 1 <= n PROVE TookAll(r, W[k + 1], k + 1)
    OBVIOUS
  <2> DEFINE Q == W[k]
             R == W[k + 1]
  <2>1. TookAll(r, Q, k) /\ k + 1 \in 1 .. n /\ (k + 1) - 1 = k
    BY <1>1, <1>4
  <2>2. R = ReadByte(Q)
    BY <1>1, <1>2, <2>1
  <2>3. Agrees(Q) /\ AvailableRead(Q) > 0 /\ AvailableRead(Q) = a - k
    BY <1>1, <2>1 DEF TookAll
  <2> HIDE DEF Q, R, I
  <2>4. Took(Q, R)
    BY <2>2, <2>3, ReadByteFacts
  <2>5. ASSUME NEW i \in 1 .. a - (k + 1) PROVE At(R, i) = At(r, i + (k + 1))
    <3>1. i \in 1 .. (a - k) - 1 /\ i + 1 \in 1 .. a - k /\ (i + 1) + k = i + (k + 1)
      BY <1>1
    <3>2. At(R, i) = At(Q, i + 1)
      BY <2>3, <2>4, <3>1 DEF Took
    <3>3. At(Q, i + 1) = At(r, (i + 1) + k)
      BY <2>1, <3>1 DEF TookAll
    <3> QED BY <3>1, <3>2, <3>3
  <2>6. AvailableRead(R) = a - (k + 1)
    BY <1>1, <2>3, <2>4 DEF Took
  <2> QED BY <2>4, <2>5, <2>6 DEF TookAll, Took, R
<1>5. n \in I
  <2> HIDE DEF I
  <2> QED BY <1>1, <1>3, <1>4, NatSetInduction
<1> QED BY <1>1, <1>2, <1>5

-----------------------------------------------------------------------------
(* The entries of a call. *)

\* Drop and SubSeq.
LEMMA DropFacts ==
  ASSUME NEW S, NEW s \in Seq(S), NEW m \in 0 .. Len(s)
  PROVE  /\ Drop(s, m) \in Seq(S) /\ Len(Drop(s, m)) = Len(s) - m
         /\ \A i \in 1 .. Len(s) - m : Drop(s, m)[i] = s[m + i]
<1> DEFINE n == Len(s)
           t == SubSeq(s, m + 1, n)
<1>1. n \in Nat /\ m \in Nat /\ m <= n /\ \A i \in m + 1 .. n : s[i] \in S
  OBVIOUS
<1>2. /\ t \in Seq(S) /\ Len(t) = IF m + 1 <= n THEN n - (m + 1) + 1 ELSE 0
      /\ \A i \in 1 .. n - (m + 1) + 1 : t[i] = s[(m + 1) + i - 1]
  <2> HIDE DEF n
  <2> QED BY <1>1, SubSeqProperties
<1>3. t = Drop(s, m)
  BY DEF Drop
<1> HIDE DEF t, n
<1>4. n - (m + 1) + 1 = n - m /\ \A i \in 1 .. n - m : (m + 1) + i - 1 = m + i
  BY <1>1
<1>5. Len(t) = n - m /\ \A i \in 1 .. n - m : t[i] = s[m + i]
  BY SMT, <1>1, <1>2, <1>4
<1> QED BY <1>2, <1>3, <1>5 DEF n

\* The first m elements of a sequence.
LEMMA TakeFacts ==
  ASSUME NEW S, NEW s \in Seq(S), NEW m \in 0 .. Len(s)
  PROVE  /\ SubSeq(s, 1, m) \in Seq(S) /\ Len(SubSeq(s, 1, m)) = m
         /\ \A i \in 1 .. m : SubSeq(s, 1, m)[i] = s[i]
<1> DEFINE t == SubSeq(s, 1, m)
<1>1. m \in Nat /\ \A i \in 1 .. m : s[i] \in S
  OBVIOUS
<1>2. /\ t \in Seq(S) /\ Len(t) = IF 1 <= m THEN m - 1 + 1 ELSE 0
      /\ \A i \in 1 .. m - 1 + 1 : t[i] = s[1 + i - 1]
  BY SMT, <1>1, SubSeqProperties
<1> HIDE DEF t
<1>3. m - 1 + 1 = m /\ \A i \in 1 .. m : 1 + i - 1 = i
  BY <1>1
<1>4. Len(t) = m /\ \A i \in 1 .. m : t[i] = s[i]
  BY <1>1, <1>2, <1>3
<1> QED BY <1>2, <1>4 DEF t

\* Dropping from a concatenation.
LEMMA DropConcat ==
  ASSUME NEW S, NEW s \in Seq(S), NEW t \in Seq(S)
  PROVE  /\ \A m \in 0 .. Len(s) : Drop(s \o t, m) = Drop(s, m) \o t
         /\ \A m \in 0 .. Len(t) : Drop(s \o t, Len(s) + m) = Drop(t, m)
<1> DEFINE u == s \o t
<1>1. /\ u \in Seq(S) /\ Len(u) = Len(s) + Len(t) /\ Len(s) \in Nat /\ Len(t) \in Nat
      /\ \A i \in 1 .. Len(s) + Len(t) : u[i] = IF i <= Len(s) THEN s[i] ELSE t[i - Len(s)]
  BY ConcatProperties
<1> HIDE DEF u
<1>2. ASSUME NEW m \in 0 .. Len(s) PROVE Drop(u, m) = Drop(s, m) \o t
  <2> DEFINE x == Drop(u, m)
             y == Drop(s, m)
             z == y \o t
  <2>1. m \in 0 .. Len(u)
    BY <1>1
  <2>2. x \in Seq(S) /\ Len(x) = Len(u) - m /\ \A i \in 1 .. Len(u) - m : x[i] = u[m + i]
    BY <1>1, <2>1, DropFacts
  <2>3. y \in Seq(S) /\ Len(y) = Len(s) - m /\ \A i \in 1 .. Len(s) - m : y[i] = s[m + i]
    BY DropFacts
  <2> HIDE DEF x, y
  <2>4. /\ z \in Seq(S) /\ Len(z) = Len(y) + Len(t)
        /\ \A i \in 1 .. Len(y) + Len(t) : z[i] = IF i <= Len(y) THEN y[i] ELSE t[i - Len(y)]
    BY <2>3, ConcatProperties
  <2> HIDE DEF z
  <2>5. Len(x) = Len(z)
    BY <1>1, <2>2, <2>3, <2>4
  <2>6. ASSUME NEW i \in 1 .. Len(x) PROVE x[i] = z[i]
    <3>1. /\ m + i \in 1 .. Len(s) + Len(t) /\ i \in 1 .. Len(u) - m /\ i \in 1 .. Len(y) + Len(t)
          /\ (m + i <= Len(s) <=> i <= Len(y)) /\ (m + i) - Len(s) = i - Len(y)
          /\ (i <= Len(y) => i \in 1 .. Len(s) - m)
      BY <1>1, <2>2, <2>3
    <3> QED BY <1>1, <2>2, <2>3, <2>4, <3>1
  <2>7. x = z
    BY <2>2, <2>4, <2>5, <2>6, SeqEqual
  <2> QED BY <2>7 DEF x, y, z
<1>3. ASSUME NEW m \in 0 .. Len(t) PROVE Drop(u, Len(s) + m) = Drop(t, m)
  <2> DEFINE k == Len(s) + m
             x == Drop(u, k)
             y == Drop(t, m)
  <2>1. k \in 0 .. Len(u) /\ Len(u) - k = Len(t) - m
    BY <1>1
  <2>2. x \in Seq(S) /\ Len(x) = Len(u) - k /\ \A i \in 1 .. Len(u) - k : x[i] = u[k + i]
    <3> HIDE DEF k
    <3> QED BY <1>1, <2>1, DropFacts
  <2>3. y \in Seq(S) /\ Len(y) = Len(t) - m /\ \A i \in 1 .. Len(t) - m : y[i] = t[m + i]
    BY DropFacts
  <2> HIDE DEF x, y
  <2>4. ASSUME NEW i \in 1 .. Len(x) PROVE x[i] = y[i]
    <3>1. /\ k + i \in 1 .. Len(s) + Len(t) /\ ~ (k + i <= Len(s)) /\ (k + i) - Len(s) = m + i
          /\ i \in 1 .. Len(u) - k /\ i \in 1 .. Len(t) - m
      BY <1>1, <2>1, <2>2
    <3> HIDE DEF k
    <3> QED BY <1>1, <2>2, <2>3, <3>1
  <2>5. x = y
    BY <2>1, <2>2, <2>3, <2>4, SeqEqual
  <2> QED BY <2>5 DEF x, y
<1> QED BY <1>2, <1>3 DEF u

\* The lengths that a call asks for add up to a natural number.
LEMMA SumFacts ==
  ASSUME NEW lens \in Seq(Nat)
  PROVE  Sum(lens, Len(lens)) \in Nat
<1> DEFINE n == Len(lens)
           B(g) == [i \in 0 .. n |-> IF i = 0 THEN 0 ELSE g[i - 1] + lens[i]]
           W == CHOOSE g : g = B(g)
           H == [x \in (1 .. n) \X Nat |-> x[2] + lens[x[1]]]
<1>1. n \in Nat /\ \A i \in 1 .. n : lens[i] \in Nat
  OBVIOUS
<1>2. IsStep(H, n, Nat) /\ \A i \in 1 .. n : \A x \in Nat : H[<<i, x>>] = x + lens[i]
  <2>1. \A i \in 1 .. n : \A x \in Nat : x + lens[i] \in Nat
    BY <1>1
  <2> HIDE DEF n
  <2> QED BY <2>1 DEF IsStep
<1>3. PICK g : Iterates(g, H, n, Nat, 0)
  <2> HIDE DEF H, n
  <2> QED BY <1>1, <1>2, RecursionExists
<1> HIDE DEF n, H
<1>4. \A i \in 1 .. n : i - 1 \in 0 .. n /\ i \in 0 .. n /\ i # 0
  BY <1>1
<1>5. g \in [0 .. n -> Nat] /\ g[0] = 0 /\ \A i \in 1 .. n : g[i] = g[i - 1] + lens[i]
  BY <1>2, <1>3, <1>4 DEF Iterates
<1>6. g = B(g)
  <2>1. \A i \in 0 .. n : i # 0 => i \in 1 .. n
    BY <1>1
  <2>2. \A i \in 0 .. n : g[i] = IF i = 0 THEN 0 ELSE g[i - 1] + lens[i]
    BY <1>5, <2>1
  <2> QED BY <1>5, <2>2
<1>7. W = B(W)
  <2> HIDE DEF B
  <2> QED BY <1>6, Zenon
<1>8. Sum(lens, n) = W[n]
  BY DEF Sum
<1> HIDE DEF W
<1>9. W[0] = 0 /\ \A i \in 1 .. n : W[i] = W[i - 1] + lens[i]
  BY <1>1, <1>4, <1>7
<1>10. StepsAgree(W, g, n)
  BY <1>5, <1>9 DEF StepsAgree
<1>11. \A i \in 0 .. n : W[i] = g[i]
  BY <1>1, <1>10, RecursionUnique
<1>12. W[n] \in Nat
  BY SMT, <1>1, <1>5, <1>11
<1> QED BY <1>8, <1>12 DEF n

Data == Seq(Seq(Byte))

\* The bytes of the first n entries, entry by entry.
IsJoin(W, data, n) ==
  /\ W \in [0 .. n -> Seq(Byte)] /\ W[0] = <<>>
  /\ \A i \in 1 .. n : W[i] = W[i - 1] \o data[i]

\* Joined is what its recursion computes entry by entry.
LEMMA JoinedSteps ==
  ASSUME NEW data \in Data, NEW n \in 0 .. Len(data)
  PROVE  \E W : Joined(data, n) = W[n] /\ IsJoin(W, data, n)
<1> DEFINE B(g) == [i \in 0 .. n |-> IF i = 0 THEN <<>> ELSE g[i - 1] \o data[i]]
           W == CHOOSE g : g = B(g)
           A == Seq(Byte)
           H == [x \in (1 .. n) \X A |-> x[2] \o data[x[1]]]
<1>1. n \in Nat /\ \A i \in 1 .. n : data[i] \in A
  BY DEF Data
<1>2. <<>> \in A
  OBVIOUS
<1>3. \A i \in 1 .. n : \A x \in A : x \o data[i] \in A
  BY <1>1, ConcatProperties
<1> HIDE DEF A
<1>4. IsStep(H, n, A) /\ \A i \in 1 .. n : \A x \in A : H[<<i, x>>] = x \o data[i]
  BY <1>3 DEF IsStep
<1>5. PICK g : Iterates(g, H, n, A, <<>>)
  <2> HIDE DEF H
  <2> QED BY <1>1, <1>2, <1>4, RecursionExists
<1> HIDE DEF H
<1>6. \A i \in 1 .. n : i - 1 \in 0 .. n /\ i \in 0 .. n /\ i # 0
  BY <1>1
<1>7. g \in [0 .. n -> A] /\ g[0] = <<>> /\ \A i \in 1 .. n : g[i] = g[i - 1] \o data[i]
  BY <1>4, <1>5, <1>6 DEF Iterates
<1>8. g = B(g)
  <2>1. \A i \in 0 .. n : i # 0 => i \in 1 .. n
    BY <1>1
  <2>2. \A i \in 0 .. n : g[i] = IF i = 0 THEN <<>> ELSE g[i - 1] \o data[i]
    BY <1>7, <2>1
  <2> QED BY <1>7, <2>2
<1>9. W = B(W)
  <2> HIDE DEF B
  <2> QED BY <1>8, Zenon
<1>10. Joined(data, n) = W[n]
  BY DEF Joined
<1> HIDE DEF W
<1>11. W[0] = <<>> /\ \A i \in 1 .. n : W[i] = W[i - 1] \o data[i]
  BY <1>1, <1>6, <1>9
<1>12. StepsAgree(W, g, n)
  BY <1>7, <1>11 DEF StepsAgree
<1>13. \A i \in 0 .. n : W[i] = g[i]
  BY <1>1, <1>12, RecursionUnique
<1>14. W = [i \in 0 .. n |-> W[i]]
  BY <1>9
<1>15. W \in [0 .. n -> A]
  BY <1>7, <1>13, <1>14
<1> QED BY <1>10, <1>11, <1>15 DEF IsJoin, A

\* Joined adds one entry at a time.
LEMMA JoinedFacts ==
  ASSUME NEW data \in Data
  PROVE  /\ Joined(data, 0) = <<>>
         /\ \A i \in 0 .. Len(data) : Joined(data, i) \in Seq(Byte)
         /\ \A i \in 0 .. Len(data) - 1 : Joined(data, i + 1) = Joined(data, i) \o data[i + 1]
<1> DEFINE n == Len(data)
<1>1. n \in Nat
  BY DEF Data
<1>2. ASSUME NEW i \in 0 .. n PROVE Joined(data, i) \in Seq(Byte)
  <2>1. PICK W : Joined(data, i) = W[i] /\ IsJoin(W, data, i)
    BY JoinedSteps
  <2>2. i \in 0 .. i
    BY <1>1
  <2> QED BY <2>1, <2>2 DEF IsJoin
<1>3. Joined(data, 0) = <<>>
  <2>1. 0 \in 0 .. n
    BY <1>1
  <2>2. PICK W : Joined(data, 0) = W[0] /\ IsJoin(W, data, 0)
    BY <2>1, JoinedSteps
  <2> QED BY <2>2 DEF IsJoin
<1>4. ASSUME NEW i \in 0 .. n - 1 PROVE Joined(data, i + 1) = Joined(data, i) \o data[i + 1]
  <2>1. i \in 0 .. n /\ i + 1 \in 0 .. n /\ i + 1 \in 1 .. i + 1 /\ (i + 1) - 1 = i /\ i \in 0 .. i
        /\ i \in Nat /\ \A j \in 1 .. i : j \in 1 .. i + 1
    BY <1>1
  <2>2. PICK V : Joined(data, i) = V[i] /\ IsJoin(V, data, i)
    BY <2>1, JoinedSteps
  <2> DEFINE k == i + 1
  <2>3. PICK W : Joined(data, k) = W[k] /\ IsJoin(W, data, k)
    <3> HIDE DEF k
    <3> QED BY <2>1, JoinedSteps DEF k
  <2>4. StepsAgree(V, W, i)
    BY <2>1, <2>2, <2>3 DEF IsJoin, StepsAgree
  <2>5. V[i] = W[i]
    BY SMT, <2>1, <2>4, RecursionUnique
  <2>6. W[k] = W[i] \o data[k]
    BY <2>1, <2>3 DEF IsJoin
  <2> QED BY <2>2, <2>3, <2>5, <2>6
<1> QED BY <1>2, <1>3, <1>4

\* Concatenation of bytes is associative.
LEMMA BytesConcat ==
  ASSUME NEW x \in Seq(Byte), NEW y \in Seq(Byte), NEW z \in Seq(Byte)
  PROVE  (x \o y) \o z = x \o (y \o z)
BY SMT, ConcatAssociative

\* The bytes of all entries are those of the first k and those of the others.
LEMMA JoinedShift ==
  ASSUME NEW data \in Data, NEW k \in 0 .. Len(data)
  PROVE  /\ Drop(data, k) \in Data /\ All(Drop(data, k)) \in Seq(Byte) /\ Joined(data, k) \in Seq(Byte)
         /\ All(data) = Joined(data, k) \o All(Drop(data, k))
<1> DEFINE n == Len(data)
           A == Seq(Byte)
           D == Drop(data, k)
           J(i) == Joined(data, i)
           K(i) == Joined(D, i)
<1>1. n \in Nat /\ k \in Nat /\ k <= n /\ \A i \in 1 .. n : data[i] \in A
  BY DEF Data
<1>2. D \in Data /\ Len(D) = n - k /\ \A i \in 1 .. n - k : D[i] = data[k + i]
  BY DropFacts DEF Data
<1>3. /\ \A i \in 0 .. n : J(i) \in A
      /\ \A i \in 0 .. n - 1 : J(i + 1) = J(i) \o data[i + 1]
  BY JoinedFacts
<1> HIDE DEF D
<1>4. /\ K(0) = <<>> /\ \A i \in 0 .. n - k : K(i) \in A
      /\ \A i \in 0 .. n - k - 1 : K(i + 1) = K(i) \o D[i + 1]
  BY <1>2, JoinedFacts
<1>5. All(D) = K(n - k) /\ All(data) = J(n)
  BY <1>2 DEF All
<1> HIDE DEF n, J, K
<1> DEFINE I == {j \in Nat : j <= n - k => J(k + j) = J(k) \o K(j)}
<1>6. 0 \in I
  <2>1. k + 0 = k /\ k \in 0 .. n
    BY <1>1
  <2>2. J(k) \o <<>> = J(k)
    BY <1>3, <2>1, ConcatEmptySeq
  <2> QED BY <1>4, <2>1, <2>2
<1>7. ASSUME NEW j \in Nat, j \in I PROVE j + 1 \in I
  <2> SUFFICES ASSUME j + 1 <= n - k PROVE J(k + (j + 1)) = J(k) \o K(j + 1)
    OBVIOUS
  <2>1. /\ k + j \in 0 .. n - 1 /\ (k + j) + 1 = k + (j + 1) /\ k \in 0 .. n
        /\ j \in 0 .. n - k - 1 /\ j \in 0 .. n - k /\ j + 1 \in 1 .. n - k /\ k + (j + 1) \in 1 .. n
    BY <1>1
  <2>2. J(k + j) = J(k) \o K(j)
    BY <1>1, <1>7
  <2> DEFINE x == J(k)
             y == K(j)
             z == D[j + 1]
  <2>3. x \in A /\ y \in A /\ z \in A /\ z = data[k + (j + 1)]
    BY <1>1, <1>2, <1>3, <1>4, <2>1
  <2>4. J(k + (j + 1)) = J(k + j) \o data[k + (j + 1)]
    BY <1>3, <2>1
  <2>5. K(j + 1) = y \o z
    BY <1>4, <2>1
  <2>6. (x \o y) \o z = x \o (y \o z)
    <3> HIDE DEF x, y, z
    <3> QED BY <2>3, BytesConcat
  <2> QED BY <2>2, <2>3, <2>4, <2>5, <2>6
<1>8. n - k \in I
  <2>1. n - k \in Nat
    BY <1>1
  <2> HIDE DEF I
  <2> QED BY <1>6, <1>7, <2>1, NatSetInduction
<1>9. J(n) = J(k) \o K(n - k)
  <2>1. n - k \in Nat /\ n - k <= n - k /\ k + (n - k) = n
    BY <1>1
  <2> QED BY <1>8, <2>1
<1>10. J(k) \in A /\ K(n - k) \in A
  BY <1>1, <1>3, <1>4
<1> QED BY <1>2, <1>5, <1>9, <1>10 DEF D, J, K

\* The first entry comes first.
LEMMA AllCons ==
  ASSUME NEW data \in Data, data # <<>>
  PROVE  /\ data[1] \in Seq(Byte) /\ Drop(data, 1) \in Data /\ All(Drop(data, 1)) \in Seq(Byte)
         /\ All(data) = data[1] \o All(Drop(data, 1))
<1>1. 1 \in 0 .. Len(data) /\ 0 \in 0 .. Len(data) - 1 /\ data[1] \in Seq(Byte)
  BY DEF Data
<1> DEFINE one == 0 + 1
<1>2. Joined(data, one) = Joined(data, 0) \o data[one] /\ Joined(data, 0) = <<>>
  BY <1>1, JoinedFacts
<1>3. one = 1
  OBVIOUS
<1> HIDE DEF one
<1>4. Joined(data, 1) = <<>> \o data[1]
  BY <1>2, <1>3
<1>5. <<>> \o data[1] = data[1]
  BY <1>1, ConcatEmptySeq
<1> QED BY <1>1, <1>4, <1>5, JoinedShift

\* What is left of a call whose first entry gave away m bytes.
LEMMA AllRest ==
  ASSUME NEW data \in Data, data # <<>>, NEW m \in 0 .. Len(data[1]),
         NEW R, R = [data EXCEPT ![1] = Drop(data[1], m)]
  PROVE  R \in Data \ {<<>>} /\ All(R) = Drop(All(data), m)
<1> DEFINE x == Drop(data[1], m)
           rest == Drop(data, 1)
<1>1. data[1] \in Seq(Byte) /\ 1 \in 1 .. Len(data) /\ Len(data) \in Nat /\ data \in Seq(Seq(Byte))
  BY DEF Data
<1>2. x \in Seq(Byte)
  BY <1>1, DropFacts
<1>3. /\ R \in Seq(Seq(Byte)) /\ Len(R) = Len(data)
      /\ \A j \in 1 .. Len(data) : R[j] = IF j = 1 THEN x ELSE data[j]
  <2> HIDE DEF x
  <2>1. R = [data EXCEPT ![1] = x]
    BY DEF x
  <2> QED BY SMT, <1>1, <1>2, <2>1, ExceptSeq
<1>4. R \in Data /\ R # <<>>
  BY SMT, <1>1, <1>3 DEF Data
<1>5. Drop(R, 1) = rest
  <2> DEFINE S == Seq(Byte)
             q == Drop(R, 1)
             n == Len(data)
  <2>1. R \in Seq(S) /\ data \in Seq(S) /\ Len(R) = n /\ 1 \in 0 .. n /\ n \in Nat
    BY SMT, <1>1, <1>3
  <2>2. \A i \in 1 .. n - 1 : 1 + i \in 1 .. n /\ 1 + i # 1
    BY <2>1
  <2>3. \A i \in 1 .. n - 1 : R[1 + i] = data[1 + i]
    <3> HIDE DEF S, x
    <3> QED BY <1>3, <2>2
  <2> HIDE DEF S, n
  <2>4. q \in Seq(S) /\ Len(q) = n - 1 /\ \A i \in 1 .. n - 1 : q[i] = R[1 + i]
    BY <2>1, DropFacts
  <2>5. rest \in Seq(S) /\ Len(rest) = n - 1 /\ \A i \in 1 .. n - 1 : rest[i] = data[1 + i]
    BY <2>1, DropFacts DEF n
  <2> HIDE DEF q, rest
  <2>6. \A i \in 1 .. Len(q) : q[i] = rest[i]
    BY <2>3, <2>4, <2>5
  <2>7. q = rest
    BY <2>4, <2>5, <2>6, SeqEqual
  <2> QED BY <2>7 DEF q
<1>6. All(R) = R[1] \o All(Drop(R, 1))
  BY <1>4, AllCons
<1>7. All(data) = data[1] \o All(rest) /\ All(rest) \in Seq(Byte)
  BY AllCons
<1>8. R[1] = x
  BY <1>1, <1>3
<1>9. Drop(data[1] \o All(rest), m) = x \o All(rest)
  BY <1>1, <1>7, DropConcat
<1> QED BY <1>4, <1>5, <1>6, <1>7, <1>8, <1>9

-----------------------------------------------------------------------------
(* One run of the loops. *)

\* A set of numbers has a least one.
LEMMA LeastFacts ==
  ASSUME NEW S \in SUBSET Nat, S # {}
  PROVE  Least(S) \in S /\ \A j \in S : Least(S) <= j
BY LeastExists DEF Least

\* A read takes no more than there is.
LEMMA TakenFacts ==
  ASSUME Agrees(Rec), NEW lens \in Seq(Nat)
  PROVE  Taken(lens) \in 0 .. AvailableRead(Rec)
<1>1. AvailableRead(Rec) \in Nat
  BY SMT, AvailableFacts, PipeConstants DEF N
<1>2. Sum(lens, Len(lens)) \in Nat
  BY SumFacts
<1> QED BY <1>1, <1>2 DEF Taken

\* The entries that a read leaves are none, or the last ones.
LEMMA ServedFacts ==
  ASSUME NEW lens \in Seq(Nat)
  PROVE  /\ Served(lens) \in 0 .. Len(lens)
         /\ Served(lens) # Len(lens) => Drop(lens, Served(lens)) \in Seq(Nat) \ {<<>>}
<1> DEFINE n == Len(lens)
           k == Served(lens)
           S == {i \in 0 .. n : i = n \/ (Sum(lens, i) >= AvailableRead(Rec) /\ ~AllWriteEndsClosed)}
<1>1. n \in Nat /\ n \in S /\ S \in SUBSET Nat /\ S \in SUBSET (0 .. n)
  OBVIOUS
<1>2. k = Least(S)
  BY DEF Served
<1> HIDE DEF S, n
<1>3. k \in 0 .. n
  BY <1>1, <1>2, LeastFacts
<1> HIDE DEF k
<1>4. Drop(lens, k) \in Seq(Nat) /\ Len(Drop(lens, k)) = n - k
  BY <1>3, DropFacts DEF n
<1>5. ASSUME k # n PROVE Drop(lens, k) # <<>>
  <2>1. n - k # 0
    BY <1>1, <1>3, <1>5
  <2>2. Len(<<>>) = 0
    OBVIOUS
  <2> QED BY <1>4, <2>1, <2>2
<1> QED BY <1>3, <1>4, <1>5 DEF n, k

\* The bytes that a write stores fit, and those it leaves are the others.
LEMMA StoredFacts ==
  ASSUME Agrees(Rec), NEW data \in Data
  PROVE  /\ All(data) \in Seq(Byte)
         /\ Stored(data) \in 0 .. Len(All(data))
         /\ AvailableRead(Rec) + Stored(data) <= N
         /\ Finished(data) \in 0 .. Len(data)
         /\ Finished(data) = Len(data) => Stored(data) = Len(All(data))
         /\ Finished(data) # Len(data) =>
              LET rest == Left(data, Stored(data), Finished(data))
              IN  rest \in Data \ {<<>>} /\ All(rest) = Drop(All(data), Stored(data))
<1> DEFINE len == Len(data)
           avail == AvailableWrite(Rec)
           all == All(data)
           n == Stored(data)
           k == Finished(data)
           G(i) == Given(data, i)
           S == {i \in 0 .. len : i = len \/ G(i) >= avail \/ G(i + 1) > avail}
<1>1. avail \in Nat /\ avail = N - AvailableRead(Rec) /\ AvailableRead(Rec) \in Nat /\ N \in Nat
  BY SMT, AvailableFacts, PipeConstants DEF N
<1>2. len \in Nat
  BY DEF Data
<1>3. /\ all \in Seq(Byte) /\ G(0) = 0 /\ G(len) = Len(all)
      /\ \A i \in 0 .. len : G(i) \in Nat
  <2>1. len \in 0 .. len
    BY <1>2
  <2> QED BY <2>1, JoinedFacts DEF Given, All
<1>4. \A i \in 0 .. len - 1 : data[i + 1] \in Seq(Byte) /\ G(i + 1) = G(i) + Len(data[i + 1])
  <2> TAKE i \in 0 .. len - 1
  <2> DEFINE x == Joined(data, i)
             y == data[i + 1]
  <2>1. x \in Seq(Byte) /\ y \in Seq(Byte) /\ Joined(data, i + 1) = x \o y
    BY <1>2, JoinedFacts DEF Data
  <2> HIDE DEF x, y
  <2>2. Len(x \o y) = Len(x) + Len(y)
    BY <2>1, ConcatProperties
  <2> QED BY <2>1, <2>2 DEF Given, x, y
<1>5. n = IF G(len) < avail THEN G(len) ELSE avail
  BY DEF Stored
<1>6. k = Least(S)
  BY DEF Finished
<1>7. len \in S /\ S \in SUBSET Nat /\ S \in SUBSET (0 .. len)
  BY SMT, <1>2
<1>8. k \in S /\ \A j \in S : k <= j
  <2> HIDE DEF S, k
  <2> QED BY <1>6, <1>7, LeastFacts
<1>9. n \in 0 .. Len(all) /\ AvailableRead(Rec) + n <= N
  <2>1. Len(all) \in Nat
    BY <1>3
  <2> HIDE DEF n, avail, all, G, len
  <2> QED BY <1>1, <1>3, <1>5, <2>1
<1> HIDE DEF n, k, avail, all
<1>10. G(k) <= avail
  <2>1. CASE k = 0
    BY <1>1, <1>3, <2>1
  <2>2. CASE k # 0
    <3>1. k - 1 \in 0 .. len /\ k - 1 \notin S /\ (k - 1) + 1 = k
      <4> HIDE DEF S, len
      <4>1. k \in Nat /\ k \in 0 .. len
        BY <1>7, <1>8
      <4>2. k - 1 \in 0 .. len /\ ~ (k <= k - 1) /\ (k - 1) + 1 = k
        BY <1>2, <2>2, <4>1
      <4> QED BY <1>8, <4>2
    <3>2. ~ (G((k - 1) + 1) > avail)
      BY <3>1
    <3>3. G(k) \in Nat
      BY <1>3, <1>8
    <3> QED BY <1>1, <3>1, <3>2, <3>3
  <2> QED BY <2>1, <2>2
<1>11. ASSUME k = len PROVE n = Len(all)
  BY SMT, <1>1, <1>3, <1>5, <1>10, <1>11
<1>12. ASSUME k # len
       PROVE  Left(data, n, k) \in Data \ {<<>>} /\ All(Left(data, n, k)) = Drop(all, n)
  <2> DEFINE D == Drop(data, k)
             J == Joined(data, k)
             m == n - G(k)
             x == data[k + 1]
  <2>1. k \in 0 .. len - 1 /\ k \in 0 .. len /\ (G(k) >= avail \/ G(k + 1) > avail)
    BY <1>2, <1>7, <1>8, <1>12
  <2>2. /\ D \in Data /\ All(D) \in Seq(Byte) /\ J \in Seq(Byte) /\ all = J \o All(D)
    BY <2>1, JoinedShift DEF all
  <2>3. Len(D) = len - k /\ D[1] = x
    <3>1. 1 \in 1 .. len - k
      BY <1>2, <2>1
    <3>2. Len(D) = len - k /\ \A i \in 1 .. len - k : D[i] = data[k + i]
      BY <2>1, DropFacts DEF Data
    <3> QED BY <3>1, <3>2
  <2>4. D # <<>>
    <3>1. len - k # 0 /\ Len(<<>>) = 0
      BY <1>2, <2>1
    <3> HIDE DEF D
    <3> QED BY <2>3, <3>1
  <2>5. All(D) = D[1] \o All(Drop(D, 1)) /\ All(Drop(D, 1)) \in Seq(Byte)
    BY <2>2, <2>4, AllCons
  <2>6. x \in Seq(Byte) /\ G(k + 1) = G(k) + Len(x) /\ G(k) \in Nat /\ Len(x) \in Nat
    BY <1>3, <1>4, <2>1
  <2>7. Len(All(D)) = Len(x) + Len(All(Drop(D, 1))) /\ Len(All(Drop(D, 1))) \in Nat
    BY SMT, <2>3, <2>5, <2>6, ConcatProperties
  <2>8. Len(all) = G(k) + Len(All(D)) /\ G(k) = Len(J)
    BY <2>2, ConcatProperties DEF Given
  <2>9. n = avail /\ m \in 0 .. Len(x) /\ m \in 0 .. Len(All(D)) /\ n = G(k) + m
    <3> HIDE DEF D, J, x, G
    <3> QED BY <1>1, <1>3, <1>5, <1>10, <2>1, <2>6, <2>7, <2>8
  <2>10. Left(data, n, k) = [D EXCEPT ![1] = Drop(D[1], m)]
    BY DEF Left
  <2> HIDE DEF D, J, m, x
  <2>11. Left(data, n, k) \in Data \ {<<>>} /\ All(Left(data, n, k)) = Drop(All(D), m)
    BY <2>2, <2>3, <2>4, <2>9, <2>10, AllRest
  <2>12. Drop(J \o All(D), Len(J) + m) = Drop(All(D), m)
    BY <2>2, <2>9, DropConcat
  <2> QED BY <2>2, <2>8, <2>9, <2>11, <2>12
<1> QED BY <1>3, <1>7, <1>8, <1>9, <1>11, <1>12 DEF n, k, all

-----------------------------------------------------------------------------
(* The contents of the ring, as a sequence. *)

Bytes(r) == [i \in 1 .. AvailableRead(r) |-> At(r, i)]

\* The contents of a ring, byte by byte.
LEMMA BytesFacts ==
  ASSUME NEW r, Agrees(r)
  PROVE  /\ Bytes(r) \in Seq(Byte) /\ Len(Bytes(r)) = AvailableRead(r) /\ AvailableRead(r) \in 0 .. N
         /\ \A i \in 1 .. AvailableRead(r) : Bytes(r)[i] = At(r, i)
<1> DEFINE a == AvailableRead(r)
<1>1. a \in 0 .. N /\ N \in Nat /\ r \in Ring
  BY AvailableFacts, PipeConstants DEF N, Agrees
<1>2. r.arr \in [Index -> Byte] /\ r.head \in Index
  BY <1>1 DEF Ring
<1>3. ASSUME NEW i \in 1 .. a PROVE At(r, i) \in Byte
  <2> DEFINE x == r.head + i - 1
  <2>1. x \in Nat /\ x < 2 * N
    <3> HIDE DEF N, a
    <3> QED BY <1>1, <1>2 DEF Index
  <2>2. Wrap(x) \in Index
    <3> HIDE DEF x
    <3> QED BY <2>1, WrapFacts
  <2> QED BY <1>2, <2>2 DEF At
<1> HIDE DEF a
<1>4. Bytes(r) = [i \in 1 .. a |-> At(r, i)]
  BY DEF Bytes, a
<1>5. a \in Nat
  BY <1>1
<1>6. Bytes(r) \in Seq(Byte) /\ Len(Bytes(r)) = a
  BY <1>3, <1>4, <1>5
<1> QED BY <1>1, <1>4, <1>6 DEF a

\* Writing appends to the contents.
LEMMA BytesWritten ==
  ASSUME NEW r, Agrees(r), NEW d \in Seq(Byte), NEW R, WroteAll(r, R, d, Len(d))
  PROVE  Bytes(R) = Bytes(r) \o d
<1> DEFINE x == Bytes(r)
           y == Bytes(R)
           z == x \o d
           a == AvailableRead(r)
           n == Len(d)
<1>1. x \in Seq(Byte) /\ Len(x) = a /\ a \in Nat /\ \A i \in 1 .. a : x[i] = At(r, i)
  BY BytesFacts
<1>2. /\ y \in Seq(Byte) /\ Len(y) = a + n
      /\ \A i \in 1 .. a + n : y[i] = At(R, i)
  BY BytesFacts DEF WroteAll
<1>3. /\ \A i \in 1 .. a : At(R, i) = At(r, i)
      /\ \A i \in 1 .. n : At(R, a + i) = d[i]
  BY DEF WroteAll
<1> HIDE DEF x, y, a
<1>4. /\ z \in Seq(Byte) /\ Len(z) = a + n
      /\ \A i \in 1 .. a + n : z[i] = IF i <= a THEN x[i] ELSE d[i - a]
  BY <1>1, ConcatProperties
<1>5. n \in Nat
  OBVIOUS
<1> HIDE DEF z, n
<1>6. ASSUME NEW i \in 1 .. Len(y) PROVE y[i] = z[i]
  <2>1. i \in 1 .. a + n
    BY <1>2
  <2>2. CASE i <= a
    <3>1. i \in 1 .. a
      BY SMT, <1>1, <1>5, <2>1, <2>2
    <3> QED BY <1>1, <1>2, <1>3, <1>4, <2>1, <2>2, <3>1
  <2>3. CASE ~ (i <= a)
    <3>1. i - a \in 1 .. n /\ a + (i - a) = i
      BY SMT, <1>1, <1>5, <2>1, <2>3
    <3>2. At(R, a + (i - a)) = d[i - a]
      BY <1>3, <3>1
    <3>3. At(R, i) = d[i - a]
      BY <3>1, <3>2
    <3> QED BY <1>2, <1>4, <2>1, <2>3, <3>3
  <2> QED BY <2>2, <2>3
<1>7. y = z
  BY <1>2, <1>4, <1>6, SeqEqual
<1> QED BY <1>7 DEF x, y, z

\* Reading takes a prefix off the contents.
LEMMA BytesTaken ==
  ASSUME NEW r, Agrees(r), NEW n \in 0 .. AvailableRead(r), NEW R, TookAll(r, R, n)
  PROVE  Bytes(R) = Drop(Bytes(r), n) /\ BytesRead(r, n) = SubSeq(Bytes(r), 1, n)
<1> DEFINE x == Bytes(r)
           a == AvailableRead(r)
<1>1. x \in Seq(Byte) /\ Len(x) = a /\ a \in Nat /\ \A i \in 1 .. a : x[i] = At(r, i)
  BY BytesFacts
<1>2. n \in 0 .. a /\ n \in Nat
  BY <1>1
<1>3. Bytes(R) = Drop(x, n)
  <2> DEFINE y == Bytes(R)
             z == Drop(x, n)
  <2>1. y \in Seq(Byte) /\ Len(y) = a - n /\ \A i \in 1 .. a - n : y[i] = At(R, i)
    BY BytesFacts DEF TookAll
  <2>2. \A i \in 1 .. a - n : At(R, i) = At(r, i + n)
    BY DEF TookAll
  <2> HIDE DEF x, y, a
  <2>3. z \in Seq(Byte) /\ Len(z) = a - n /\ \A i \in 1 .. a - n : z[i] = x[n + i]
    BY <1>1, <1>2, DropFacts
  <2>4. ASSUME NEW i \in 1 .. Len(y) PROVE y[i] = z[i]
    <3>1. i \in 1 .. a - n /\ n + i \in 1 .. a /\ i + n = n + i
      BY <1>1, <1>2, <2>1
    <3>2. At(R, i) = At(r, n + i)
      BY <2>2, <3>1
    <3> QED BY <1>1, <2>1, <2>3, <3>1, <3>2
  <2> HIDE DEF z
  <2>5. y = z
    BY <2>1, <2>3, <2>4, SeqEqual
  <2> QED BY <2>5 DEF y, z
<1>4. BytesRead(r, n) = SubSeq(x, 1, n)
  <2> DEFINE y == BytesRead(r, n)
             z == SubSeq(x, 1, n)
  <2>1. y = [i \in 1 .. n |-> At(r, i)]
    BY DEF BytesRead, At
  <2>2. \A i \in 1 .. n : i \in 1 .. a /\ x[i] \in Byte
    BY <1>1, <1>2
  <2> HIDE DEF x, y, a
  <2>3. z \in Seq(Byte) /\ Len(z) = n /\ \A i \in 1 .. n : z[i] = x[i]
    BY <1>1, <1>2, TakeFacts
  <2>4. \A i \in 1 .. n : At(r, i) = x[i]
    BY <1>1, <2>2
  <2>5. y \in Seq(Byte) /\ Len(y) = n /\ \A i \in 1 .. n : y[i] = x[i]
    BY <1>2, <2>1, <2>2, <2>4
  <2> HIDE DEF z
  <2>6. y = z
    BY <2>3, <2>5, SeqEqual
  <2> QED BY <2>6 DEF y, z
<1> QED BY <1>3, <1>4

-----------------------------------------------------------------------------
(* The steps.  StatusAgrees is inductive. *)

\* The ring of the variables agrees with its status.
LEMMA RecFacts ==
  ASSUME StatusAgrees
  PROVE  /\ Agrees(Rec) /\ Contents = Bytes(Rec)
         /\ Contents \in Seq(Byte) /\ Len(Contents) = AvailableRead(Rec) /\ AvailableRead(Rec) \in 0 .. N
<1>1. Rec = [arr |-> arr, head |-> head, tail |-> tail, status |-> status]
  BY DEF Rec
<1>2. Rec \in Ring
  BY <1>1 DEF StatusAgrees, TypeOK, Ring, Index, N
<1>3. Agrees(Rec)
  BY <1>1, <1>2 DEF StatusAgrees, Agrees
<1>4. Contents = Bytes(Rec)
  BY <1>1 DEF Contents, Bytes, At
<1> QED BY <1>3, <1>4, BytesFacts

\* The ring after a step, as a record.
LEMMA RecPrime ==
  /\ Rec' = [arr |-> arr', head |-> head', tail |-> tail', status |-> status']
  /\ Contents' = Bytes(Rec')
  /\ UNCHANGED ring => Rec' = Rec
<1>1. Rec' = [arr |-> arr', head |-> head', tail |-> tail', status |-> status']
  BY DEF Rec
<1>2. Contents' = Bytes(Rec')
  BY DEF Contents, Bytes, At, Rec, AvailableRead
<1> QED BY <1>1, <1>2 DEF ring, Rec

\* The variables after a step that sets the ring.
LEMMA RingBecomesFacts ==
  ASSUME NEW R, Agrees(R), RingBecomes(R)
  PROVE  /\ Rec' = R
         /\ arr' \in [0 .. RING_BUFFER_SIZE - 1 -> Byte]
         /\ head' \in 0 .. RING_BUFFER_SIZE - 1 /\ tail' \in 0 .. RING_BUFFER_SIZE - 1
         /\ status' \in {"Empty", "Normal", "Full"} /\ (status' = "Normal" <=> head' # tail')
<1>1. arr' = R.arr /\ head' = R.head /\ tail' = R.tail /\ status' = R.status
  BY DEF RingBecomes
<1>2. R \in Ring /\ (R.status = "Normal" <=> R.head # R.tail)
  BY DEF Agrees
<1>3. Rec' = [arr |-> R.arr, head |-> R.head, tail |-> R.tail, status |-> R.status]
  BY <1>1, RecPrime
<1>4. Rec' = R
  BY <1>2, <1>3 DEF Ring
<1> QED BY <1>1, <1>2, <1>4 DEF Ring, Index, N

\* The call of thread t becomes c.
LEMMA CallFacts ==
  ASSUME TypeOK, NEW t \in Thread, NEW c, c = Idle \/ c \in Suspended, call' = [call EXCEPT ![t] = c]
  PROVE  /\ DOMAIN call' = Thread /\ \A u \in Thread : call'[u] = Idle \/ call'[u] \in Suspended
         /\ call'[t] = c /\ \A u \in Thread \ {t} : call'[u] = call[u]
<1>1. DOMAIN call = Thread /\ \A u \in Thread : call[u] = Idle \/ call[u] \in Suspended
  BY DEF TypeOK
<1> QED BY <1>1

\* Threads that are not in a write have nothing left to hand over.
LEMMA PendingFacts ==
  ASSUME TypeOK, NEW t \in Thread, NEW c, c = Idle \/ c \in Suspended, call' = [call EXCEPT ![t] = c]
  PROVE  /\ Pending' = [Pending EXCEPT ![t] = IF c.op = "write" THEN All(c.rest) ELSE <<>>]
         /\ Pending[t] = IF call[t].op = "write" THEN All(call[t].rest) ELSE <<>>
         /\ call[t].op # "write" /\ c.op # "write" => Pending' = Pending
<1> DEFINE P(d) == IF d.op = "write" THEN All(d.rest) ELSE <<>>
<1>1. call'[t] = c /\ \A u \in Thread \ {t} : call'[u] = call[u]
  BY CallFacts
<1>2. Pending = [u \in Thread |-> P(call[u])] /\ Pending' = [u \in Thread |-> P(call'[u])]
  BY DEF Pending, All, Joined
<1> HIDE DEF P
<1>3. Pending[t] = P(call[t]) /\ Pending' = [Pending EXCEPT ![t] = P(c)]
  BY SMT, <1>1, <1>2
<1>4. P(call[t]) = P(c) => Pending' = Pending
  BY SMT, <1>1, <1>2
<1> QED BY <1>3, <1>4 DEF P

\* An idle thread is in no call.
LEMMA IdleFacts == Idle.op = "none"
BY DEF Idle

\* Leave and Sleep set the call of t, and halt is a truth value.
LEMMA LeaveFacts ==
  ASSUME NEW t, Leave(t) PROVE call' = [call EXCEPT ![t] = Idle] /\ halt' \in BOOLEAN
BY DEF Leave, BorrowedFrom

\* A step of the queue that takes n bytes, and one in which thread t hands over
\* n of the bytes d.
Gets(n) ==
  /\ n \in 0 .. Len(Contents) /\ got' = SubSeq(Contents, 1, n)
  /\ Contents' = Drop(Contents, n) /\ Pending' = Pending
Puts(t, d, n) ==
  /\ Pending[t] = <<>> => d \in {All(v) : v \in WriteVecs}
  /\ Pending[t] # <<>> => d = Pending[t]
  /\ n \in 0 .. Len(d) /\ Len(Contents) + n <= N
  /\ Contents' = Contents \o SubSeq(d, 1, n)
  /\ Pending' = [Pending EXCEPT ![t] = Drop(d, n)] /\ got' = <<>>

\* Taking bytes is a step of the queue.
LEMMA GetsIsNext == ASSUME NEW n, Gets(n) PROVE Fifo!Next
BY DEF Gets, Drop, Fifo!Next, Fifo!Get

\* Handing bytes over is a step of the queue.
LEMMA PutsIsNext == ASSUME NEW t \in Thread, NEW d, NEW n, Puts(t, d, n) PROVE Fifo!Next
<1>1. d \in (IF Pending[t] = <<>> THEN {All(v) : v \in WriteVecs} ELSE {Pending[t]})
  BY DEF Puts
<1>2. Fifo!Put(t)
  BY <1>1 DEF Puts, Drop, N, Fifo!Put
<1> QED BY <1>2 DEF Fifo!Next

\* A step that leaves the ring and what is pending alone takes nothing.
LEMMA QuietStep ==
  ASSUME StatusAgrees, UNCHANGED ring, got' = <<>>, Pending' = Pending
  PROVE  Fifo!Next
<1>1. Contents' = Contents
  BY RecFacts, RecPrime
<1>2. Contents \in Seq(Byte)
  BY RecFacts
<1> DEFINE c == Contents
<1>3. c \in Seq(Byte)
  BY <1>2
<1>4. Contents' = c /\ c = Contents
  BY <1>1
<1> HIDE DEF c
<1>5. SubSeq(c, 1, 0) = <<>> /\ Drop(c, 0) = c /\ 0 \in 0 .. Len(c)
  BY <1>3 DEF Drop
<1>6. Gets(0)
  BY <1>4, <1>5 DEF Gets
<1> QED BY <1>6, GetsIsNext

\* One run of the read loop keeps the status right and takes a prefix of the queue.
LEMMA ReadRunStep ==
  ASSUME StatusAgrees, NEW t \in Thread, NEW lens \in Seq(Nat), NEW vec \in BOOLEAN,
         call[t].op # "write", ReadRun(t, lens, vec)
  PROVE  StatusAgrees' /\ Fifo!Next /\ AvailableRead(Rec') <= AvailableRead(Rec)
<1> DEFINE n == Taken(lens)
           R == ReadBytes(Rec, n)
           rest == Drop(lens, Served(lens))
           c == IF Served(lens) = Len(lens) THEN Idle ELSE [op |-> "read", rest |-> rest, vec |-> vec]
<1>1. Agrees(Rec) /\ Contents = Bytes(Rec) /\ Contents \in Seq(Byte) /\ Len(Contents) = AvailableRead(Rec)
  BY RecFacts
<1>2. n \in 0 .. AvailableRead(Rec)
  BY <1>1, TakenFacts
<1>3. RingBecomes(R) /\ got' = BytesRead(Rec, n) /\ UNCHANGED <<held, parent, dead>>
  BY DEF ReadRun
<1>4. call' = [call EXCEPT ![t] = c] /\ (halt' \in BOOLEAN \/ halt' = halt)
  BY LeaveFacts DEF ReadRun, Sleep
<1>5. Served(lens) # Len(lens) => rest \in Seq(Nat) \ {<<>>}
  BY ServedFacts
<1> HIDE DEF n, R, rest
<1>6. c = Idle \/ c \in Suspended
  BY <1>5 DEF Suspended
<1>7. c.op # "write"
  BY IdleFacts
<1> HIDE DEF c
<1>8. TookAll(Rec, R, n)
  BY <1>1, <1>2, ReadBytesFacts DEF R
<1>9. Agrees(R) /\ AvailableRead(R) = AvailableRead(Rec) - n
  BY <1>8 DEF TookAll
<1>10. Bytes(R) = Drop(Bytes(Rec), n) /\ BytesRead(Rec, n) = SubSeq(Bytes(Rec), 1, n)
  BY <1>1, <1>2, <1>8, BytesTaken
<1>11. Rec' = R /\ arr' \in [0 .. RING_BUFFER_SIZE - 1 -> Byte]
       /\ head' \in 0 .. RING_BUFFER_SIZE - 1 /\ tail' \in 0 .. RING_BUFFER_SIZE - 1
       /\ status' \in {"Empty", "Normal", "Full"} /\ (status' = "Normal" <=> head' # tail')
  BY <1>3, <1>9, RingBecomesFacts
<1>12. TypeOK
  BY DEF StatusAgrees
<1>13. DOMAIN call' = Thread /\ \A u \in Thread : call'[u] = Idle \/ call'[u] \in Suspended
  BY <1>4, <1>6, <1>12, CallFacts
<1>14. Pending' = Pending
  BY <1>4, <1>6, <1>7, <1>12, PendingFacts
<1>15. got' \in Seq(Byte)
  <2> DEFINE b == Bytes(Rec)
  <2>1. b \in Seq(Byte) /\ n \in 0 .. Len(b) /\ got' = SubSeq(b, 1, n)
    BY <1>1, <1>2, <1>3, <1>10
  <2> HIDE DEF b
  <2> QED BY <2>1, TakeFacts
<1>16. StatusAgrees'
  BY <1>3, <1>4, <1>11, <1>12, <1>13, <1>15 DEF StatusAgrees, TypeOK
<1>17. Contents' = Drop(Contents, n)
  BY <1>1, <1>10, <1>11, RecPrime
<1>18. Gets(n)
  BY <1>1, <1>2, <1>3, <1>10, <1>14, <1>17 DEF Gets
<1>19. AvailableRead(Rec') <= AvailableRead(Rec)
  <2> DEFINE a == AvailableRead(Rec)
  <2>1. a \in Int /\ n \in 0 .. a /\ AvailableRead(Rec') = a - n
    BY SMT, <1>2, <1>9, <1>11, RecFacts
  <2> HIDE DEF a
  <2>2. a - n <= a
    BY <2>1
  <2> QED BY <2>1, <2>2 DEF a
<1> QED BY <1>16, <1>18, <1>19, GetsIsNext

\* One run of the write loop keeps the status right and appends the next bytes
\* of the write to the queue.
LEMMA WriteRunStep ==
  ASSUME StatusAgrees, NEW t \in Thread, NEW data \in Data, NEW vec \in BOOLEAN,
         \/ call[t].op = "write" /\ data = call[t].rest
         \/ call[t].op # "write" /\ data \in WriteVecs,
         WriteRun(t, data, vec)
  PROVE  StatusAgrees' /\ Fifo!Next
<1> DEFINE n == Stored(data)
           a == All(data)
           d == SubSeq(a, 1, n)
           R == WriteBytes(Rec, d)
           rest == Left(data, n, Finished(data))
           c == IF Finished(data) = Len(data) THEN Idle
                ELSE [op |-> "write", rest |-> rest, vec |-> vec]
<1>1. Agrees(Rec) /\ Contents = Bytes(Rec) /\ Contents \in Seq(Byte) /\ Len(Contents) = AvailableRead(Rec)
  BY RecFacts
<1>2. a \in Seq(Byte) /\ n \in 0 .. Len(a) /\ AvailableRead(Rec) + n <= N
  BY <1>1, StoredFacts
<1>3. RingBecomes(R) /\ got' = <<>> /\ UNCHANGED <<held, parent, dead>>
  BY DEF WriteRun
<1>4. call' = [call EXCEPT ![t] = c] /\ (halt' \in BOOLEAN \/ halt' = halt)
  BY LeaveFacts DEF WriteRun, Sleep
<1>5. /\ Finished(data) = Len(data) => n = Len(a)
      /\ Finished(data) # Len(data) => rest \in Data \ {<<>>} /\ All(rest) = Drop(a, n)
  BY <1>1, StoredFacts
<1> HIDE DEF n, a, R, rest
<1>6. d \in Seq(Byte) /\ Len(d) = n
  BY <1>2, TakeFacts
<1> HIDE DEF d
<1>7. c = Idle \/ c \in Suspended
  BY <1>5 DEF Suspended, Data
<1>8. (IF c.op = "write" THEN All(c.rest) ELSE <<>>) = Drop(a, n)
  <2>1. CASE Finished(data) = Len(data)
    <3>1. n = Len(a) /\ c.op = "none"
      BY <1>5, <2>1, IdleFacts
    <3>2. Drop(a, Len(a)) = <<>>
      BY <1>2 DEF Drop
    <3> QED BY <3>1, <3>2
  <2>2. CASE Finished(data) # Len(data)
    <3>1. c.op = "write" /\ c.rest = rest
      BY <2>2
    <3> QED BY <1>5, <2>2, <3>1
  <2> QED BY <2>1, <2>2
<1> HIDE DEF c
<1>9. WroteAll(Rec, R, d, Len(d))
  BY <1>1, <1>2, <1>6, WriteBytesFacts DEF R
<1>10. Agrees(R)
  BY <1>9 DEF WroteAll
<1>11. Bytes(R) = Bytes(Rec) \o d
  BY <1>1, <1>6, <1>9, BytesWritten
<1>12. Rec' = R /\ arr' \in [0 .. RING_BUFFER_SIZE - 1 -> Byte]
       /\ head' \in 0 .. RING_BUFFER_SIZE - 1 /\ tail' \in 0 .. RING_BUFFER_SIZE - 1
       /\ status' \in {"Empty", "Normal", "Full"} /\ (status' = "Normal" <=> head' # tail')
  BY <1>3, <1>10, RingBecomesFacts
<1>13. TypeOK
  BY DEF StatusAgrees
<1>14. DOMAIN call' = Thread /\ \A u \in Thread : call'[u] = Idle \/ call'[u] \in Suspended
  BY <1>4, <1>7, <1>13, CallFacts
<1>15. got' \in Seq(Byte)
  BY <1>3
<1>16. StatusAgrees'
  BY <1>3, <1>4, <1>12, <1>13, <1>14, <1>15 DEF StatusAgrees, TypeOK
<1>17. Contents' = Contents \o d
  BY <1>1, <1>11, <1>12, RecPrime
<1>18. /\ Pending' = [Pending EXCEPT ![t] = Drop(a, n)]
       /\ Pending[t] = IF call[t].op = "write" THEN All(call[t].rest) ELSE <<>>
  BY <1>4, <1>7, <1>8, <1>13, PendingFacts
<1>19. call[t].op = "write" => Pending[t] = a
  BY <1>18 DEF a
<1>20. call[t].op # "write" => Pending[t] = <<>> /\ a \in {All(v) : v \in WriteVecs}
  BY <1>18 DEF a
<1>21. CASE call[t].op = "write" /\ a = <<>>
  <2>1. n = 0
    BY <1>2, <1>21
  <2>2. d = <<>> /\ Drop(a, n) = <<>>
    BY <1>2, <1>6, <1>21, <2>1 DEF Drop
  <2>3. DOMAIN Pending = Thread /\ Pending[t] = <<>>
    BY <1>19, <1>21 DEF Pending
  <2>4. Pending' = Pending
    BY <1>18, <2>2, <2>3 DEF Pending
  <2> DEFINE q == Contents
  <2>5. q \in Seq(Byte) /\ Contents' = q \o <<>> /\ q = Contents
    BY <1>1, <1>17, <2>2
  <2> HIDE DEF q
  <2>6. SubSeq(q, 1, 0) = <<>> /\ Drop(q, 0) = q /\ 0 \in 0 .. Len(q) /\ q \o <<>> = q
    BY <2>5 DEF Drop
  <2>7. Gets(0)
    BY <1>3, <2>4, <2>5, <2>6 DEF Gets
  <2> QED BY <1>16, <2>7, GetsIsNext
<1>22. CASE ~(call[t].op = "write" /\ a = <<>>)
  <2>1. Pending[t] = <<>> => a \in {All(v) : v \in WriteVecs}
    BY <1>19, <1>20, <1>22
  <2>2. Pending[t] # <<>> => a = Pending[t]
    BY <1>19, <1>20
  <2>3. Puts(t, a, n)
    BY <1>1, <1>2, <1>3, <1>17, <1>18, <2>1, <2>2 DEF Puts, d
  <2> QED BY <1>16, <2>3, PutsIsNext
<1> QED BY <1>21, <1>22

-----------------------------------------------------------------------------
(* The actions.  Each keeps the inductive invariant, is a step of the queue, *)
(* and after the end of file brings neither a byte nor a writer.             *)

Good == StatusAgrees' /\ Fifo!Next /\ (EndOfFile => EndOfFile')

\* Nobody holds the write end, in a table or in a call.
LEMMA ClosedFacts ==
  /\ AllWriteEndsClosed <=> /\ \A p \in Process : "write" \notin held[p]
                           /\ \A t \in Thread : call[t].op # "write"
  /\ AllWriteEndsClosed' <=> /\ \A p \in Process : "write" \notin held'[p]
                            /\ \A t \in Thread : call'[t].op # "write"
BY DEF AllWriteEndsClosed, Open

\* A step in which t goes on to a call that is no write.
LEMMA ClosedStays ==
  ASSUME TypeOK, NEW t \in Thread, NEW c, c = Idle \/ c \in Suspended, c.op # "write",
         call' = [call EXCEPT ![t] = c], held' = held, AllWriteEndsClosed
  PROVE  AllWriteEndsClosed'
BY CallFacts, ClosedFacts

\* The end of the file, in terms of the ring.
LEMMA EofFacts ==
  /\ EndOfFile <=> AvailableRead(Rec) = 0 /\ AllWriteEndsClosed
  /\ EndOfFile' <=> AvailableRead(Rec') = 0 /\ AllWriteEndsClosed'
BY DEF EndOfFile, AvailableRead, Rec

\* A run of the loop of read.
LEMMA ReadStep ==
  ASSUME StatusAgrees, NEW t \in Thread, NEW lens \in Seq(Nat), NEW vec \in BOOLEAN,
         call[t].op # "write", ReadRun(t, lens, vec)
  PROVE  Good
<1>1. StatusAgrees' /\ Fifo!Next /\ AvailableRead(Rec') <= AvailableRead(Rec)
  BY ReadRunStep
<1>2. Agrees(Rec')
  <2>1. /\ arr' \in [0 .. RING_BUFFER_SIZE - 1 -> Byte]
        /\ head' \in 0 .. RING_BUFFER_SIZE - 1 /\ tail' \in 0 .. RING_BUFFER_SIZE - 1
        /\ status' \in {"Empty", "Normal", "Full"} /\ (status' = "Normal" <=> head' # tail')
    BY <1>1 DEF StatusAgrees, TypeOK
  <2>2. Rec' = [arr |-> arr', head |-> head', tail |-> tail', status |-> status']
    BY RecPrime
  <2> QED BY <2>1, <2>2 DEF Agrees, Ring, Index, N
<1>3. AvailableRead(Rec') \in 0 .. N
  BY <1>2, AvailableFacts
<1>4. AvailableRead(Rec) = 0 => AvailableRead(Rec') = 0
  <2> DEFINE a == AvailableRead(Rec')
  <2>1. AvailableRead(Rec) = 0 => a <= 0 /\ a \in 0 .. N
    BY <1>1, <1>3
  <2> HIDE DEF a
  <2>2. a <= 0 /\ a \in 0 .. N => a = 0
    BY DEF N
  <2> QED BY <2>1, <2>2 DEF a
<1> DEFINE rest == Drop(lens, Served(lens))
           c == IF Served(lens) = Len(lens) THEN Idle ELSE [op |-> "read", rest |-> rest, vec |-> vec]
<1>5. call' = [call EXCEPT ![t] = c] /\ held' = held
  BY LeaveFacts DEF ReadRun, Sleep
<1>6. Served(lens) # Len(lens) => rest \in Seq(Nat) \ {<<>>}
  BY ServedFacts
<1> HIDE DEF rest
<1>7. (c = Idle \/ c \in Suspended) /\ c.op # "write"
  BY <1>6, IdleFacts DEF Suspended
<1> HIDE DEF c
<1>8. AllWriteEndsClosed => AllWriteEndsClosed'
  BY <1>5, <1>7, ClosedStays DEF StatusAgrees
<1> QED BY <1>1, <1>4, <1>8, EofFacts DEF Good

\* A run of the loop of write, whose end is open.
LEMMA WriteStep ==
  ASSUME StatusAgrees, NEW t \in Thread, NEW data \in Data, NEW vec \in BOOLEAN,
         \/ call[t].op = "write" /\ data = call[t].rest
         \/ call[t].op # "write" /\ data \in WriteVecs,
         WriteRun(t, data, vec), ~AllWriteEndsClosed
  PROVE  Good
BY WriteRunStep, EofFacts DEF Good

\* A step that leaves the ring and the tables alone and is no write.
LEMMA QuietCall ==
  ASSUME StatusAgrees, NEW t \in Thread, NEW c, c = Idle \/ c \in Suspended, c.op # "write",
         call[t].op # "write", call' = [call EXCEPT ![t] = c], halt' \in BOOLEAN, got' = <<>>,
         UNCHANGED <<ring, held, parent, dead>>
  PROVE  Good
<1>1. TypeOK
  BY DEF StatusAgrees
<1>2. DOMAIN call' = Thread /\ \A u \in Thread : call'[u] = Idle \/ call'[u] \in Suspended
  BY <1>1, CallFacts
<1>3. StatusAgrees'
  BY SMT, <1>1, <1>2 DEF StatusAgrees, TypeOK, ring
<1>4. Pending' = Pending
  BY <1>1, PendingFacts
<1>5. Fifo!Next
  BY <1>4, QuietStep
<1>6. Rec' = Rec
  BY RecPrime
<1>7. AllWriteEndsClosed => AllWriteEndsClosed'
  BY <1>1, ClosedStays
<1> QED BY <1>3, <1>5, <1>6, <1>7, EofFacts DEF Good

\* A step that leaves the ring and the calls alone and gives nobody the write end.
LEMMA QuietTables ==
  ASSUME StatusAgrees, held' \in [Process -> SUBSET Ends], parent' \in [Process -> Process \cup {None}],
         dead' \subseteq Thread, halt' \in BOOLEAN, got' = <<>>, UNCHANGED <<ring, call>>,
         (\A p \in Process : "write" \notin held[p]) => \A p \in Process : "write" \notin held'[p]
  PROVE  Good
<1>1. StatusAgrees'
  BY SMT DEF StatusAgrees, TypeOK, ring
<1>2. Pending' = Pending
  BY DEF Pending
<1>3. Fifo!Next
  BY <1>2, QuietStep
<1>4. Rec' = Rec
  BY RecPrime
<1>5. AllWriteEndsClosed => AllWriteEndsClosed'
  BY ClosedFacts
<1> QED BY <1>1, <1>3, <1>4, <1>5, EofFacts DEF Good

\* What a call in progress holds.
LEMMA SuspendedFacts ==
  ASSUME TypeOK, NEW t \in Thread
  PROVE  /\ call[t].op = "read" => call[t].rest \in Seq(Nat) /\ call[t].vec \in BOOLEAN
         /\ call[t].op = "write" => call[t].rest \in Data /\ call[t].vec \in BOOLEAN
         /\ call[t].op \in {"poll", "select"} => call[t].ends \in SUBSET Ends
<1>1. call[t] = Idle \/ call[t] \in Suspended
  BY DEF TypeOK
<1>2. CASE call[t] = Idle
  BY <1>2, IdleFacts
<1>3. CASE call[t] \in Suspended
  BY <1>3 DEF Suspended, Data
<1> QED BY <1>1, <1>2, <1>3

\* The actions that read.
LEMMA ReadingSteps ==
  ASSUME StatusAgrees, NEW t \in Thread,
         (\E lens \in ReadVecs : Read(t, lens) \/ Readv(t, lens)) \/ ReadTurn(t)
  PROVE  Good
<1>1. ASSUME NEW lens \in ReadVecs, Read(t, lens) \/ Readv(t, lens) PROVE Good
  <2>1. lens \in Seq(Nat)
    BY PipeConstants
  <2>2. call[t].op # "write"
    BY <1>1, IdleFacts DEF Read, Readv, Enter, InUser
  <2>3. PICK vec \in BOOLEAN : ReadRun(t, lens, vec)
    BY <1>1 DEF Read, Readv
  <2> QED BY <2>1, <2>2, <2>3, ReadStep
<1>2. ASSUME ReadTurn(t) PROVE Good
  <2>1. call[t].op = "read" /\ ReadRun(t, call[t].rest, call[t].vec)
    BY <1>2 DEF ReadTurn, Resumable
  <2>2. call[t].rest \in Seq(Nat) /\ call[t].vec \in BOOLEAN
    BY <2>1, SuspendedFacts DEF StatusAgrees
  <2> QED BY <2>1, <2>2, ReadStep
<1> QED BY <1>1, <1>2

\* The actions that write.
LEMMA WritingSteps ==
  ASSUME StatusAgrees, NEW t \in Thread,
         (\E data \in WriteVecs : Write(t, data) \/ Writev(t, data)) \/ WriteTurn(t)
  PROVE  Good
<1>1. ASSUME NEW data \in WriteVecs, Write(t, data) \/ Writev(t, data) PROVE Good
  <2>1. data \in Data
    BY PipeConstants DEF Data
  <2>2. call[t].op # "write"
    BY <1>1, IdleFacts DEF Write, Writev, Enter, InUser
  <2>3. PICK vec \in BOOLEAN : WriteRun(t, data, vec)
    BY <1>1 DEF Write, Writev
  <2>4. ~AllWriteEndsClosed
    BY <1>1, ClosedFacts, PipeConstants DEF Write, Writev
  <2> QED BY <2>1, <2>2, <2>3, <2>4, WriteStep
<1>2. ASSUME WriteTurn(t) PROVE Good
  <2>1. call[t].op = "write" /\ WriteRun(t, call[t].rest, call[t].vec)
    BY <1>2 DEF WriteTurn, Resumable
  <2>2. call[t].rest \in Data /\ call[t].vec \in BOOLEAN
    BY <2>1, SuspendedFacts DEF StatusAgrees
  <2>3. ~AllWriteEndsClosed
    BY <2>1, ClosedFacts
  <2> QED BY <2>1, <2>2, <2>3, WriteStep
<1> QED BY <1>1, <1>2

\* The actions of poll and select.
LEMMA WaitingSteps ==
  ASSUME StatusAgrees, NEW t \in Thread,
         (\E w \in Waits : Wait(t, w)) \/ WaitTurn(t) \/ WaitTimeout(t)
  PROVE  Good
<1>1. ASSUME NEW op \in {"poll", "select"}, NEW ends \in SUBSET Ends, WaitRun(t, op, ends),
             call[t].op # "write"
      PROVE  Good
  <2> DEFINE c == IF Reported(t, op, ends) THEN Idle ELSE [op |-> op, ends |-> ends, vec |-> FALSE]
  <2>1. call' = [call EXCEPT ![t] = c] /\ got' = <<>> /\ UNCHANGED <<ring, held, parent, dead>>
    BY <1>1 DEF WaitRun, Leave, Sleep
  <2>2. halt' \in BOOLEAN
    BY <1>1, LeaveFacts DEF WaitRun, Sleep, StatusAgrees, TypeOK
  <2>3. (c = Idle \/ c \in Suspended) /\ c.op # "write"
    BY IdleFacts DEF Suspended
  <2> HIDE DEF c
  <2> QED BY <1>1, <2>1, <2>2, <2>3, QuietCall
<1>2. ASSUME NEW w \in Waits, Wait(t, w) PROVE Good
  <2>1. w[1] \in {"poll", "select"} /\ w[2] \in SUBSET Ends
    BY PipeConstants DEF Ends
  <2>2. call[t].op # "write"
    BY <1>2, IdleFacts DEF Wait, Enter, InUser
  <2>3. WaitRun(t, w[1], w[2])
    BY <1>2 DEF Wait
  <2> QED BY <1>1, <2>1, <2>2, <2>3
<1>3. ASSUME WaitTurn(t) PROVE Good
  <2>1. call[t].op \in {"poll", "select"} /\ WaitRun(t, call[t].op, call[t].ends)
    BY <1>3 DEF WaitTurn, Waiting
  <2>2. call[t].ends \in SUBSET Ends
    BY <2>1, SuspendedFacts DEF StatusAgrees
  <2>3. call[t].op # "write"
    BY <2>1
  <2> QED BY <1>1, <2>1, <2>2, <2>3
<1>4. ASSUME WaitTimeout(t) PROVE Good
  <2>1. call[t].op = "select" /\ Leave(t) /\ got' = <<>> /\ UNCHANGED <<ring, held, parent, dead>>
    BY <1>4 DEF WaitTimeout
  <2> QED BY <2>1, LeaveFacts, IdleFacts, QuietCall
<1> QED BY <1>2, <1>3, <1>4

\* The actions that change descriptor tables, and the panic of a double borrow.
LEMMA TableSteps ==
  ASSUME StatusAgrees, NEW t \in Thread,
         (\E e \in Ends : Close(t, e)) \/ (\E p \in Process : Fork(t, p)) \/ Exit(t) \/ DoubleBorrow(t)
  PROVE  Good
<1>1. /\ held \in [Process -> SUBSET Ends] /\ parent \in [Process -> Process \cup {None}]
      /\ dead \subseteq Thread /\ halt \in BOOLEAN /\ ProcessOf[t] \in Process
  BY PipeConstants DEF StatusAgrees, TypeOK
<1>2. ASSUME NEW e \in Ends, Close(t, e) PROVE Good
  <2>1. /\ held' = [held EXCEPT ![ProcessOf[t]] = held[ProcessOf[t]] \ {e}]
        /\ got' = <<>> /\ UNCHANGED <<ring, parent, call, dead, halt>>
    BY <1>2 DEF Close
  <2>2. held' \in [Process -> SUBSET Ends]
    BY <1>1, <2>1
  <2>3. (\A p \in Process : "write" \notin held[p]) => \A p \in Process : "write" \notin held'[p]
    BY <1>1, <2>1
  <2> QED BY <1>1, <2>1, <2>2, <2>3, QuietTables
<1>3. ASSUME NEW p \in Process, Fork(t, p) PROVE Good
  <2>1. /\ held' = [held EXCEPT ![p] = held[ProcessOf[t]]]
        /\ parent' = [parent EXCEPT ![p] = ProcessOf[t]]
        /\ got' = <<>> /\ UNCHANGED <<ring, call, dead, halt>>
    BY <1>3 DEF Fork
  <2>2. held' \in [Process -> SUBSET Ends] /\ parent' \in [Process -> Process \cup {None}]
    BY <1>1, <2>1
  <2>3. (\A q \in Process : "write" \notin held[q]) => \A q \in Process : "write" \notin held'[q]
    BY <1>1, <2>1
  <2> QED BY <1>1, <2>1, <2>2, <2>3, QuietTables
<1>4. ASSUME Exit(t) PROVE Good
  <2>1. /\ held' = [held EXCEPT ![ProcessOf[t]] = {}]
        /\ dead' = dead \cup {u \in Thread : ProcessOf[u] = ProcessOf[t]}
        /\ got' = <<>> /\ UNCHANGED <<ring, parent, call, halt>>
    BY <1>4 DEF Exit
  <2>2. held' \in [Process -> SUBSET Ends] /\ dead' \subseteq Thread
    BY <1>1, <2>1
  <2>3. (\A p \in Process : "write" \notin held[p]) => \A p \in Process : "write" \notin held'[p]
    BY <1>1, <2>1
  <2> QED BY <1>1, <2>1, <2>2, <2>3, QuietTables
<1>5. ASSUME DoubleBorrow(t) PROVE Good
  <2>1. halt' = TRUE /\ got' = <<>> /\ UNCHANGED <<ring, held, parent, call, dead>>
    BY <1>5 DEF DoubleBorrow
  <2> QED BY <1>1, <2>1, QuietTables
<1> QED BY <1>2, <1>3, <1>4, <1>5

\* All actions.
LEMMA NextGood == StatusAgrees /\ Next => Good
<1> SUFFICES ASSUME StatusAgrees, NEW t \in Thread, Step(t) PROVE Good
  BY DEF Next
<1> QED BY ReadingSteps, WritingSteps, WaitingSteps, TableSteps DEF Step

\* The new pipe.
LEMMA InitGood == Init => StatusAgrees
<1> SUFFICES ASSUME Init PROVE StatusAgrees
  OBVIOUS
<1>1. /\ arr \in [0 .. RING_BUFFER_SIZE - 1 -> Byte]
      /\ head \in 0 .. RING_BUFFER_SIZE - 1 /\ tail \in 0 .. RING_BUFFER_SIZE - 1
      /\ status \in {"Empty", "Normal", "Full"} /\ (status = "Normal" <=> head # tail)
  <2>1. 0 \in Byte /\ RING_BUFFER_SIZE \in Nat \ {0}
    BY PipeConstants
  <2>2. arr = [i \in 0 .. RING_BUFFER_SIZE - 1 |-> 0] /\ head = 0 /\ tail = 0 /\ status = "Empty"
    BY DEF Init
  <2>3. 0 \in 0 .. RING_BUFFER_SIZE - 1
    BY <2>1
  <2>4. arr \in [0 .. RING_BUFFER_SIZE - 1 -> Byte]
    BY <2>1, <2>2
  <2> QED BY <2>2, <2>3, <2>4
<1>2. held \in [Process -> SUBSET Ends] /\ parent \in [Process -> Process \cup {None}]
  BY DEF Init
<1>3. DOMAIN call = Thread /\ \A t \in Thread : call[t] = Idle \/ call[t] \in Suspended
  BY DEF Init
<1>4. dead \subseteq Thread /\ got \in Seq(Byte) /\ halt \in BOOLEAN
  <2>1. dead = {} /\ got = <<>> /\ halt = FALSE
    BY DEF Init
  <2>2. <<>> \in Seq(Byte)
    OBVIOUS
  <2> QED BY <2>1, <2>2
<1> QED BY <1>1, <1>2, <1>3, <1>4 DEF StatusAgrees, TypeOK

\* The invariant is inductive.
LEMMA StepGood == StatusAgrees /\ [Next]_vars => StatusAgrees'
<1>1. StatusAgrees /\ Next => StatusAgrees'
  BY NextGood DEF Good
<1>2. StatusAgrees /\ UNCHANGED vars => StatusAgrees'
  BY DEF StatusAgrees, TypeOK, vars, ring
<1> QED BY <1>1, <1>2

\* In every reachable state the status of the ring tells whether head = tail
\* means empty or full (write_byte and read_byte, pipe.rs:74-90).
THEOREM StatusAlwaysAgrees == Spec => []StatusAgrees
BY InitGood, StepGood, PTL DEF Spec

\* The new pipe is an empty queue.
LEMMA InitFifo == Init => Fifo!Init
<1> SUFFICES ASSUME Init PROVE Fifo!Init
  OBVIOUS
<1>1. got = <<>> /\ call = [t \in Thread |-> Idle] /\ AvailableRead(Rec) = 0
  BY DEF Init, AvailableRead, Rec
<1>2. Contents = <<>>
  <2>1. StatusAgrees
    BY InitGood
  <2>2. Contents \in Seq(Byte) /\ Len(Contents) = 0
    BY <1>1, <2>1, RecFacts
  <2> DEFINE c == Contents
  <2>3. c \in Seq(Byte) /\ Len(c) = 0
    BY <2>2
  <2> HIDE DEF c
  <2>4. c = <<>>
    BY <2>3
  <2> QED BY <2>4 DEF c
<1>3. Pending = [t \in Thread |-> <<>>]
  BY <1>1, IdleFacts DEF Pending
<1> QED BY <1>1, <1>2, <1>3 DEF Fifo!Init

\* Every step of the pipe is one of the queue, or a stutter.
LEMMA StepFifo == StatusAgrees /\ [Next]_vars => [Fifo!Next]_(Fifo!vars)
<1>1. StatusAgrees /\ Next => Fifo!Next
  BY NextGood DEF Good
<1>2. UNCHANGED vars => UNCHANGED Fifo!vars
  <2> SUFFICES ASSUME UNCHANGED vars PROVE UNCHANGED Fifo!vars
    OBVIOUS
  <2>1. Rec' = Rec /\ got' = got /\ call' = call
    BY RecPrime DEF vars
  <2>2. Contents' = Contents
    BY DEF Contents, AvailableRead, Rec, vars, ring
  <2>3. Pending' = Pending
    BY <2>1 DEF Pending
  <2> QED BY <2>1, <2>2, <2>3 DEF Fifo!vars
<1> QED BY <1>1, <1>2

\* The ring with its suspended readers and writers implements the bounded queue:
\* bytes are delivered once, in the order written, and none is lost
\* (read_user, write_user).
THEOREM PipeImplementsFifo == Spec => RingIsFifo
BY InitFifo, StepFifo, StatusAlwaysAgrees, PTL DEF Spec, RingIsFifo, Fifo!Spec

\* After a reader could see the end of file, no step brings another byte or
\* another writer (pipe.rs:141-144).
THEOREM EndOfFileIsFinal == Spec => EofIsFinal
<1>1. StatusAgrees /\ [Next]_vars => [EndOfFile => EndOfFile']_vars
  BY NextGood DEF Good
<1> QED BY <1>1, StatusAlwaysAgrees, PTL DEF Spec, EofIsFinal
=============================================================================
