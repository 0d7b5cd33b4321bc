----------------------------- MODULE SeqLemmas ------------------------------
(* Facts about the sequences that model VecDeque and Vec: what the queue    *)
(* and stack operations do to the elements and to the absence of            *)
(* duplicates; and induction over the naturals in the form the filter of a  *)
(* queue needs.                                                             *)
EXTENDS Queue, WellFoundedInduction, TLAPS

USE SMTT(20), ZenonT(40)

\* Membership in a sequence, by index.
LEMMA InToSet ==
  ASSUME NEW S, NEW s \in Seq(S), NEW x
  PROVE  x \in ToSet(s) <=> \E i \in 1 .. Len(s) : s[i] = x
BY DEF ToSet

\* The elements of a sequence over S are in S.
LEMMA ToSetSubset ==
  ASSUME NEW S, NEW s \in Seq(S)
  PROVE  ToSet(s) \subseteq S
BY DEF ToSet

\* The empty sequence.
LEMMA EmptyFacts == ToSet(<<>>) = {} /\ NoDup(<<>>) /\ Len(<<>>) = 0
BY DEF ToSet, NoDup

\* A sequence of one element.
LEMMA SingletonFacts ==
  ASSUME NEW S, NEW x \in S
  PROVE  <<x>> \in Seq(S) /\ ToSet(<<x>>) = {x} /\ NoDup(<<x>>)
BY DEF ToSet, NoDup

\* push_back.
LEMMA AppendFacts ==
  ASSUME NEW S, NEW s \in Seq(S), NEW x \in S
  PROVE  /\ Append(s, x) \in Seq(S)
         /\ Len(Append(s, x)) = Len(s) + 1
         /\ ToSet(Append(s, x)) = ToSet(s) \cup {x}
         /\ NoDup(s) /\ x \notin ToSet(s) => NoDup(Append(s, x))
<1> DEFINE t == Append(s, x)
<1>1. /\ t \in Seq(S) /\ Len(t) = Len(s) + 1 /\ Len(s) \in Nat
      /\ \A i \in 1 .. Len(s) : t[i] = s[i]
      /\ t[Len(s) + 1] = x
  OBVIOUS
<1> HIDE DEF t
<1>2. \A y : y \in ToSet(t) <=> y \in ToSet(s) \/ y = x
  <2> TAKE y
  <2>1. y \in ToSet(t) <=> \E i \in 1 .. Len(t) : t[i] = y
    BY <1>1, InToSet
  <2>2. y \in ToSet(s) <=> \E i \in 1 .. Len(s) : s[i] = y
    BY InToSet
  <2> QED BY <1>1, <2>1, <2>2
<1>3. ASSUME NoDup(s), x \notin ToSet(s) PROVE NoDup(t)
  <2>1. \A i \in 1 .. Len(s) : s[i] # x
    BY <1>3, InToSet
  <2> QED BY <1>1, <1>3, <2>1 DEF NoDup
<1> QED BY <1>1, <1>2, <1>3 DEF t

\* pop_back.
LEMMA FrontFacts ==
  ASSUME NEW S, NEW s \in Seq(S), s # <<>>
  PROVE  /\ Front(s) \in Seq(S)
         /\ Last(s) \in S
         /\ Last(s) \in ToSet(s)
         /\ Len(Front(s)) = Len(s) - 1
         /\ \A i \in 1 .. Len(s) - 1 : Front(s)[i] = s[i]
         /\ ToSet(s) = ToSet(Front(s)) \cup {Last(s)}
         /\ NoDup(s) => NoDup(Front(s)) /\ Last(s) \notin ToSet(Front(s))
<1> DEFINE t == Front(s)
           n == Len(s)
<1>1. n \in Nat \ {0} /\ \A i \in 1 .. n : s[i] \in S
  OBVIOUS
<1>2. t \in Seq(S) /\ Len(t) = n - 1 /\ \A i \in 1 .. n - 1 : t[i] = s[i]
  <2>1. \A i \in 1 .. n - 1 : s[i] \in S
    BY <1>1
  <2>2. /\ t \in Seq(S)
        /\ Len(t) = IF 1 <= n - 1 THEN (n - 1) - 1 + 1 ELSE 0
        /\ \A i \in 1 .. (n - 1) - 1 + 1 : t[i] = s[1 + i - 1]
    BY <1>1, <2>1 DEF Front
  <2> HIDE DEF t, n
  <2>3. \A i \in 1 .. n - 1 : i \in 1 .. (n - 1) - 1 + 1 /\ 1 + i - 1 = i
    BY <1>1
  <2>4. \A i \in 1 .. n - 1 : t[i] = s[i]
    BY <2>2, <2>3
  <2> QED BY <1>1, <2>2, <2>4
<1>3. Last(s) = s[n] /\ n \in 1 .. n
  BY <1>1 DEF Last
<1> HIDE DEF t
<1>4. \A y : y \in ToSet(s) <=> y \in ToSet(t) \/ y = Last(s)
  <2> TAKE y
  <2>1. y \in ToSet(t) <=> \E i \in 1 .. Len(t) : t[i] = y
    BY <1>2, InToSet
  <2>2. y \in ToSet(s) <=> \E i \in 1 .. n : s[i] = y
    BY InToSet
  <2> QED BY <1>1, <1>2, <1>3, <2>1, <2>2
<1>5. ASSUME NoDup(s) PROVE NoDup(t) /\ Last(s) \notin ToSet(t)
  <2>1. NoDup(t)
    BY <1>1, <1>2, <1>5 DEF NoDup
  <2>2. \A i \in 1 .. Len(t) : t[i] # s[n]
    BY <1>1, <1>2, <1>5 DEF NoDup
  <2> QED BY <1>2, <1>3, <2>1, <2>2, InToSet
<1> QED BY <1>1, <1>2, <1>3, <1>4, <1>5 DEF t

\* pop_front.
LEMMA TailFacts ==
  ASSUME NEW S, NEW s \in Seq(S), s # <<>>
  PROVE  /\ Tail(s) \in Seq(S)
         /\ Head(s) \in S
         /\ Len(Tail(s)) = Len(s) - 1
         /\ ToSet(s) = ToSet(Tail(s)) \cup {Head(s)}
         /\ NoDup(s) => NoDup(Tail(s)) /\ Head(s) \notin ToSet(Tail(s))
<1> DEFINE t == Tail(s)
           n == Len(s)
<1>1. /\ n \in Nat \ {0}
      /\ t \in Seq(S) /\ Len(t) = n - 1
      /\ \A i \in 1 .. n - 1 : t[i] = s[i + 1]
      /\ Head(s) = s[1] /\ Head(s) \in S
  OBVIOUS
<1> HIDE DEF t, n
<1>2. \A y : y \in ToSet(s) <=> y \in ToSet(t) \/ y = Head(s)
  <2> TAKE y
  <2>0. y \in ToSet(t) <=> \E i \in 1 .. n - 1 : t[i] = y
    BY <1>1, InToSet
  <2>1. y \in ToSet(t) <=> \E i \in 1 .. n - 1 : s[i + 1] = y
    BY <1>1, <2>0
  <2>2. y \in ToSet(s) <=> \E i \in 1 .. n : s[i] = y
    BY InToSet DEF n
  <2>3. ASSUME NEW i \in 1 .. n, s[i] = y, i # 1
        PROVE  \E j \in 1 .. n - 1 : s[j + 1] = y
    <3>1. i - 1 \in 1 .. n - 1 /\ (i - 1) + 1 = i
      BY <1>1, <2>3
    <3> QED BY <3>1, <2>3
  <2>4. \A i \in 1 .. n - 1 : i + 1 \in 1 .. n
    BY <1>1
  <2> QED BY <1>1, <2>1, <2>2, <2>3, <2>4
<1>3. ASSUME NoDup(s) PROVE NoDup(t) /\ Head(s) \notin ToSet(t)
  <2>1. \A i, j \in 1 .. n : s[i] = s[j] => i = j
    BY <1>3 DEF NoDup, n
  <2>2. NoDup(t)
    BY <1>1, <2>1 DEF NoDup
  <2>3. \A i \in 1 .. Len(t) : t[i] # s[1]
    BY <1>1, <2>1
  <2> QED BY <1>1, <2>2, <2>3, InToSet
<1> QED BY <1>1, <1>2, <1>3 DEF t, n

\* push_front.
LEMMA ConsFacts ==
  ASSUME NEW S, NEW s \in Seq(S), NEW x \in S
  PROVE  /\ Cons(x, s) \in Seq(S)
         /\ Len(Cons(x, s)) = Len(s) + 1
         /\ ToSet(Cons(x, s)) = ToSet(s) \cup {x}
         /\ NoDup(s) /\ x \notin ToSet(s) => NoDup(Cons(x, s))
<1> DEFINE t == Cons(x, s)
           n == Len(s)
<1>0. <<x>> \in Seq(S) /\ Len(<<x>>) = 1 /\ <<x>>[1] = x
  OBVIOUS
<1>1. /\ n \in Nat
      /\ t \in Seq(S) /\ Len(t) = 1 + n
      /\ \A i \in 1 .. 1 + n : t[i] = IF i <= 1 THEN <<x>>[i] ELSE s[i - 1]
  BY <1>0 DEF Cons
<1> HIDE DEF t, n
<1>2. t[1] = x /\ \A i \in 1 .. n : t[i + 1] = s[i]
  BY <1>0, <1>1
<1>3. \A y : y \in ToSet(t) <=> y \in ToSet(s) \/ y = x
  <2> TAKE y
  <2>1. y \in ToSet(t) <=> \E i \in 1 .. 1 + n : t[i] = y
    BY <1>1, InToSet
  <2>2. y \in ToSet(s) <=> \E i \in 1 .. n : s[i] = y
    BY InToSet DEF n
  <2>3. ASSUME NEW i \in 1 .. 1 + n, t[i] = y, i # 1
        PROVE  \E j \in 1 .. n : s[j] = y
    <3>1. i - 1 \in 1 .. n /\ (i - 1) + 1 = i
      BY <1>1, <2>3
    <3> QED BY <1>2, <3>1, <2>3
  <2>4. \A i \in 1 .. n : i + 1 \in 1 .. 1 + n
    BY <1>1
  <2> QED BY <1>1, <1>2, <2>1, <2>2, <2>3, <2>4
<1>4. ASSUME NoDup(s), x \notin ToSet(s) PROVE NoDup(t)
  <2>1. \A i \in 1 .. n : s[i] # x
    BY <1>4, InToSet DEF n
  <2>2. \A i, j \in 1 .. n : s[i] = s[j] => i = j
    BY <1>4 DEF NoDup, n
  <2>3. \A i \in 1 .. 1 + n : i = 1 \/ (i - 1 \in 1 .. n /\ t[i] = s[i - 1])
    BY <1>1
  <2>4. ASSUME NEW i \in 1 .. 1 + n, NEW j \in 1 .. 1 + n, t[i] = t[j]
        PROVE  i = j
    <3>1. CASE i = 1 /\ j # 1
      BY <1>2, <2>1, <2>3, <2>4, <3>1
    <3>2. CASE i # 1 /\ j = 1
      BY <1>2, <2>1, <2>3, <2>4, <3>2
    <3>3. CASE i # 1 /\ j # 1
      <4>1. i - 1 \in 1 .. n /\ j - 1 \in 1 .. n /\ s[i - 1] = s[j - 1]
        BY <2>3, <2>4, <3>3
      <4>2. i - 1 = j - 1
        BY <2>2, <4>1
      <4> QED BY <1>1, <4>2
    <3> QED BY <3>1, <3>2, <3>3
  <2> QED BY <1>1, <2>4 DEF NoDup
<1> QED BY <1>1, <1>3, <1>4 DEF t, n

\* The elements of a concatenation.
LEMMA ConcatFacts ==
  ASSUME NEW S, NEW a \in Seq(S), NEW b \in Seq(S)
  PROVE  /\ a \o b \in Seq(S) /\ Len(a \o b) = Len(a) + Len(b)
         /\ \A i \in 1 .. Len(a) + Len(b) :
               (a \o b)[i] = IF i <= Len(a) THEN a[i] ELSE b[i - Len(a)]
OBVIOUS

\* remove(i) of a VecDeque or Vec.
LEMMA RemoveAtFacts ==
  ASSUME NEW S, NEW s \in Seq(S), NEW k \in 1 .. Len(s)
  PROVE  /\ RemoveAt(s, k) \in Seq(S)
         /\ Len(RemoveAt(s, k)) = Len(s) - 1
         /\ ToSet(s) = ToSet(RemoveAt(s, k)) \cup {s[k]}
         /\ NoDup(s) => NoDup(RemoveAt(s, k)) /\ s[k] \notin ToSet(RemoveAt(s, k))
<1> DEFINE n == Len(s)
           a == SubSeq(s, 1, k - 1)
           b == SubSeq(s, k + 1, n)
           t == RemoveAt(s, k)
<1>1. n \in Nat /\ k \in 1 .. n /\ \A i \in 1 .. n : s[i] \in S
  OBVIOUS
<1>2. a \in Seq(S) /\ Len(a) = k - 1 /\ \A i \in 1 .. k - 1 : a[i] = s[i]
  <2>1. k - 1 \in Int /\ \A i \in 1 .. k - 1 : s[i] \in S
    BY <1>1
  <2>2. /\ a \in Seq(S)
        /\ Len(a) = IF 1 <= k - 1 THEN (k - 1) - 1 + 1 ELSE 0
        /\ \A i \in 1 .. (k - 1) - 1 + 1 : a[i] = s[1 + i - 1]
    BY <2>1
  <2> HIDE DEF a, n
  <2>3. \A i \in 1 .. k - 1 : i \in 1 .. (k - 1) - 1 + 1 /\ 1 + i - 1 = i
    BY <1>1
  <2>4. \A i \in 1 .. k - 1 : a[i] = s[i]
    BY <2>2, <2>3
  <2> QED BY <1>1, <2>2, <2>4
<1>3. b \in Seq(S) /\ Len(b) = n - k /\ \A i \in 1 .. n - k : b[i] = s[k + i]
  <2>1. k + 1 \in Int /\ n \in Int /\ \A i \in k + 1 .. n : s[i] \in S
    BY <1>1
  <2>2. /\ b \in Seq(S)
        /\ Len(b) = IF k + 1 <= n THEN n - (k + 1) + 1 ELSE 0
        /\ \A i \in 1 .. n - (k + 1) + 1 : b[i] = s[(k + 1) + i - 1]
    BY <2>1
  <2> HIDE DEF b, n
  <2>3. \A i \in 1 .. n - k : i \in 1 .. n - (k + 1) + 1 /\ (k + 1) + i - 1 = k + i
    BY <1>1
  <2>4. \A i \in 1 .. n - k : b[i] = s[k + i]
    BY <2>2, <2>3
  <2> QED BY <1>1, <2>2, <2>4
<1>4. /\ t \in Seq(S)
      /\ Len(t) = n - 1
      /\ \A i \in 1 .. n - 1 : t[i] = IF i < k THEN s[i] ELSE s[i + 1]
  <2>1. t = a \o b
    BY DEF RemoveAt
  <2> HIDE DEF a, b, t, n
  <2>2. /\ t \in Seq(S) /\ Len(t) = Len(a) + Len(b)
        /\ \A i \in 1 .. Len(a) + Len(b) :
              t[i] = IF i <= Len(a) THEN a[i] ELSE b[i - Len(a)]
    BY <2>1, <1>2, <1>3, ConcatFacts
  <2>3. ASSUME NEW i \in 1 .. n - 1 PROVE t[i] = IF i < k THEN s[i] ELSE s[i + 1]
    <3>1. i \in 1 .. Len(a) + Len(b)
      BY <1>1, <1>2, <1>3
    <3>2. CASE i < k
      BY <1>1, <1>2, <2>2, <3>1, <3>2
    <3>3. CASE ~(i < k)
      <4>1. i - (k - 1) \in 1 .. n - k /\ k + (i - (k - 1)) = i + 1
        BY <1>1, <3>3
      <4>2. t[i] = b[i - (k - 1)]
        BY <1>1, <1>2, <2>2, <3>1, <3>3
      <4> QED BY <1>3, <4>1, <4>2, <3>3
    <3> QED BY <3>2, <3>3
  <2> QED BY <1>1, <1>2, <1>3, <2>2, <2>3
<1> HIDE DEF a, b, t, n
<1>5. \A y : y \in ToSet(s) <=> y \in ToSet(t) \/ y = s[k]
  <2> TAKE y
  <2>1. y \in ToSet(t) <=> \E i \in 1 .. n - 1 : t[i] = y
    BY <1>4, InToSet
  <2>2. y \in ToSet(s) <=> \E i \in 1 .. n : s[i] = y
    BY InToSet DEF n
  <2>3. ASSUME NEW i \in 1 .. n, s[i] = y, i # k
        PROVE  \E j \in 1 .. n - 1 : t[j] = y
    <3>1. CASE i < k
      BY <1>1, <1>4, <2>3, <3>1
    <3>2. CASE i > k
      <4>1. i - 1 \in 1 .. n - 1 /\ ~(i - 1 < k) /\ (i - 1) + 1 = i
        BY <1>1, <3>2
      <4>2. t[i - 1] = s[i]
        BY <1>4, <4>1
      <4> QED BY <2>3, <4>1, <4>2
    <3> QED BY <1>1, <2>3, <3>1, <3>2
  <2>4. \A i \in 1 .. n - 1 : i \in 1 .. n /\ i + 1 \in 1 .. n
    BY <1>1
  <2> QED BY <1>1, <1>4, <2>1, <2>2, <2>3, <2>4
<1>6. ASSUME NoDup(s) PROVE NoDup(t) /\ s[k] \notin ToSet(t)
  <2>1. \A i, j \in 1 .. n : s[i] = s[j] => i = j
    BY <1>6 DEF NoDup, n
  <2>2. NoDup(t)
    BY <1>1, <1>4, <2>1 DEF NoDup
  <2>3. \A i \in 1 .. n - 1 : t[i] # s[k]
    BY <1>1, <1>4, <2>1
  <2> QED BY <1>4, <2>2, <2>3, InToSet
<1> QED BY <1>1, <1>4, <1>5, <1>6 DEF t, n

\* push_front on a queue in which only m may be repeated.
LEMMA OnceCons ==
  ASSUME NEW S, NEW s \in Seq(S), NEW x \in S, NEW m, Once(s, m), x = m \/ x \notin ToSet(s)
  PROVE  Once(Cons(x, s), m)
<1> DEFINE t == Cons(x, s)
           n == Len(s)
<1>0. <<x>> \in Seq(S) /\ Len(<<x>>) = 1 /\ <<x>>[1] = x
  OBVIOUS
<1>1. /\ n \in Nat
      /\ t \in Seq(S) /\ Len(t) = 1 + n
      /\ \A i \in 1 .. 1 + n : t[i] = IF i <= 1 THEN <<x>>[i] ELSE s[i - 1]
  BY <1>0 DEF Cons
<1>2. x # m => \A i \in 1 .. n : s[i] # x
  BY InToSet
<1>3. \A i, j \in 1 .. n : s[i] = s[j] /\ s[i] # m => i = j
  BY DEF Once
<1> HIDE DEF t, n
<1>4. t[1] = x /\ \A i \in 1 .. 1 + n : i = 1 \/ (i - 1 \in 1 .. n /\ t[i] = s[i - 1])
  BY <1>0, <1>1
<1>5. ASSUME NEW i \in 1 .. 1 + n, NEW j \in 1 .. 1 + n, t[i] = t[j], t[i] # m
      PROVE  i = j
  <2>1. CASE i = 1 \/ j = 1
    BY <1>2, <1>4, <1>5, <2>1
  <2>2. CASE i # 1 /\ j # 1
    <3>1. i - 1 \in 1 .. n /\ j - 1 \in 1 .. n /\ s[i - 1] = s[j - 1] /\ s[i - 1] # m
      BY <1>4, <1>5, <2>2
    <3>2. i - 1 = j - 1
      BY <1>3, <3>1
    <3> QED BY <1>1, <3>2
  <2> QED BY <2>1, <2>2
<1>6. Once(t, m)
  BY <1>1, <1>5 DEF Once
<1> QED BY <1>6 DEF t

\* pop_front of such a queue.
LEMMA OnceTail ==
  ASSUME NEW S, NEW s \in Seq(S), s # <<>>, NEW m, Once(s, m)
  PROVE  Once(Tail(s), m) /\ (Head(s) # m => Head(s) \notin ToSet(Tail(s)))
<1> DEFINE t == Tail(s)
           n == Len(s)
<1>1. /\ n \in Nat \ {0}
      /\ t \in Seq(S) /\ Len(t) = n - 1
      /\ \A i \in 1 .. n - 1 : t[i] = s[i + 1]
      /\ Head(s) = s[1] /\ Head(s) \in S
  OBVIOUS
<1>2. \A i, j \in 1 .. n : s[i] = s[j] /\ s[i] # m => i = j
  BY DEF Once
<1> HIDE DEF t, n
<1>3. \A i \in 1 .. n - 1 : i + 1 \in 1 .. n /\ i + 1 # 1 /\ t[i] = s[i + 1]
  BY <1>1
<1>4. 1 \in 1 .. n
  BY <1>1
<1>5. ASSUME NEW i \in 1 .. n - 1, NEW j \in 1 .. n - 1, t[i] = t[j], t[i] # m
      PROVE  i = j
  <2>1. i + 1 = j + 1
    BY <1>2, <1>3, <1>5
  <2> QED BY <2>1
<1>6. Once(t, m)
  BY <1>1, <1>5 DEF Once
<1>7. ASSUME Head(s) # m PROVE Head(s) \notin ToSet(t)
  <2>1. \A i \in 1 .. n - 1 : t[i] # s[1]
    BY <1>1, <1>2, <1>3, <1>4, <1>7
  <2> QED BY <1>1, <2>1, InToSet
<1> QED BY <1>6, <1>7 DEF t

\* < on the naturals is well founded.
LEMMA LessWellFounded == IsWellFoundedOn({ss \in Nat \X Nat : ss[1] < ss[2]}, Nat)
BY NatLessThanWellFounded DEF OpToRel

\* Induction over the naturals for a set instead of a predicate.
LEMMA NatSetInduction ==
  ASSUME NEW S, 0 \in S, \A n \in Nat : n \in S => n + 1 \in S
  PROVE  Nat \subseteq S
<1> DEFINE R == {ss \in Nat \X Nat : ss[1] < ss[2]}
           T == Nat \ S
<1>1. SUFFICES ASSUME T # {} PROVE FALSE
  OBVIOUS
<1>2. IsWellFoundedOn(R, Nat)
  BY LessWellFounded
<1>3. \E x \in T : \A y \in T : ~ (<<y, x>> \in R)
  <2> HIDE DEF R
  <2>1. T \subseteq Nat
    OBVIOUS
  <2> HIDE DEF T
  <2> QED BY <1>1, <1>2, <2>1, WFMin
<1>4. PICK x \in T : \A y \in T : ~ (<<y, x>> \in R)
  BY <1>3
<1>5. x \in Nat /\ x # 0
  OBVIOUS
<1>6. x - 1 \in Nat /\ <<x - 1, x>> \in R
  BY <1>5
<1>7. x - 1 \notin T
  BY <1>4, <1>6
<1> QED BY <1>5, <1>6, <1>7

\* What Without returns is built up element by element.
WithoutSteps(s, T, W) ==
  /\ Without(s, T) = W[Len(s)] /\ W[0] = <<>>
  /\ \A n \in Nat : n + 1 <= Len(s) =>
        W[n + 1] = IF s[n + 1] \in T THEN W[n] ELSE Append(W[n], s[n + 1])

\* Its recursion has a solution.
LEMMA WithoutUnfolds ==
  ASSUME NEW s, Len(s) \in Nat, NEW T
  PROVE  \E W : WithoutSteps(s, T, W)
<1> DEFINE L == Len(s)
           W == CHOOSE g : g = [i \in 0 .. L |->
                       IF i = 0 THEN <<>>
                       ELSE IF s[i] \in T THEN g[i - 1] ELSE Append(g[i - 1], s[i])]
<1>0. L \in Nat
  OBVIOUS
<1>e. \E g : g = [i \in 0 .. L |->
               IF i = 0 THEN <<>>
               ELSE IF s[i] \in T THEN g[i - 1] ELSE Append(g[i - 1], s[i])]
  <2> HIDE DEF L, W
  <2> DEFINE B(g, i) == IF i = 0 THEN <<>>
                        ELSE IF s[i] \in T THEN g[i - 1] ELSE Append(g[i - 1], s[i])
             Dom == {n \in Nat : \E g : g = [i \in 0 .. n |-> B(g, i)]}
  <2>1. 0 \in Dom
    <3> DEFINE g == [i \in 0 .. 0 |-> <<>>]
    <3>1. g = [i \in 0 .. 0 |-> B(g, i)]
      OBVIOUS
    <3> QED BY <3>1
  <2>2. ASSUME NEW n \in Nat, n \in Dom PROVE n + 1 \in Dom
    <3>1. PICK g : g = [i \in 0 .. n |-> B(g, i)]
      BY <2>2
    <3>a. \A i \in 0 .. n : g[i] = B(g, i)
      <4> HIDE DEF B
      <4> QED BY <3>1
    <3> DEFINE h == [i \in 0 .. n + 1 |-> IF i <= n THEN g[i] ELSE B(g, i)]
    <3>2. ASSUME NEW i \in 0 .. n + 1 PROVE h[i] = B(h, i)
      <4>1. CASE i <= n
        <5>1. h[i] = g[i] /\ g[i] = B(g, i)
          <6>1. i \in 0 .. n
            BY <4>1
          <6>2. h[i] = g[i]
            BY <4>1
          <6> HIDE DEF B, h
          <6> QED BY <3>a, <6>1, <6>2
        <5>2. i # 0 => i - 1 \in 0 .. n + 1 /\ i - 1 <= n /\ h[i - 1] = g[i - 1]
          BY <4>1
        <5> QED BY <5>1, <5>2
      <4>2. CASE i = n + 1
        <5>1. h[i] = B(g, i)
          BY <4>2
        <5>2. i - 1 \in 0 .. n + 1 /\ i # 0 /\ h[i - 1] = g[i - 1]
          BY <4>2
        <5> QED BY <5>1, <5>2
      <4> QED BY <4>1, <4>2
    <3>3. h = [i \in 0 .. n + 1 |-> B(h, i)]
      BY <3>2
    <3>4. \E f : f = [i \in 0 .. n + 1 |-> B(f, i)]
      <4> HIDE DEF h
      <4> QED BY <3>3, Zenon
    <3> HIDE DEF B
    <3> QED BY <3>4
  <2>3. L \in Dom
    <3> HIDE DEF Dom
    <3> QED BY <1>0, <2>1, <2>2, NatSetInduction
  <2> QED BY <2>3
<1>1. W = [i \in 0 .. L |->
             IF i = 0 THEN <<>>
             ELSE IF s[i] \in T THEN W[i - 1] ELSE Append(W[i - 1], s[i])]
  BY <1>e, Zenon
<1>2. Without(s, T) = W[L]
  BY DEF Without
<1> HIDE DEF W
<1>3. /\ W[0] = <<>>
      /\ \A n \in Nat : n + 1 <= L =>
           W[n + 1] = IF s[n + 1] \in T THEN W[n] ELSE Append(W[n], s[n + 1])
  <2>1. 0 \in 0 .. L /\ \A n \in Nat : n + 1 <= L => n + 1 \in 0 .. L /\ n + 1 # 0 /\ (n + 1) - 1 = n
    BY <1>0
  <2> QED BY <1>1, <2>1
<1> QED BY <1>2, <1>3 DEF WithoutSteps

\* TaskManager::remove of every member of T.
LEMMA WithoutFacts ==
  ASSUME NEW S, NEW s \in Seq(S), NEW T
  PROVE  /\ Without(s, T) \in Seq(S)
         /\ ToSet(Without(s, T)) = ToSet(s) \ T
         /\ NoDup(s) => NoDup(Without(s, T))
<1> DEFINE L == Len(s)
           P(n) == {s[i] : i \in 1 .. n} \ T
<1>0. L \in Nat /\ \A i \in 1 .. L : s[i] \in S
  OBVIOUS
<1>1. PICK W : WithoutSteps(s, T, W)
  BY <1>0, WithoutUnfolds
<1>2. Without(s, T) = W[L]
  BY <1>1 DEF WithoutSteps
<1>3. /\ W[0] = <<>>
      /\ \A n \in Nat : n + 1 <= L =>
           W[n + 1] = IF s[n + 1] \in T THEN W[n] ELSE Append(W[n], s[n + 1])
  BY <1>1 DEF WithoutSteps
<1> DEFINE I == {n \in Nat : n <= L => /\ W[n] \in Seq(S)
                                       /\ ToSet(W[n]) = P(n)
                                       /\ NoDup(s) => NoDup(W[n])}
<1>4. 0 \in I
  <2>1. P(0) = {} /\ <<>> \in Seq(S)
    OBVIOUS
  <2> HIDE DEF P
  <2> QED BY <1>3, <2>1, EmptyFacts
<1>5. ASSUME NEW n \in Nat, n \in I PROVE n + 1 \in I
  <2> SUFFICES ASSUME n + 1 <= L
               PROVE  /\ W[n + 1] \in Seq(S)
                      /\ ToSet(W[n + 1]) = P(n + 1)
                      /\ NoDup(s) => NoDup(W[n + 1])
    OBVIOUS
  <2>1. /\ W[n] \in Seq(S) /\ ToSet(W[n]) = P(n)
        /\ NoDup(s) => NoDup(W[n])
    BY <1>0, <1>5
  <2>2. s[n + 1] \in S
    BY <1>0
  <2>3. P(n + 1) = P(n) \cup ({s[n + 1]} \ T)
    BY <1>0
  <2>4. CASE s[n + 1] \in T
    BY <1>3, <2>1, <2>3, <2>4
  <2>5. CASE s[n + 1] \notin T
    <3>1. W[n + 1] = Append(W[n], s[n + 1])
      BY <1>3, <2>5
    <3>2. NoDup(s) => s[n + 1] \notin P(n)
      BY <1>0 DEF NoDup
    <3> DEFINE w == W[n]
               x == s[n + 1]
    <3>3. w \in Seq(S) /\ x \in S
      BY <2>1, <2>2
    <3> HIDE DEF P, w, x
    <3>4. /\ Append(w, x) \in Seq(S)
          /\ ToSet(Append(w, x)) = ToSet(w) \cup {x}
          /\ NoDup(w) /\ x \notin ToSet(w) => NoDup(Append(w, x))
      BY <3>3, AppendFacts
    <3> QED BY <2>1, <2>3, <2>5, <3>1, <3>2, <3>4 DEF w, x
  <2> QED BY <2>4, <2>5
<1>6. L \in I
  <2> HIDE DEF I
  <2> QED BY <1>0, <1>4, <1>5, NatSetInduction
<1>7. ToSet(s) = {s[i] : i \in 1 .. L}
  BY DEF ToSet
<1> QED BY <1>0, <1>2, <1>6, <1>7

-----------------------------------------------------------------------------
(* Recursive functions over an interval. *)

\* H gives the value at i from the one at i - 1; both are in A.
IsStep(H, N, A) == H \in [(1 .. N) \X A -> A]
\* g is the function that H defines, from a on.
Iterates(g, H, N, A, a) ==
  g \in [0 .. N -> A] /\ g[0] = a /\ \A i \in 1 .. N : g[i] = H[<<i, g[i - 1]>>]

\* There is such a function.
LEMMA RecursionExists ==
  ASSUME NEW N \in Nat, NEW A, NEW a \in A, NEW H, IsStep(H, N, A)
  PROVE  \E g : Iterates(g, H, N, A, a)
<1> USE DEF IsStep, Iterates
<1> DEFINE P(n, g) == /\ g \in [0 .. n -> A] /\ g[0] = a
                      /\ \A i \in 1 .. n : g[i] = H[<<i, g[i - 1]>>]
           D == {n \in Nat : n <= N => \E g : P(n, g)}
<1>1. 0 \in D
  <2> DEFINE g == [i \in 0 .. 0 |-> a]
  <2>1. P(0, g)
    OBVIOUS
  <2> HIDE DEF P, g
  <2> QED BY <2>1
<1>2. ASSUME NEW n \in Nat, n \in D PROVE n + 1 \in D
  <2> SUFFICES ASSUME n + 1 <= N PROVE \E g : P(n + 1, g)
    OBVIOUS
  <2>1. PICK g : P(n, g)
    BY <1>2
  <2> DEFINE x == H[<<n + 1, g[n]>>]
             h == [i \in 0 .. n + 1 |-> IF i <= n THEN g[i] ELSE x]
  <2>2. g[n] \in A /\ n + 1 \in 1 .. N
    BY <2>1
  <2>3. x \in A
    BY <2>2
  <2>4. /\ \A i \in 0 .. n : g[i] \in A /\ i \in 0 .. n + 1
        /\ \A i \in 1 .. n : i - 1 \in 0 .. n /\ i \in 0 .. n
    BY <2>1
  <2>5. h \in [0 .. n + 1 -> A] /\ h[n + 1] = x /\ \A i \in 0 .. n : h[i] = g[i]
    <3> HIDE DEF x, P
    <3> QED BY <2>3, <2>4
  <2>6. x = H[<<n + 1, g[n]>>] /\ (n + 1) - 1 = n /\ n \in 0 .. n
    OBVIOUS
  <2> HIDE DEF h, x
  <2>7. \A i \in 1 .. n + 1 : h[i] = H[<<i, h[i - 1]>>]
    <3>1. \A i \in 1 .. n : h[i] = H[<<i, h[i - 1]>>]
      BY <2>1, <2>4, <2>5
    <3>2. h[n + 1] = H[<<n + 1, h[(n + 1) - 1]>>]
      BY <2>5, <2>6
    <3> QED BY <3>1, <3>2
  <2>8. P(n + 1, h)
    BY <2>1, <2>5, <2>7
  <2> HIDE DEF P
  <2> QED BY <2>8
<1>3. N \in D
  <2> HIDE DEF D
  <2> QED BY <1>1, <1>2, NatSetInduction
<1> QED BY <1>3

\* Two functions that agree at 0, and at i if they do at i - 1, agree up to n.
StepsAgree(g, h, n) ==
  g[0] = h[0] /\ \A i \in 1 .. n : g[i - 1] = h[i - 1] => g[i] = h[i]

\* A recursion over the numbers up to n has one solution.
LEMMA RecursionUnique ==
  ASSUME NEW n \in Nat, NEW g, NEW h, StepsAgree(g, h, n)
  PROVE  \A i \in 0 .. n : g[i] = h[i]
<1> USE DEF StepsAgree
<1> DEFINE I == {i \in Nat : i <= n => g[i] = h[i]}
<1>1. 0 \in I
  OBVIOUS
<1>2. ASSUME NEW i \in Nat, i \in I PROVE i + 1 \in I
  <2> SUFFICES ASSUME i + 1 <= n PROVE g[i + 1] = h[i + 1]
    OBVIOUS
  <2>1. g[i] = h[i] /\ i + 1 \in 1 .. n /\ (i + 1) - 1 = i
    BY <1>2
  <2> QED BY <2>1
<1>3. Nat \subseteq I
  <2> HIDE DEF I
  <2> QED BY <1>1, <1>2, NatSetInduction
<1> QED BY <1>3

\* A non-empty set of naturals has a least member.
LEMMA LeastExists ==
  ASSUME NEW S \in SUBSET Nat, S # {}
  PROVE  \E i \in S : \A j \in S : i <= j
<1> DEFINE R == {ss \in Nat \X Nat : ss[1] < ss[2]}
<1>1. \E x \in S : \A y \in S : ~ (<<y, x>> \in R)
  <2>1. IsWellFoundedOn(R, Nat)
    BY LessWellFounded
  <2> HIDE DEF R
  <2> QED BY <2>1, WFMin
<1>2. PICK x \in S : \A y \in S : ~ (<<y, x>> \in R)
  BY <1>1
<1>3. ASSUME NEW y \in S PROVE x <= y
  <2>1. x \in Nat /\ y \in Nat
    OBVIOUS
  <2>2. ~ (y < x)
    <3>1. y < x => <<y, x>> \in R
      BY <2>1
    <3> HIDE DEF R
    <3> QED BY <1>2, <3>1
  <2> QED BY <2>1, <2>2
<1> QED BY <1>3
=============================================================================
