------------------------------- MODULE Queue --------------------------------
(***************************************************************************)
(* Operators on the sequences that model the kernel's VecDeque and Vec     *)
(* values.  The one-liners that SequencesExt also has are repeated here:   *)
(* its imports would be in the context of every proof obligation.          *)
(***************************************************************************)
EXTENDS Integers, Sequences

\* The elements of s.
ToSet(s) == {s[i] : i \in DOMAIN s}

Cons(e, s) == <<e>> \o s
Front(s) == SubSeq(s, 1, Len(s) - 1)
Last(s) == s[Len(s)]
RemoveAt(s, i) == SubSeq(s, 1, i - 1) \o SubSeq(s, i + 1, Len(s))

\* s holds no element twice.
NoDup(s) == \A i, j \in 1 .. Len(s) : s[i] = s[j] => i = j

\* s holds no element but m twice.
Once(s, m) == \A i, j \in 1 .. Len(s) : s[i] = s[j] /\ s[i] # m => i = j

\* s without the elements of T, the others in their order.
Without(s, T) ==
  LET W[i \in 0 .. Len(s)] ==
        IF i = 0 THEN <<>>
        ELSE IF s[i] \in T THEN W[i - 1] ELSE Append(W[i - 1], s[i])
  IN  W[Len(s)]
=============================================================================
