------------------------------ MODULE PipeFifo ------------------------------
(***************************************************************************)
(* What a pipe promises: a bounded first-in first-out queue of bytes.      *)
(* A write hands over its bytes in order, possibly in several pieces with  *)
(* other writers' pieces between them; a read takes a prefix of the queue. *)
(***************************************************************************)
EXTENDS Sequences, Integers

CONSTANTS Thread, Capacity, Data     \* Data: what a write may be given

VARIABLES
  queue,      \* the bytes written and not yet read
  pending,    \* per thread, the bytes its write still has to hand over
  got         \* the bytes the last step delivered to a reader

vars == <<queue, pending, got>>

Init ==
  /\ queue = <<>> /\ got = <<>>
  /\ pending = [t \in Thread |-> <<>>]

\* A write begins if the thread has none in progress, and hands over a prefix.
Put(t) ==
  \E d \in (IF pending[t] = <<>> THEN Data ELSE {pending[t]}) :
    \E n \in 0 .. Len(d) :
      /\ Len(queue) + n <= Capacity
      /\ queue' = queue \o SubSeq(d, 1, n)
      /\ pending' = [pending EXCEPT ![t] = SubSeq(d, n + 1, Len(d))]
      /\ got' = <<>>

Get ==
  \E n \in 0 .. Len(queue) :
    /\ got' = SubSeq(queue, 1, n)
    /\ queue' = SubSeq(queue, n + 1, Len(queue))
    /\ UNCHANGED pending

Next == Get \/ \E t \in Thread : Put(t)

Spec == Init /\ [][Next]_vars
=============================================================================
