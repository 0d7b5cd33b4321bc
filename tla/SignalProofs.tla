---------------------------- MODULE SignalProofs ----------------------------
(* Proofs about Signal for any set of threads, signals and actions.  The    *)
(* delivery operators map one signal state of the process to the next, so   *)
(* that what they preserve is stated of such a state and holds of the        *)
(* variables at the end of every trap.                                      *)
EXTENDS Signal, SeqLemmas

\* Most leaves are first-order: Zenon has a short try before the SMT solver.
USE ZenonT(6), SMTT(20), ZenonT(40)

SignalState ==
  [pending : SUBSET Signals, mask : SUBSET Signals,
   table : [ActionNums -> SignalAction], th : [Thread -> ThreadState]]

\* InterruptedContextKept, of a thread in a signal state.
ContextKept(S, t) ==
  S.th[t].pc # Ordinary /\ ~S.th[t].lost => S.th[t].backup = Ordinary /\ Handling(S, t)

\* A thread is marked killed by a signal without a handler, or by SIGKILL, which
\* stays pending.
KillMarked(S, t) == S.th[t].killed => S.th[t].unhandled \/ SIGKILL \in S.pending

\* What delivery to thread t keeps: the types, every interrupted context, a
\* pending SIGKILL, and of the other threads everything.
Good(S) == S \in SignalState /\ \A u \in Thread : ContextKept(S, u) /\ KillMarked(S, u)
Delivers(S, R, t) ==
  /\ Good(R) /\ (SIGKILL \in S.pending => SIGKILL \in R.pending)
  /\ R.th[t].mode = S.th[t].mode /\ R.th[t].wait = S.th[t].wait
  /\ \A u \in Thread \ {t} : R.th[u] = S.th[u]

\* Signal state S with p pending, mask m and thread t in state x.
Put(S, t, x, p, m) ==
  [pending |-> p, mask |-> m, table |-> S.table, th |-> [S.th EXCEPT ![t] = x]]
Replaced(S, R, t, x, p) ==
  /\ R \in SignalState /\ R.th[t] = x /\ R.pending = p
  /\ \A u \in Thread \ {t} : R.th[u] = S.th[u]

\* Replacing the state of one thread by a well-typed one.
LEMMA SetThread ==
  ASSUME NEW S \in SignalState, NEW t \in Thread, NEW x \in ThreadState,
         NEW p \in SUBSET Signals, NEW m \in SUBSET Signals
  PROVE  Replaced(S, Put(S, t, x, p, m), t, x, p)
  BY DEF SignalState, Put, Replaced

\* A handler that runs has an entry in the table.
LEMMA ActionFacts ==
  ASSUME NEW S \in SignalState, NEW i
  PROVE  /\ Action(S, i) \in SignalAction
         /\ Action(S, i).handler => i \in ActionNums
<1>1. {3, 5} \in SUBSET Signals
  BY DEF Signals, MAX_SIG
<1>2. Default \in SignalAction /\ ~Default.handler
  BY <1>1 DEF Default, SignalAction
<1>3. \A j \in ActionNums : S.table[j] \in SignalAction
  BY DEF SignalState
<1> QED BY <1>2, <1>3 DEF Action

\* call_user_signal_handler: the context it interrupts is saved in the backup,
\* or it was a handler's and counts as lost.
LEMMA CallUserHandlerFacts ==
  ASSUME NEW S, Good(S), NEW t \in Thread, NEW i, NEW s, NEW thread \in BOOLEAN,
         thread \/ s # SIGKILL
  PROVE  Delivers(S, CallUserHandler(S, t, i, s, thread), t)
<1> DEFINE R == CallUserHandler(S, t, i, s, thread)
<1>1. S \in SignalState /\ S.th[t] \in ThreadState
  BY DEF Good, SignalState
<1>2. CASE ~Action(S, i).handler
  <2> DEFINE x == [S.th[t] EXCEPT !.killed = TRUE, !.unhandled = TRUE]
  <2>1. x \in ThreadState /\ x.mode = S.th[t].mode /\ x.wait = S.th[t].wait
        /\ x.pc = S.th[t].pc /\ x.lost = S.th[t].lost /\ x.backup = S.th[t].backup
        /\ x.handling = S.th[t].handling /\ x.unhandled
    BY <1>1 DEF ThreadState
  <2>2. R = [pending |-> S.pending, mask |-> S.mask, table |-> S.table, th |-> [S.th EXCEPT ![t] = x]]
    BY <1>1, <1>2 DEF CallUserHandler, SignalState
  <2>3. /\ R \in SignalState /\ R.th[t] = x /\ R.pending = S.pending
        /\ \A u \in Thread \ {t} : R.th[u] = S.th[u]
    <3> HIDE DEF x, R
    <3>1. S.pending \in SUBSET Signals /\ S.mask \in SUBSET Signals
      BY <1>1 DEF SignalState
    <3>2. R = Put(S, t, x, S.pending, S.mask)
      BY <2>2 DEF Put
    <3>3. Replaced(S, Put(S, t, x, S.pending, S.mask), t, x, S.pending)
      BY <1>1, <2>1, <3>1, SetThread
    <3> QED BY <3>2, <3>3 DEF Replaced
  <2> HIDE DEF x, R
  <2>4. \A u \in Thread : ContextKept(R, u)
    BY <2>1, <2>3 DEF Good, ContextKept, Handling
  <2>5. \A u \in Thread : KillMarked(R, u)
    BY <2>1, <2>3 DEF Good, KillMarked
  <2> QED BY <2>1, <2>3, <2>4, <2>5 DEF Good, Delivers, R
<1>3. CASE Action(S, i).handler
  <2> DEFINE q == IF thread THEN S.th[t].pending \ {s} ELSE S.th[t].pending
             l == S.th[t].lost \/ S.th[t].pc # Ordinary
             x == [S.th[t] EXCEPT !.pending = q, !.handling = i, !.backup = S.th[t].pc,
                                  !.pc = i, !.lost = l]
  <2>1. i \in ActionNums /\ i # NotHandling /\ Action(S, i).mask \in SUBSET Signals
    BY <1>1, <1>3, ActionFacts, SignalConstants DEF SignalAction, NotHandling
  <2>2. /\ x \in ThreadState /\ x.mode = S.th[t].mode /\ x.wait = S.th[t].wait
        /\ x.backup = S.th[t].pc /\ x.handling = i
        /\ x.killed = S.th[t].killed /\ x.unhandled = S.th[t].unhandled
        /\ ~x.lost => S.th[t].pc = Ordinary
    <3>1. q \in SUBSET {SIGCANCEL} /\ l \in BOOLEAN /\ (~l => S.th[t].pc = Ordinary)
      BY <1>1 DEF ThreadState
    <3> HIDE DEF q, l
    <3> QED BY <1>1, <2>1, <3>1 DEF ThreadState
  <2> DEFINE p == IF thread THEN S.pending ELSE S.pending \ {s}
  <2>3. R = [pending |-> p, mask |-> Action(S, i).mask, table |-> S.table,
             th |-> [S.th EXCEPT ![t] = x]]
    <3>1. R = [S EXCEPT !.pending = p, !.mask = Action(S, i).mask, !.th[t] = x]
      BY <1>3 DEF CallUserHandler
    <3> HIDE DEF R, x, p
    <3> QED BY <1>1, <3>1 DEF SignalState
  <2>4. /\ R \in SignalState /\ R.th[t] = x /\ R.pending = p
        /\ \A u \in Thread \ {t} : R.th[u] = S.th[u]
    <3>1. p \in SUBSET Signals
      BY <1>1 DEF SignalState
    <3> DEFINE m == Action(S, i).mask
    <3> HIDE DEF x, R, p
    <3>2. R = Put(S, t, x, p, m)
      BY <2>3 DEF Put
    <3>3. m \in SUBSET Signals
      BY <2>1
    <3> HIDE DEF m
    <3>4. Replaced(S, Put(S, t, x, p, m), t, x, p)
      BY <1>1, <2>2, <3>1, <3>3, SetThread
    <3> QED BY <3>2, <3>4 DEF Replaced
  <2>5. SIGKILL \in S.pending => SIGKILL \in p
    OBVIOUS
  <2> HIDE DEF x, R, p
  <2>6. \A u \in Thread : ContextKept(R, u)
    BY <2>1, <2>2, <2>4 DEF Good, ContextKept, Handling
  <2>7. \A u \in Thread : KillMarked(R, u)
    BY <2>2, <2>4, <2>5 DEF Good, KillMarked
  <2> QED BY <2>2, <2>4, <2>5, <2>6, <2>7 DEF Good, Delivers, R
<1> QED BY <1>2, <1>3

\* call_kernel_signal_handler touches pending bits and two flags.
LEMMA CallKernelHandlerFacts ==
  ASSUME NEW S, Good(S), NEW t \in Thread, NEW sigs, sigs \subseteq S.pending
  PROVE  Delivers(S, CallKernelHandler(S, t, sigs), t)
<1> DEFINE R == CallKernelHandler(S, t, sigs)
           x == [S.th[t] EXCEPT !.killed = @ \/ SIGKILL \in sigs,
                                !.frozen = SIGSTOP \in sigs \/ (@ /\ SIGCONT \notin sigs)]
           p == S.pending \ (sigs \cap {SIGSTOP, SIGCONT})
<1>1. S \in SignalState /\ S.th[t] \in ThreadState
  BY DEF Good, SignalState
<1>2. x \in ThreadState /\ x.mode = S.th[t].mode /\ x.wait = S.th[t].wait
      /\ x.pc = S.th[t].pc /\ x.lost = S.th[t].lost /\ x.backup = S.th[t].backup
      /\ x.handling = S.th[t].handling /\ x.unhandled = S.th[t].unhandled
      /\ (x.killed => S.th[t].killed \/ SIGKILL \in sigs)
  BY <1>1 DEF ThreadState
<1>3. R = [pending |-> p, mask |-> S.mask, table |-> S.table, th |-> [S.th EXCEPT ![t] = x]]
  <2>1. R = [S EXCEPT !.pending = p, !.th[t] = x]
    BY DEF CallKernelHandler
  <2> HIDE DEF R, x, p
  <2> QED BY <1>1, <2>1 DEF SignalState
<1>4. p \in SUBSET Signals /\ S.mask \in SUBSET Signals
  BY <1>1 DEF SignalState
<1>5. SIGKILL \in S.pending => SIGKILL \in p
  BY DEF SIGKILL, SIGSTOP, SIGCONT
<1> HIDE DEF x, R, p
<1>6. /\ R \in SignalState /\ R.th[t] = x /\ R.pending = p
      /\ \A u \in Thread \ {t} : R.th[u] = S.th[u]
  <2>1. R = Put(S, t, x, p, S.mask)
    BY <1>3 DEF Put
  <2>2. Replaced(S, Put(S, t, x, p, S.mask), t, x, p)
    BY <1>1, <1>2, <1>4, SetThread
  <2> QED BY <2>1, <2>2 DEF Replaced
<1>7. \A u \in Thread : ContextKept(R, u)
  BY <1>2, <1>6 DEF Good, ContextKept, Handling
<1>8. \A u \in Thread : KillMarked(R, u)
  BY <1>2, <1>5, <1>6 DEF Good, KillMarked
<1> QED BY <1>2, <1>5, <1>6, <1>7, <1>8 DEF Good, Delivers, R

\* Min gives a member of a set of signals.
LEMMA MinIn ==
  ASSUME NEW S \in SUBSET Nat, S # {}
  PROVE  Min(S) \in S
<1> DEFINE P(z) == \A y \in S : z <= y
<1>1. PICK x \in S : \A y \in S : x <= y
  BY LeastExists
<1>2. P(x)
  BY <1>1
<1>3. Min(S) = CHOOSE z \in S : P(z)
  BY DEF Min
<1> HIDE DEF P
<1> QED BY <1>2, <1>3

\* A delivery after a delivery.
LEMMA DeliversTrans ==
  ASSUME NEW S, NEW R, NEW Q, NEW t, Delivers(S, R, t), Delivers(R, Q, t)
  PROVE  Delivers(S, Q, t)
  BY DEF Delivers

\* check_pending_signals.
LEMMA CheckPendingFacts ==
  ASSUME NEW S0, Good(S0), NEW t \in Thread
  PROVE  Delivers(S0, CheckPending(S0, t), t)
<1> DEFINE S == CheckCancel(S0, t)
           found == {s \in S.pending : Deliverable(S, t, s)}
           user == found \ KernelSignals
           sigs == {s \in found \cap KernelSignals : \A u \in user : s < u}
           R == CallKernelHandler(S, t, sigs)
<1>1. Delivers(S0, S, t)
  <2>1. Delivers(S0, S0, t)
    BY DEF Delivers
  <2>2. Delivers(S0, CallUserHandler(S0, t, 33, SIGCANCEL, TRUE), t)
    BY CallUserHandlerFacts
  <2> QED BY <2>1, <2>2 DEF CheckCancel
<1> HIDE DEF S
<1>2. Good(S)
  BY <1>1 DEF Delivers
<1>a. sigs \subseteq S.pending
  OBVIOUS
<1> HIDE DEF sigs
<1>3. Delivers(S, R, t)
  BY <1>2, <1>a, CallKernelHandlerFacts
<1>4. Good(R)
  BY <1>3 DEF Delivers
<1>b. SIGKILL \notin user /\ user \in SUBSET Nat
  <2>1. S.pending \in SUBSET Signals
    BY <1>2 DEF Good, SignalState
  <2>2. Signals \subseteq Nat
    BY DEF Signals, MAX_SIG
  <2> QED BY <2>1, <2>2 DEF KernelSignals
<1> HIDE DEF R
<1>6. CheckPending(S0, t) = IF user = {} THEN R
                            ELSE CallUserHandler(R, t, Min(user), Min(user), FALSE)
  BY DEF CheckPending, S, sigs, R
<1> HIDE DEF user
<1>c. user # {} => Min(user) # SIGKILL
  BY <1>b, MinIn
<1>5. user # {} => Delivers(R, CallUserHandler(R, t, Min(user), Min(user), FALSE), t)
  BY <1>4, <1>c, CallUserHandlerFacts
<1> QED BY <1>1, <1>3, <1>5, <1>6, DeliversTrans

-----------------------------------------------------------------------------
\* The inductive invariant adds to the two invariants what killed stands for:
\* a thread that SIGKILL marked finds it pending when its loop ends, and dies.
SignalInv == StoppedStays /\ InterruptedContextKept /\ \A t \in Thread : KillMarked(Now, t)

\* A thread whose trap is over, or that no trap is about.
Settled(S, u) ==
  /\ S.th[u].wait # {} => S.th[u].mode = "wait"
  /\ S.th[u].mode = "user" /\ S.th[u].frozen => S.th[u].unhandled

\* What the invariant says of the present signal state.
LEMMA NowFacts ==
  ASSUME SignalInv
  PROVE  Good(Now) /\ \A u \in Thread : Settled(Now, u)
<1>1. Now \in SignalState /\ Now.th = th
  BY DEF SignalInv, StoppedStays, TypeOK, SignalState, Now
<1>2. \A u \in Thread : ContextKept(Now, u) /\ KillMarked(Now, u)
  BY <1>1 DEF SignalInv, InterruptedContextKept, ContextKept
<1>3. \A u \in Thread : Settled(Now, u)
  BY <1>1 DEF SignalInv, StoppedStays, TypeOK, Settled
<1> QED BY <1>1, <1>2, <1>3 DEF Good

\* A good state with all threads settled satisfies the invariant.
LEMMA BecomesInv ==
  ASSUME NEW S, Good(S), \A u \in Thread : Settled(S, u), Becomes(S),
         sends' \in 0 .. MaxSends, life' \in {"running", "exited", "panicked"}
  PROVE  SignalInv'
<1>1. /\ S.pending \subseteq Signals /\ S.mask \subseteq Signals
      /\ S.table \in [ActionNums -> SignalAction] /\ S.th \in [Thread -> ThreadState]
  BY DEF Good, SignalState
<1>2. TypeOK'
  BY <1>1 DEF TypeOK, Becomes, Settled
<1>3. \A u \in Thread : th'[u].mode = "user" /\ th'[u].frozen => th'[u].unhandled
  BY DEF Becomes, Settled
<1>4. InterruptedContextKept'
  BY DEF Becomes, Good, ContextKept, Handling, InterruptedContextKept, Now
<1>5. \A u \in Thread : KillMarked(Now, u)'
  BY DEF Becomes, Good, KillMarked, Now
<1> QED BY <1>2, <1>3, <1>4, <1>5 DEF SignalInv, StoppedStays

\* A thread as TaskControlBlock::new makes it.
Modes == {"free", "user", "stopped", "wait", "call", "dead"}
Fresh(x, mode, pc) ==
  /\ x \in ThreadState /\ x.mode = mode /\ x.wait = {}
  /\ ~x.frozen /\ ~x.killed /\ x.pc = pc /\ (pc # Ordinary => x.lost)

\* What TaskControlBlock::new makes is a thread nothing was delivered to.
LEMMA NewThreadFacts ==
  ASSUME NEW mode \in Modes, NEW pc \in {Ordinary} \cup ActionNums
  PROVE  Fresh(NewThread(mode, pc), mode, pc)
  BY DEF NewThread, ThreadState, Fresh, Modes

WithMode(S, t, m) == [S EXCEPT !.th[t].mode = m]
Remodes(S, R, t, m) ==
  /\ Good(R) /\ R.th[t].mode = m /\ R.th[t].wait = S.th[t].wait
  /\ R.th[t].frozen = S.th[t].frozen /\ R.th[t].unhandled = S.th[t].unhandled
  /\ \A u \in Thread \ {t} : R.th[u] = S.th[u]

\* Setting the mode of a thread changes nothing else.
LEMMA WithModeFacts ==
  ASSUME NEW S, Good(S), NEW t \in Thread, NEW m \in Modes,
         NEW R, R = WithMode(S, t, m)
  PROVE  Remodes(S, R, t, m)
<1> DEFINE x == [S.th[t] EXCEPT !.mode = m]
           p == S.pending
           q == S.mask
<1>1. S \in SignalState /\ S.th[t] \in ThreadState
  BY DEF Good, SignalState
<1>2. /\ x \in ThreadState /\ x.mode = m /\ x.wait = S.th[t].wait
      /\ x.pc = S.th[t].pc /\ x.lost = S.th[t].lost /\ x.backup = S.th[t].backup
      /\ x.handling = S.th[t].handling
      /\ x.frozen = S.th[t].frozen /\ x.killed = S.th[t].killed /\ x.unhandled = S.th[t].unhandled
  BY <1>1 DEF ThreadState, Modes
<1>3. R = [pending |-> p, mask |-> q, table |-> S.table, th |-> [S.th EXCEPT ![t] = x]]
  BY <1>1 DEF WithMode, SignalState
<1>4. p \in SUBSET Signals /\ q \in SUBSET Signals
  BY <1>1 DEF SignalState
<1> HIDE DEF x, p, q
<1>5. /\ R \in SignalState /\ R.th[t] = x /\ R.pending = p
      /\ \A u \in Thread \ {t} : R.th[u] = S.th[u]
  <2>1. R = Put(S, t, x, p, q)
    BY <1>3 DEF Put
  <2>2. Replaced(S, Put(S, t, x, p, q), t, x, p)
    BY <1>1, <1>2, <1>4, SetThread
  <2> QED BY <2>1, <2>2 DEF Replaced
<1>6. Good(R)
  <2>1. \A u \in Thread : ContextKept(R, u)
    BY <1>2, <1>5 DEF Good, ContextKept, Handling
  <2>2. \A u \in Thread : KillMarked(R, u)
    BY <1>2, <1>5 DEF Good, KillMarked, p
  <2> QED BY <1>5, <2>1, <2>2 DEF Good
<1> QED BY <1>2, <1>5, <1>6 DEF Remodes

\* check_signals_of_current_process and the return to user mode.
LEMMA FinishInv ==
  ASSUME NEW S, Good(S), NEW t \in Thread, \A u \in Thread \ {t} : Settled(S, u),
         S.th[t].wait = {}, ~Stopped(S, t), Finish(S, t),
         sends' \in 0 .. MaxSends, life \in {"running", "exited", "panicked"}
  PROVE  SignalInv'
<1>1. S \in SignalState /\ S.th \in [Thread -> ThreadState]
  BY DEF Good, SignalState
<1>2. CASE S.pending \cap Fatal = {}
  <2> DEFINE R == WithMode(S, t, "user")
  <2>1. Becomes(R) /\ life' = life
    BY <1>2 DEF Finish, WithMode
  <2>2. R = WithMode(S, t, "user")
    OBVIOUS
  <2> HIDE DEF R
  <2>3. Remodes(S, R, t, "user")
    <3>1. "user" \in Modes
      BY DEF Modes
    <3> QED BY <2>2, <3>1, WithModeFacts
  <2>a. S.th[t].frozen => S.th[t].unhandled
    <3>1. SIGKILL \notin S.pending
      BY <1>2 DEF Fatal, SIGKILL
    <3> QED BY <3>1 DEF Good, KillMarked, Stopped
  <2>4. Good(R) /\ \A u \in Thread : Settled(R, u)
    BY <2>3, <2>a DEF Remodes, Settled
  <2> QED BY <2>1, <2>4, BecomesInv
<1>3. CASE S.pending \cap Fatal # {}
  <2> DEFINE R == Dead(S, t)
             z == NewThread("dead", Ordinary)
  <2>1. /\ R.th = [u \in Thread |-> IF u = t \/ t = Main THEN z ELSE S.th[u]]
        /\ z \in ThreadState /\ z.mode = "dead" /\ z.wait = {} /\ z.pc = Ordinary /\ ~z.killed
    <3>1. R.th = [u \in Thread |-> IF u = t \/ t = Main THEN z ELSE S.th[u]]
      BY <1>1 DEF Dead, SignalState
    <3>2. "dead" \in Modes /\ Ordinary \in {Ordinary} \cup ActionNums
      BY DEF Modes
    <3>3. Fresh(z, "dead", Ordinary)
      BY <3>2, NewThreadFacts
    <3> QED BY <3>1, <3>3 DEF Fresh
  <2> HIDE DEF z
  <2>2. R \in SignalState /\ R.pending = S.pending
    <3>1. R.pending = S.pending /\ R.mask = S.mask /\ R.table = S.table
      BY <1>1 DEF Dead, SignalState
    <3>2. R.th \in [Thread -> ThreadState]
      BY <1>1, <2>1
    <3>3. R = [pending |-> R.pending, mask |-> R.mask, table |-> R.table, th |-> R.th]
      BY <1>1 DEF Dead, SignalState
    <3> HIDE DEF R
    <3> QED BY <1>1, <3>1, <3>2, <3>3 DEF SignalState
  <2>3. \A u \in Thread : R.th[u] = z \/ (u # t /\ R.th[u] = S.th[u])
    BY <2>1
  <2>4. Becomes(R) /\ life' \in {"running", "exited", "panicked"}
    BY <1>3 DEF Finish
  <2> HIDE DEF R
  <2>5. Good(R)
    <3>1. \A u \in Thread : ContextKept(R, u)
      BY <2>1, <2>3 DEF Good, ContextKept, Handling
    <3>2. \A u \in Thread : KillMarked(R, u)
      BY <2>1, <2>2, <2>3 DEF Good, KillMarked
    <3> QED BY <2>2, <3>1, <3>2 DEF Good
  <2>6. \A u \in Thread : Settled(R, u)
    BY <2>1, <2>3 DEF Settled
  <2> QED BY <2>4, <2>5, <2>6, BecomesInv
<1> QED BY <1>2, <1>3

\* handle_signals: the loop of a frozen thread suspends, all others return.
LEMMA HandleSignalsInv ==
  ASSUME NEW S0, Good(S0), NEW t \in Thread, \A u \in Thread \ {t} : Settled(S0, u),
         S0.th[t].wait = {}, HandleSignals(S0, t),
         sends' \in 0 .. MaxSends, life \in {"running", "exited", "panicked"}
  PROVE  SignalInv'
<1> DEFINE S == CheckPending(S0, t)
<1>1. Delivers(S0, S, t)
  BY CheckPendingFacts
<1>2. CASE Stopped(S, t)
  <2> DEFINE R == CheckPending(S, t)
             Q == WithMode(R, t, "stopped")
  <2>1. Becomes(Q) /\ life' = life
    BY <1>2 DEF HandleSignals, WithMode
  <2> HIDE DEF S
  <2>2. Delivers(S0, R, t)
    BY <1>1, CheckPendingFacts, DeliversTrans DEF Delivers
  <2> HIDE DEF R
  <2>3. Good(R) /\ R.th[t].wait = {} /\ \A u \in Thread \ {t} : R.th[u] = S0.th[u]
    BY <2>2 DEF Delivers
  <2>4. Q = WithMode(R, t, "stopped")
    OBVIOUS
  <2> HIDE DEF Q
  <2>5. Remodes(R, Q, t, "stopped")
    <3>1. "stopped" \in Modes
      BY DEF Modes
    <3> QED BY <2>3, <2>4, <3>1, WithModeFacts
  <2>6. Good(Q) /\ \A u \in Thread : Settled(Q, u)
    BY <2>3, <2>5 DEF Remodes, Settled
  <2> QED BY <2>1, <2>6, BecomesInv
<1>3. CASE ~Stopped(S, t)
  <2>1. Finish(S, t)
    BY <1>3 DEF HandleSignals
  <2> HIDE DEF S
  <2>2. \A u \in Thread \ {t} : Settled(S, u)
    BY <1>1 DEF Delivers, Settled
  <2> QED BY <1>1, <1>3, <2>1, <2>2, FinishInv DEF Delivers
<1> QED BY <1>2, <1>3

-----------------------------------------------------------------------------
\* The first process.
LEMMA InitInv == Init => SignalInv
<1> SUFFICES ASSUME Init PROVE SignalInv
  OBVIOUS
<1>1. \A t \in Thread : th[t] \in ThreadState /\ th[t].wait = {} /\ th[t].pc = Ordinary /\ ~th[t].frozen
      /\ ~th[t].killed
  <2> SUFFICES ASSUME NEW t \in Thread PROVE \E mode \in Modes : Fresh(th[t], mode, Ordinary)
    BY DEF Fresh
  <2> DEFINE mode == IF t = Main THEN "user" ELSE "free"
  <2>1. th[t] = NewThread(mode, Ordinary)
    BY DEF Init
  <2>2. mode \in Modes /\ Ordinary \in {Ordinary} \cup ActionNums
    BY DEF Modes
  <2> HIDE DEF mode
  <2> QED BY <2>1, <2>2, NewThreadFacts
<1>2. Default \in SignalAction
  BY DEF Default, SignalAction, Signals, MAX_SIG
<1>3. TypeOK
  <2>1. table \in [ActionNums -> SignalAction]
    BY <1>2 DEF Init, DefaultTable
  <2>2. th \in [Thread -> ThreadState]
    <3>1. th = [t \in Thread |-> th[t]]
      BY DEF Init
    <3> QED BY <1>1, <3>1
  <2>3. sends \in 0 .. MaxSends
    BY SignalConstants DEF Init
  <2>4. \A t \in Thread : th[t].wait # {} => th[t].mode = "wait"
    BY <1>1
  <2> QED BY <2>1, <2>2, <2>3, <2>4 DEF Init, TypeOK
<1> QED BY <1>1, <1>3 DEF SignalInv, StoppedStays, InterruptedContextKept, KillMarked, Now

\* A trap of a thread in user mode, after its system call or exception changed
\* the signal state to S0.
LEMMA TrapInv ==
  ASSUME SignalInv, NEW t \in Thread, InUser(t), NEW S0, Good(S0),
         \A u \in Thread \ {t} : Settled(S0, u), S0.th[t].wait = {}, HandleSignals(S0, t),
         sends' \in 0 .. MaxSends
  PROVE  SignalInv'
  BY HandleSignalsInv DEF SignalInv, StoppedStays, TypeOK

\* The signal state with other process-wide sets and actions.
LEMMA ProcessWide ==
  ASSUME SignalInv, NEW t \in Thread, InUser(t), NEW p \in SUBSET Signals, NEW m \in SUBSET Signals,
         NEW a \in [ActionNums -> SignalAction], pending \subseteq p,
         HandleSignals([pending |-> p, mask |-> m, table |-> a, th |-> th], t), sends' \in 0 .. MaxSends
  PROVE  SignalInv'
<1> DEFINE S0 == [pending |-> p, mask |-> m, table |-> a, th |-> th]
<1>1. Good(S0) /\ \A u \in Thread : Settled(S0, u)
  BY NowFacts DEF Good, SignalState, Settled, ContextKept, KillMarked, Handling, Now
<1>2. S0.th[t].wait = {}
  BY DEF InUser, SignalInv, StoppedStays, TypeOK
<1>3. HandleSignals(S0, t)
  OBVIOUS
<1> HIDE DEF S0
<1> QED BY <1>1, <1>2, <1>3, TrapInv

\* A thread x that no trap is about, and whose interrupted context is kept.
Sound(x) ==
  /\ x \in ThreadState
  /\ x.pc # Ordinary /\ ~x.lost => x.backup = Ordinary /\ x.handling # NotHandling
  /\ x.killed => x.unhandled \/ SIGKILL \in pending
Steady(x) ==
  /\ x.wait # {} => x.mode = "wait"
  /\ x.mode = "user" /\ x.frozen => x.unhandled

\* The signal state with another state x of thread u.
WithThread(u, x) == [pending |-> pending, mask |-> mask, table |-> table, th |-> [th EXCEPT ![u] = x]]

\* Changing one thread leaves the others settled.
LEMMA WithThreadFacts ==
  ASSUME SignalInv, NEW u \in Thread, NEW x, Sound(x)
  PROVE  /\ Good(WithThread(u, x))
         /\ WithThread(u, x).th[u] = x
         /\ \A v \in Thread \ {u} : WithThread(u, x).th[v] = th[v] /\ Settled(WithThread(u, x), v)
         /\ Steady(x) => Settled(WithThread(u, x), u)
<1> DEFINE S == WithThread(u, x)
<1>1. /\ S \in SignalState /\ S.th[u] = x /\ S.pending = pending
      /\ \A v \in Thread \ {u} : S.th[v] = th[v]
  BY DEF SignalInv, StoppedStays, TypeOK, WithThread, SignalState, Sound
<1> HIDE DEF S
<1>2. \A v \in Thread : v # u => ContextKept(S, v) /\ Settled(S, v) /\ KillMarked(S, v)
  BY <1>1 DEF SignalInv, StoppedStays, TypeOK, InterruptedContextKept, ContextKept, Settled,
              Handling, KillMarked, Now
<1>3. ContextKept(S, u) /\ KillMarked(S, u)
  BY <1>1 DEF Sound, ContextKept, Handling, KillMarked
<1>4. Steady(x) => Settled(S, u)
  BY <1>1 DEF Steady, Settled
<1>5. Good(S)
  BY <1>1, <1>2, <1>3 DEF Good
<1> QED BY <1>1, <1>2, <1>4, <1>5 DEF S

\* A trap of thread t that changes the state of thread u first.
LEMMA ThreadWide ==
  ASSUME SignalInv, NEW t \in Thread, NEW u \in Thread, NEW x, Sound(x),
         IF u = t THEN x.wait = {} ELSE Steady(x) /\ th[t].wait = {},
         HandleSignals(WithThread(u, x), t), sends' \in 0 .. MaxSends
  PROVE  SignalInv'
<1> DEFINE S == WithThread(u, x)
<1>1. /\ Good(S) /\ S.th[u] = x
      /\ \A v \in Thread \ {u} : S.th[v] = th[v] /\ Settled(S, v)
      /\ Steady(x) => Settled(S, u)
  BY WithThreadFacts
<1>2. HandleSignals(S, t)
  OBVIOUS
<1> HIDE DEF S
<1>3. S.th[t].wait = {} /\ \A v \in Thread \ {t} : Settled(S, v)
  BY <1>1
<1>4. life \in {"running", "exited", "panicked"}
  BY DEF SignalInv, StoppedStays, TypeOK
<1> QED BY <1>1, <1>2, <1>3, <1>4, HandleSignalsInv

\* What the invariant says of one thread.
LEMMA ThreadFacts ==
  ASSUME SignalInv, NEW t \in Thread
  PROVE  /\ Sound(th[t]) /\ Steady(th[t]) /\ sends \in 0 .. MaxSends
         /\ th[t].mode # "wait" => th[t].wait = {}
<1>1. th[t] \in ThreadState /\ sends \in 0 .. MaxSends /\ (th[t].wait # {} => th[t].mode = "wait")
  BY DEF SignalInv, StoppedStays, TypeOK
<1>2. th[t].pc # Ordinary /\ ~th[t].lost => th[t].backup = Ordinary /\ th[t].handling # NotHandling
  BY DEF SignalInv, InterruptedContextKept, Handling, Now
<1>3. th[t].mode = "user" /\ th[t].frozen => th[t].unhandled
  BY DEF SignalInv, StoppedStays
<1>4. th[t].killed => th[t].unhandled \/ SIGKILL \in pending
  BY DEF SignalInv, KillMarked, Now
<1> QED BY <1>1, <1>2, <1>3, <1>4 DEF Sound, Steady

-----------------------------------------------------------------------------
\* One step per action.
LEMMA TimerInv == ASSUME SignalInv, UNCHANGED sends, NEW t \in Thread, Timer(t) PROVE SignalInv'
<1>1. sends' \in 0 .. MaxSends
  BY ThreadFacts
<1> QED BY <1>1, ProcessWide DEF Timer, Now, SignalInv, StoppedStays, TypeOK

\* Signals that become pending: of an exception, of kill.
LEMMA PendingInv ==
  ASSUME SignalInv, NEW t \in Thread, NEW s \in Signals, InUser(t),
         HandleSignals([Now EXCEPT !.pending = @ \cup {s}], t), sends' \in 0 .. MaxSends
  PROVE  SignalInv'
<1> DEFINE p == pending \cup {s}
<1>1. [Now EXCEPT !.pending = @ \cup {s}] = [pending |-> p, mask |-> mask, table |-> table, th |-> th]
  BY DEF Now
<1>2. /\ p \in SUBSET Signals /\ mask \in SUBSET Signals /\ table \in [ActionNums -> SignalAction]
      /\ pending \subseteq p
  BY DEF SignalInv, StoppedStays, TypeOK
<1> HIDE DEF p
<1> QED BY <1>1, <1>2, ProcessWide

\* A fault in user mode.
LEMMA FaultInv ==
  ASSUME SignalInv, UNCHANGED sends, NEW t \in Thread, NEW s \in Faults, Fault(t, s)
  PROVE  SignalInv'
<1>1. s \in Signals
  BY SignalConstants DEF Signals, MAX_SIG, SIGSEGV, SIGILL
<1>2. sends' \in 0 .. MaxSends
  BY ThreadFacts
<1> QED BY <1>1, <1>2, PendingInv DEF Fault

\* The bit that kill sets is a signal.
LEMMA BitFacts == ASSUME NEW signum \in KillNums PROVE Bit(signum) \in Signals
<1>1. signum + 63 \in Nat
  BY SignalConstants DEF MAX_SIG
<1> QED BY <1>1 DEF Bit, Signals, MAX_SIG

\* The bound on sent signals.
LEMMA SendFacts == ASSUME SignalInv, Send PROVE sends' \in 0 .. MaxSends
  BY SignalConstants DEF Send, SignalInv, StoppedStays, TypeOK

\* sys_kill by a thread of the process.
LEMMA KillInv ==
  ASSUME SignalInv, NEW t \in Thread, NEW signum \in KillNums, Kill(t, signum)
  PROVE  SignalInv'
  BY PendingInv, BitFacts, SendFacts DEF Kill

\* sys_kill by another process.
LEMMA KillByOtherInv ==
  ASSUME SignalInv, NEW signum \in KillNums, KillByOther(signum)
  PROVE  SignalInv'
<1>1. sends' \in 0 .. MaxSends /\ Bit(signum) \in Signals
  BY BitFacts, SendFacts DEF KillByOther
<1>2. TypeOK'
  BY <1>1 DEF KillByOther, SignalInv, StoppedStays, TypeOK
<1>3. \A t \in Thread : KillMarked(Now, t)'
  BY DEF KillByOther, SignalInv, KillMarked, Now
<1> QED BY <1>2, <1>3 DEF KillByOther, SignalInv, StoppedStays, InterruptedContextKept, Handling, Now

\* sys_sigprocmask.
LEMMA SigprocmaskInv ==
  ASSUME SignalInv, UNCHANGED sends, NEW t \in Thread,
         NEW how \in {"SIG_BLOCK", "SIG_UNBLOCK", "SIG_SETMASK"}, NEW set \in Masks,
         Sigprocmask(t, how, set)
  PROVE  SignalInv'
<1> DEFINE m == Masked(how, set)
<1>1. [Now EXCEPT !.mask = m] = [pending |-> pending, mask |-> m, table |-> table, th |-> th]
  BY DEF Now
<1>2. pending \in SUBSET Signals /\ mask \in SUBSET Signals /\ table \in [ActionNums -> SignalAction]
  BY DEF SignalInv, StoppedStays, TypeOK
<1>3. set \in SUBSET Signals
  BY SignalConstants DEF Signals
<1>4. m = mask \cup set \/ m = mask \ set \/ m = set
  BY DEF Masked
<1>5. InUser(t) /\ HandleSignals([Now EXCEPT !.mask = m], t) /\ sends' \in 0 .. MaxSends
  BY ThreadFacts DEF Sigprocmask
<1> HIDE DEF m
<1>6. m \in SUBSET Signals
  BY <1>2, <1>3, <1>4
<1> QED BY <1>1, <1>2, <1>5, <1>6, ProcessWide

\* sys_sigaction.
LEMMA SigactionInv ==
  ASSUME SignalInv, UNCHANGED sends, NEW t \in Thread, NEW signum \in ActionNums, NEW act \in Actions,
         Sigaction(t, signum, act)
  PROVE  SignalInv'
<1> DEFINE a == [table EXCEPT ![signum] = act]
<1>1. [Now EXCEPT !.table[signum] = act] = [pending |-> pending, mask |-> mask, table |-> a, th |-> th]
  BY DEF Now
<1>2. pending \in SUBSET Signals /\ mask \in SUBSET Signals /\ table \in [ActionNums -> SignalAction]
  BY DEF SignalInv, StoppedStays, TypeOK
<1>3. act \in SignalAction
  BY SignalConstants DEF SignalAction, Signals
<1>4. a \in [ActionNums -> SignalAction]
  BY <1>2, <1>3
<1>5. InUser(t) /\ HandleSignals([Now EXCEPT !.table[signum] = act], t) /\ sends' \in 0 .. MaxSends
  BY ThreadFacts DEF Sigaction
<1> HIDE DEF a
<1> QED BY <1>1, <1>2, <1>4, <1>5, ProcessWide

\* A turn of the loop of a stopped thread.
LEMMA StoppedTurnInv ==
  ASSUME SignalInv, UNCHANGED sends, NEW t \in Thread, StoppedTurn(t)
  PROVE  SignalInv'
<1>1. /\ Good(Now) /\ Now.th[t].mode = "stopped" /\ Now.th[t].wait = {}
      /\ \A u \in Thread : Settled(Now, u)
  BY NowFacts, ThreadFacts DEF StoppedTurn, Now
<1>2. sends' \in 0 .. MaxSends /\ life \in {"running", "exited", "panicked"}
  BY ThreadFacts DEF SignalInv, StoppedStays, TypeOK
<1>3. CASE Stopped(Now, t)
  <2> DEFINE R == CheckPending(Now, t)
  <2>1. Delivers(Now, R, t)
    BY <1>1, CheckPendingFacts
  <2>2. Becomes(R) /\ life' = life
    BY <1>3 DEF StoppedTurn
  <2> HIDE DEF R
  <2>3. Good(R) /\ \A u \in Thread : Settled(R, u)
    BY <1>1, <2>1 DEF Delivers, Settled
  <2> QED BY <1>2, <2>2, <2>3, BecomesInv
<1>4. CASE ~Stopped(Now, t)
  BY <1>1, <1>2, <1>4, FinishInv DEF StoppedTurn
<1> QED BY <1>3, <1>4

\* A panic leaves the signal state as it is.
LEMMA PanicInv == ASSUME SignalInv, Panic, sends' \in 0 .. MaxSends PROVE SignalInv'
<1>1. TypeOK'
  BY DEF Panic, SignalInv, StoppedStays, TypeOK
<1> QED BY <1>1 DEF Panic, SignalInv, StoppedStays, InterruptedContextKept, KillMarked, Handling, Now

\* sys_sigreturn.
LEMMA SigreturnInv ==
  ASSUME SignalInv, UNCHANGED sends, NEW t \in Thread, Sigreturn(t)
  PROVE  SignalInv'
<1>1. CASE th[t].backup = None
  <2>1. Panic /\ sends' \in 0 .. MaxSends
    BY <1>1, ThreadFacts DEF Sigreturn
  <2> QED BY <2>1, PanicInv
<1>2. CASE th[t].backup # None
  <2> DEFINE x == [th[t] EXCEPT !.handling = NotHandling, !.pc = th[t].backup]
  <2>1. Sound(th[t]) /\ th[t].wait = {} /\ sends' \in 0 .. MaxSends /\ th[t].pc # Ordinary
    BY ThreadFacts DEF Sigreturn, InUser
  <2>2. Sound(x) /\ x.wait = {}
    BY <1>2, <2>1 DEF Sound, ThreadState
  <2>3. th \in [Thread -> ThreadState]
    BY DEF SignalInv, StoppedStays, TypeOK
  <2>4. [Now EXCEPT !.th[t] = x] = WithThread(t, x)
    BY <2>3 DEF Now, WithThread
  <2>5. HandleSignals([Now EXCEPT !.th[t] = x], t)
    BY <1>2 DEF Sigreturn
  <2> HIDE DEF x
  <2> QED BY <2>1, <2>2, <2>4, <2>5, ThreadWide
<1> QED BY <1>1, <1>2

\* sys_tkill.
LEMMA TkillInv ==
  ASSUME SignalInv, NEW t \in Thread, NEW u \in Thread, Tkill(t, u)
  PROVE  SignalInv'
<1> DEFINE x == [th[u] EXCEPT !.pending = @ \cup {SIGCANCEL}]
<1>1. /\ Sound(th[u]) /\ Steady(th[u]) /\ th[t].wait = {} /\ sends' \in 0 .. MaxSends
  BY ThreadFacts, SendFacts DEF Tkill, InUser
<1>2. Sound(x) /\ Steady(x) /\ x.wait = th[u].wait
  BY <1>1 DEF Sound, Steady, ThreadState
<1>3. th \in [Thread -> ThreadState]
  BY DEF SignalInv, StoppedStays, TypeOK
<1>4. [Now EXCEPT !.th[u].pending = @ \cup {SIGCANCEL}] = WithThread(u, x)
  BY <1>3 DEF Now, WithThread
<1>5. CASE HandleSignals([Now EXCEPT !.th[u].pending = @ \cup {SIGCANCEL}], t)
  <2> HIDE DEF x
  <2> QED BY <1>1, <1>2, <1>4, <1>5, ThreadWide
<1>6. CASE Panic
  BY <1>1, <1>6, PanicInv
<1> QED BY <1>5, <1>6 DEF Tkill

\* sys_sigtimedwait.
LEMMA SigtimedwaitInv ==
  ASSUME SignalInv, UNCHANGED sends, NEW t \in Thread, NEW set \in Masks, Sigtimedwait(t, set)
  PROVE  SignalInv'
<1>1. CASE set \cap pending # {}
  BY <1>1, TimerInv DEF Sigtimedwait, Timer
<1>2. CASE set \cap pending = {}
  <2> DEFINE x == [th[t] EXCEPT !.mode = "wait", !.wait = set]
             S == WithThread(t, x)
  <2>1. Sound(th[t]) /\ sends' \in 0 .. MaxSends /\ life \in {"running", "exited", "panicked"}
    BY ThreadFacts DEF SignalInv, StoppedStays, TypeOK
  <2>2. set \in SUBSET Signals
    BY SignalConstants DEF Signals
  <2>3. Sound(x) /\ Steady(x)
    BY <2>1, <2>2 DEF Sound, Steady, ThreadState
  <2>4. th \in [Thread -> ThreadState]
    BY DEF SignalInv, StoppedStays, TypeOK
  <2>5. [Now EXCEPT !.th[t] = x] = S
    BY <2>4 DEF Now, WithThread
  <2>6. Becomes(S) /\ life' = life
    BY <1>2, <2>5 DEF Sigtimedwait
  <2> HIDE DEF x
  <2>7. Good(S) /\ \A v \in Thread : Settled(S, v)
    BY <2>3, WithThreadFacts
  <2> HIDE DEF S
  <2> QED BY <2>1, <2>6, <2>7, BecomesInv
<1> QED BY <1>1, <1>2

\* A turn of the loop of sys_sigtimedwait.
LEMMA SigtimedwaitTurnInv ==
  ASSUME SignalInv, UNCHANGED sends, NEW t \in Thread, NEW timeout \in BOOLEAN,
         SigtimedwaitTurn(t, timeout)
  PROVE  SignalInv'
<1> DEFINE x == [th[t] EXCEPT !.wait = {}]
<1>1. Sound(th[t]) /\ sends' \in 0 .. MaxSends
  BY ThreadFacts
<1>2. Sound(x) /\ x.wait = {}
  BY <1>1 DEF Sound, ThreadState
<1>3. th \in [Thread -> ThreadState]
  BY DEF SignalInv, StoppedStays, TypeOK
<1>4. [Now EXCEPT !.th[t].wait = {}] = WithThread(t, x)
  BY <1>3 DEF Now, WithThread
<1>5. HandleSignals([Now EXCEPT !.th[t].wait = {}], t)
  BY DEF SigtimedwaitTurn
<1> HIDE DEF x
<1> QED BY <1>1, <1>2, <1>4, <1>5, ThreadWide

\* A thread enters a blocking call.
LEMMA BlockingCallInv ==
  ASSUME SignalInv, UNCHANGED sends, NEW t \in Thread, BlockingCall(t)
  PROVE  SignalInv'
<1> DEFINE x == [th[t] EXCEPT !.mode = "call"]
           S == WithThread(t, x)
<1>1. /\ Sound(th[t]) /\ th[t].wait = {} /\ sends' \in 0 .. MaxSends
      /\ life \in {"running", "exited", "panicked"}
  BY ThreadFacts DEF BlockingCall, InUser, SignalInv, StoppedStays, TypeOK
<1>2. Sound(x) /\ Steady(x)
  BY <1>1 DEF Sound, Steady, ThreadState
<1>3. th \in [Thread -> ThreadState]
  BY DEF SignalInv, StoppedStays, TypeOK
<1>4. [Now EXCEPT !.th[t].mode = "call"] = S
  BY <1>3 DEF Now, WithThread
<1>5. Becomes(S) /\ life' = life
  BY <1>4 DEF BlockingCall
<1> HIDE DEF x
<1>6. Good(S) /\ \A v \in Thread : Settled(S, v)
  BY <1>2, WithThreadFacts
<1> HIDE DEF S
<1> QED BY <1>1, <1>5, <1>6, BecomesInv

\* The call returns.
LEMMA CallReturnsInv ==
  ASSUME SignalInv, UNCHANGED sends, NEW t \in Thread, CallReturns(t)
  PROVE  SignalInv'
<1>1. Now.th[t].wait = {} /\ sends' \in 0 .. MaxSends /\ life \in {"running", "exited", "panicked"}
  BY ThreadFacts DEF CallReturns, Now, SignalInv, StoppedStays, TypeOK
<1>2. HandleSignals(Now, t)
  BY DEF CallReturns
<1> QED BY <1>1, <1>2, NowFacts, HandleSignalsInv

\* clone of a thread.
LEMMA CloneInv ==
  ASSUME SignalInv, UNCHANGED sends, NEW t \in Thread, NEW u \in Thread, Clone(t, u)
  PROVE  SignalInv'
<1> DEFINE x == NewThread("user", Ordinary)
<1>1. Sound(x) /\ Steady(x)
  <2>1. "user" \in Modes /\ Ordinary \in {Ordinary} \cup ActionNums
    BY DEF Modes
  <2>2. Fresh(x, "user", Ordinary)
    BY <2>1, NewThreadFacts
  <2> QED BY <2>2 DEF Fresh, Sound, Steady
<1>2. [Now EXCEPT !.th[u] = x] = WithThread(u, x)
  BY DEF Now, WithThread, SignalInv, StoppedStays, TypeOK
<1>3. HandleSignals([Now EXCEPT !.th[u] = x], t) /\ u # t
  BY DEF Clone, InUser
<1>4. th[t].wait = {} /\ sends' \in 0 .. MaxSends
  BY ThreadFacts DEF Clone, InUser
<1> HIDE DEF x
<1> QED BY <1>1, <1>2, <1>3, <1>4, ThreadWide

\* execve.
LEMMA ExecInv == ASSUME SignalInv, UNCHANGED sends, Exec PROVE SignalInv'
<1> DEFINE x == [th[Main] EXCEPT !.pc = Ordinary]
<1>1. Main \in Thread
  BY SignalConstants
<1>2. Sound(th[Main]) /\ sends' \in 0 .. MaxSends /\ th[Main].wait = {}
  BY <1>1, ThreadFacts DEF Exec, InUser
<1>3. Sound(x) /\ x.wait = {}
  BY <1>2 DEF Sound, ThreadState
<1>4. [Now EXCEPT !.th[Main].pc = Ordinary] = WithThread(Main, x)
  BY <1>1 DEF Now, WithThread, SignalInv, StoppedStays, TypeOK
<1>5. HandleSignals([Now EXCEPT !.th[Main].pc = Ordinary], Main)
  BY DEF Exec
<1> HIDE DEF x
<1> QED BY <1>1, <1>2, <1>3, <1>4, <1>5, ThreadWide

\* fork, seen from the child.
LEMMA ForkInv == ASSUME SignalInv, UNCHANGED sends, Fork PROVE SignalInv'
<1> DEFINE pc == th[Main].pc
           x == NewThread("user", pc)
           S == [pending |-> pending, mask |-> {}, table |-> DefaultTable, th |-> [th EXCEPT ![Main] = x]]
<1>1. Main \in Thread
  BY SignalConstants
<1>2. Sound(th[Main]) /\ sends' \in 0 .. MaxSends /\ life \in {"running", "exited", "panicked"}
  BY <1>1, ThreadFacts DEF SignalInv, StoppedStays, TypeOK
<1>3. pc \in {Ordinary} \cup ActionNums
  BY <1>2 DEF Sound, ThreadState
<1>4. Default \in SignalAction
  BY DEF Default, SignalAction, Signals, MAX_SIG
<1>5. DefaultTable \in [ActionNums -> SignalAction]
  BY <1>4 DEF DefaultTable
<1>6. Becomes(S) /\ life' = life
  BY DEF Fork, Becomes
<1> HIDE DEF pc
<1>7. Fresh(x, "user", pc)
  <2>1. "user" \in Modes
    BY DEF Modes
  <2> QED BY <1>3, <2>1, NewThreadFacts
<1> HIDE DEF x
<1>8. Sound(x) /\ Steady(x)
  BY <1>7 DEF Fresh, Sound, Steady
<1>9. Good(WithThread(Main, x)) /\ \A v \in Thread : Settled(WithThread(Main, x), v)
  BY <1>1, <1>8, WithThreadFacts
<1>10. S \in SignalState /\ S.th = WithThread(Main, x).th /\ S.pending = WithThread(Main, x).pending
  BY <1>5, <1>9 DEF Good, WithThread, SignalState
<1>11. Good(S) /\ \A v \in Thread : Settled(S, v)
  BY <1>9, <1>10 DEF Good, ContextKept, KillMarked, Handling, Settled
<1> HIDE DEF S
<1> QED BY <1>2, <1>6, <1>11, BecomesInv

\* The invariant is inductive.
LEMMA NextInv == SignalInv /\ [Next]_vars => SignalInv'
<1> SUFFICES ASSUME SignalInv, [Next]_vars PROVE SignalInv'
  OBVIOUS
<1>1. CASE UNCHANGED vars
  BY <1>1 DEF vars, SignalInv, StoppedStays, TypeOK, InterruptedContextKept, KillMarked, Handling, Now
<1>2. CASE SendStep
  BY <1>2, KillByOtherInv, KillInv, TkillInv DEF SendStep
<1>3. ASSUME UNCHANGED sends, NEW t \in Thread, Step(t) PROVE SignalInv'
  BY <1>3, TimerInv, StoppedTurnInv, SigreturnInv, FaultInv, SigprocmaskInv, SigactionInv, CloneInv,
     SigtimedwaitInv, SigtimedwaitTurnInv, BlockingCallInv, CallReturnsInv DEF Step
<1> QED BY <1>1, <1>2, <1>3, ForkInv, ExecInv DEF Next

\* A frozen thread runs no user code (the loop of handle_signals), also when
\* SIGKILL ends the loop, unless it was delivered a signal without a handler: for
\* any threads, signals and signal actions.
THEOREM ThreadsStayStopped == Spec => []StoppedStays
<1>1. Spec => []SignalInv
  BY InitInv, NextInv, PTL DEF Spec
<1>2. SignalInv => StoppedStays
  BY DEF SignalInv
<1> QED BY <1>1, <1>2, PTL

\* sigreturn resumes the code that the first handler interrupted, for any
\* threads, signals and signal actions.
THEOREM ContextsKept == Spec => []InterruptedContextKept
<1>1. Spec => []SignalInv
  BY InitInv, NextInv, PTL DEF Spec
<1>2. SignalInv => InterruptedContextKept
  BY DEF SignalInv
<1> QED BY <1>1, <1>2, PTL
=============================================================================
