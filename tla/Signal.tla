------------------------------- MODULE Signal -------------------------------
(***************************************************************************)
(* Signals of one process: kernel/src/task/{mod, signal}.rs, the system    *)
(* calls of kernel/src/syscall/signal.rs and the end of trap_handler.      *)
(*                                                                         *)
(* A signal is its bit in SignalFlags, one less than its number.  A trap   *)
(* runs to the return to user mode in one action, unless the thread is     *)
(* frozen and suspends in handle_signals, waits in sigtimedwait, or is in a *)
(* call that blocks or loops: futex_wait, wait4, a pipe read or write, ppoll. *)
(***************************************************************************)
EXTENDS Integers, FiniteSetsExt

CONSTANTS
  Thread, Main,       \* threads, the main one
  KillNums,           \* signal numbers sent with kill
  ActionNums,         \* signal numbers given to sigaction
  Actions,            \* and the actions given with them
  Faults,             \* signals of the exceptions that user code raises
  Masks,              \* signal sets given to sigprocmask and sigtimedwait
  MaxSends,           \* bound on the signals sent by kill and tkill
  None

SIGILL == 3
SIGKILL == 8
SIGSEGV == 10
SIGCONT == 17
SIGSTOP == 18
SIGCANCEL == 32
MAX_SIG == 63
KernelSignals == {SIGKILL, SIGSTOP, SIGCONT}
\* 1 << (signum - 1): the subtraction wraps and the shift takes its amount mod 64.
Bit(signum) == (signum + 63) % 64
\* check_error: SIGINT, SIGILL, SIGABRT, SIGFPE, SIGKILL, SIGSEGV.
Fatal == {1, 3, 5, 7, 8, 10}
NotHandling == -1
Ordinary == -1       \* the pc of code outside handlers

ASSUME SignalConstants ==
  /\ Main \in Thread
  /\ KillNums \subseteq 0 .. MAX_SIG + 1 /\ ActionNums \subseteq 0 .. MAX_SIG
  /\ Faults \subseteq {SIGSEGV, SIGILL}
  /\ \A m \in Masks : m \subseteq 0 .. MAX_SIG
  /\ Actions \subseteq [handler : BOOLEAN, mask : SUBSET (0 .. MAX_SIG)]
  /\ MaxSends \in Nat /\ None \notin 0 .. MAX_SIG

VARIABLES
  pending,            \* PCB.signals_pending
  mask,               \* PCB.signal_mask
  table,              \* PCB.signal_actions.table, at the ActionNums
  th,                 \* per thread: the signal fields of its TCB, its user
                      \* context and where it is
  sends,              \* how many signals kill and tkill sent
  life                \* "running", "exited" or, after an unwrap of None, "panicked"

vars == <<pending, mask, table, th, sends, life>>

\* SignalAction::default: the mask is from_bits(40), SIGILL and SIGABRT.
Default == [handler |-> FALSE, mask |-> {3, 5}]
DefaultTable == [i \in ActionNums |-> Default]

\* TaskControlBlock::new.  pc is Ordinary or the index of the handler that runs;
\* lost and unhandled are history: a context that a signal interrupted has no
\* copy left; a signal without a handler was delivered to the thread.
NewThread(mode, pc) ==
  [mode |-> mode, pending |-> {}, handling |-> NotHandling, backup |-> None,
   frozen |-> FALSE, killed |-> FALSE, pc |-> pc, wait |-> {}, lost |-> pc # Ordinary,
   unhandled |-> FALSE]

Init ==
  /\ pending = {} /\ mask = {} /\ table = DefaultTable /\ sends = 0 /\ life = "running"
  /\ th = [t \in Thread |-> NewThread(IF t = Main THEN "user" ELSE "free", Ordinary)]

-----------------------------------------------------------------------------
(* Delivery maps the signal state S of the process, as seen by thread t.    *)

Now == [pending |-> pending, mask |-> mask, table |-> table, th |-> th]
Action(S, i) == IF i \in ActionNums THEN S.table[i] ELSE Default
Handling(S, t) == S.th[t].handling # NotHandling
Deliverable(S, t, s) ==
  s \notin S.mask /\ ~(Handling(S, t) /\ s \in Action(S, S.th[t].handling).mask)

\* Mutant: the context is saved after it was modified.
CallThenSave(S, t, i, s, thread) ==
  IF ~Action(S, i).handler
  THEN [S EXCEPT !.th[t] = [S.th[t] EXCEPT !.killed = TRUE, !.unhandled = TRUE]]
  ELSE [S EXCEPT !.pending = IF thread THEN @ ELSE @ \ {s},
                 !.mask = Action(S, i).mask,
                 !.th[t] = [S.th[t] EXCEPT !.pending = IF thread THEN @ \ {s} ELSE @, !.handling = i,
                                     !.backup = i, !.pc = i,
                                     !.lost = @ \/ S.th[t].pc # Ordinary]]
\* call_user_signal_handler(i, s, thread).  Without a handler the thread is
\* marked killed, for good, and the signal stays pending.
CallUserHandler(S, t, i, s, thread) ==
  IF ~Action(S, i).handler
  THEN [S EXCEPT !.th[t] = [S.th[t] EXCEPT !.killed = TRUE, !.unhandled = TRUE]]
  ELSE [S EXCEPT
          !.pending = IF thread THEN @ ELSE @ \ {s},
          !.mask = Action(S, i).mask,
          !.th[t] = [S.th[t] EXCEPT !.pending = IF thread THEN @ \ {s} ELSE @,
                              !.handling = i,
                              !.backup = S.th[t].pc,
                              !.pc = i,
                              !.lost = @ \/ S.th[t].pc # Ordinary]]

\* check_pending_signals, the block for the thread's own signal.
CheckCancel(S, t) ==
  IF SIGCANCEL \in S.th[t].pending /\ Deliverable(S, t, SIGCANCEL)
  THEN CallUserHandler(S, t, 33, SIGCANCEL, TRUE) ELSE S

\* Mutant: SIGKILL does not set killed.
KillIgnored(S, t, sigs) ==
  [S EXCEPT !.pending = @ \ (sigs \cap {SIGSTOP, SIGCONT}),
            !.th[t].frozen = SIGSTOP \in sigs \/ (@ /\ SIGCONT \notin sigs)]
\* call_kernel_signal_handler for each of sigs, in the order of their bits.
CallKernelHandler(S, t, sigs) ==
  [S EXCEPT !.pending = @ \ (sigs \cap {SIGSTOP, SIGCONT}),
            !.th[t] = [S.th[t] EXCEPT
                         !.killed = @ \/ SIGKILL \in sigs,
                         !.frozen = SIGSTOP \in sigs \/ (@ /\ SIGCONT \notin sigs)]]

\* check_pending_signals: kernel signals are handled on the way to the first
\* other signal, which ends the loop.
CheckPending(S0, t) ==
  LET S == CheckCancel(S0, t)
      found == {s \in S.pending : Deliverable(S, t, s)}
      user == found \ KernelSignals
      R == CallKernelHandler(S, t, {s \in found \cap KernelSignals : \A u \in user : s < u})
  IN IF user = {} THEN R ELSE CallUserHandler(R, t, Min(user), Min(user), FALSE)

\* handle_signals goes on looping.
Stopped(S, t) == S.th[t].frozen /\ ~S.th[t].killed

Becomes(S) == pending' = S.pending /\ mask' = S.mask /\ table' = S.table /\ th' = S.th

\* The exit of the main thread ends the process, of another one that thread.
Dead(S, t) ==
  [S EXCEPT !.th = [u \in Thread |-> IF u = t \/ t = Main THEN NewThread("dead", Ordinary)
                                                          ELSE @[u]]]
\* check_signals_of_current_process, then trap_return.
Finish(S, t) ==
  IF S.pending \cap Fatal = {}
  THEN Becomes([S EXCEPT !.th[t].mode = "user"]) /\ UNCHANGED life
  ELSE Becomes(Dead(S, t)) /\ life' = IF t = Main THEN "exited" ELSE life

\* Mutant: no loop while the thread is frozen.
HandleSignalsOnce(S0, t) == Finish(CheckPending(S0, t), t)
\* handle_signals, up to its first suspend if the thread is frozen.
HandleSignals(S0, t) ==
  LET S == CheckPending(S0, t) IN
  IF Stopped(S, t)
  THEN Becomes([CheckPending(S, t) EXCEPT !.th[t].mode = "stopped"]) /\ UNCHANGED life
  ELSE Finish(S, t)

-----------------------------------------------------------------------------
InUser(t) == th[t].mode = "user" /\ life = "running"
Send == sends < MaxSends /\ sends' = sends + 1
Panic == life' = "panicked" /\ UNCHANGED <<pending, mask, table, th>>

Timer(t) == InUser(t) /\ HandleSignals(Now, t)
Fault(t, s) == InUser(t) /\ HandleSignals([Now EXCEPT !.pending = @ \cup {s}], t)

\* handle_signals, resumed after a suspend.
StoppedTurn(t) ==
  /\ th[t].mode = "stopped" /\ life = "running"
  /\ IF Stopped(Now, t) THEN Becomes(CheckPending(Now, t)) /\ UNCHANGED life
     ELSE Finish(Now, t)

Masked(how, set) ==
  CASE how = "SIG_BLOCK" -> mask \cup set
    [] how = "SIG_UNBLOCK" -> mask \ set
    [] how = "SIG_SETMASK" -> set
Sigprocmask(t, how, set) ==
  InUser(t) /\ HandleSignals([Now EXCEPT !.mask = Masked(how, set)], t)

\* Delivery looks the action up under the signal's bit, not under signum.
Sigaction(t, signum, act) ==
  /\ InUser(t) /\ Bit(signum) \notin {SIGKILL, SIGSTOP}
  /\ HandleSignals([Now EXCEPT !.table[signum] = act], t)

\* sigreturn, called by the code a handler returns to.
Sigreturn(t) ==
  /\ InUser(t) /\ th[t].pc # Ordinary
  /\ IF th[t].backup = None
     THEN Panic
     ELSE HandleSignals([Now EXCEPT !.th[t] = [th[t] EXCEPT !.handling = NotHandling,
                                                            !.pc = th[t].backup]], t)

\* kill, by another process or by a thread of this one.
KillByOther(signum) ==
  /\ life = "running" /\ Send
  /\ pending' = pending \cup {Bit(signum)}
  /\ UNCHANGED <<mask, table, th, life>>
Kill(t, signum) ==
  /\ InUser(t) /\ Send
  /\ HandleSignals([Now EXCEPT !.pending = @ \cup {Bit(signum)}], t)

\* tkill of thread u; a thread's signals other than SIGCANCEL are never read.
\* get_task panics for a tid without a TCB; the TCB of a thread that exited
\* stays until waittid takes it.
Tkill(t, u) ==
  /\ InUser(t) /\ Send
  /\ \/ th[u].mode \in {"free", "dead"} /\ Panic
     \/ th[u].mode # "free" /\ HandleSignals([Now EXCEPT !.th[u].pending = @ \cup {SIGCANCEL}], t)

\* sigtimedwait leaves what it finds pending, and suspends between its looks.
Sigtimedwait(t, set) ==
  /\ InUser(t)
  /\ IF set \cap pending # {} THEN HandleSignals(Now, t)
     ELSE Becomes([Now EXCEPT !.th[t] = [th[t] EXCEPT !.mode = "wait", !.wait = set]]) /\ UNCHANGED life
SigtimedwaitTurn(t, timeout) ==
  /\ th[t].mode = "wait" /\ life = "running"
  /\ timeout \/ th[t].wait \cap pending # {}
  /\ HandleSignals([Now EXCEPT !.th[t].wait = {}], t)

\* A call that blocks, or loops with suspends, until something other than a
\* signal happens; then it returns through handle_signals.
BlockingCall(t) ==
  /\ InUser(t)
  /\ Becomes([Now EXCEPT !.th[t].mode = "call"]) /\ UNCHANGED life
CallReturns(t) == th[t].mode = "call" /\ life = "running" /\ HandleSignals(Now, t)

\* clone of a thread, from code that no handler runs.
Clone(t, u) ==
  /\ InUser(t) /\ th[t].pc = Ordinary /\ th[u].mode = "free"
  /\ HandleSignals([Now EXCEPT !.th[u] = NewThread("user", Ordinary)], t)

OneThread == \A t \in Thread \ {Main} : th[t].mode = "free"
\* fork, after which the model follows the child: it inherits the pending
\* signals and the user context, and nothing else.
Fork ==
  /\ InUser(Main) /\ OneThread
  /\ mask' = {} /\ table' = DefaultTable
  /\ th' = [th EXCEPT ![Main] = NewThread("user", th[Main].pc)]
  /\ UNCHANGED <<pending, life>>
\* exec replaces the user context and nothing else of what signals use.
Exec == InUser(Main) /\ OneThread /\ HandleSignals([Now EXCEPT !.th[Main].pc = Ordinary], Main)

SendStep ==
  \/ \E signum \in KillNums : KillByOther(signum) \/ \E t \in Thread : Kill(t, signum)
  \/ \E t, u \in Thread : Tkill(t, u)
Step(t) ==
  \/ Timer(t) \/ StoppedTurn(t) \/ Sigreturn(t) \/ BlockingCall(t) \/ CallReturns(t)
  \/ \E s \in Faults : Fault(t, s)
  \/ \E how \in {"SIG_BLOCK", "SIG_UNBLOCK", "SIG_SETMASK"}, set \in Masks : Sigprocmask(t, how, set)
  \/ \E signum \in ActionNums, act \in Actions : Sigaction(t, signum, act)
  \/ \E u \in Thread : Clone(t, u)
  \/ \E set \in Masks : Sigtimedwait(t, set)
  \/ \E timeout \in BOOLEAN : SigtimedwaitTurn(t, timeout)
Next == SendStep \/ (UNCHANGED sends /\ (Fork \/ Exec \/ \E t \in Thread : Step(t)))

\* The timer interrupts every thread in user mode, suspended threads are ready
\* and get turns, and the time limit of a wait passes.  Nothing makes a blocking
\* call return.
Fairness == \A t \in Thread :
  WF_vars(UNCHANGED sends /\ (Timer(t) \/ StoppedTurn(t) \/ SigtimedwaitTurn(t, TRUE)))
Spec == Init /\ [][Next]_vars /\ Fairness

-----------------------------------------------------------------------------
Signals == 0 .. MAX_SIG
SignalAction == [handler : BOOLEAN, mask : SUBSET Signals]
ThreadState ==
  [mode : {"free", "user", "stopped", "wait", "call", "dead"}, pending : SUBSET {SIGCANCEL},
   handling : {NotHandling} \cup ActionNums, backup : {None, Ordinary} \cup ActionNums,
   frozen : BOOLEAN, killed : BOOLEAN, pc : {Ordinary} \cup ActionNums,
   wait : SUBSET Signals, lost : BOOLEAN, unhandled : BOOLEAN]

\* Every signal set is a set of bits of the word, every handler that runs has
\* an entry in signal_actions, and a thread waits for signals only inside
\* sigtimedwait.
TypeOK ==
  /\ pending \subseteq Signals /\ mask \subseteq Signals
  /\ table \in [ActionNums -> SignalAction]
  /\ sends \in 0 .. MaxSends /\ life \in {"running", "exited", "panicked"}
  /\ th \in [Thread -> ThreadState]
  /\ \A t \in Thread : th[t].wait # {} => th[t].mode = "wait"

\* The state has its types, and a frozen thread runs no user code, whatever it
\* was doing when SIGSTOP came and whatever SIGCONT or SIGKILL its siblings take
\* in between: the loop of handle_signals ends for SIGCONT, or for SIGKILL, which
\* check_error then acts on.  The exception is a thread that once was delivered a
\* signal without a handler: killed stays set, and if the signal is none of
\* check_error's the thread lives on and SIGSTOP does not stop it any more.
StoppedStays ==
  TypeOK /\ \A t \in Thread : th[t].mode = "user" /\ th[t].frozen => th[t].unhandled

\* While a handler runs that interrupted ordinary code, trap_ctx_backup holds
\* that code's context, so that sigreturn resumes it: whatever other signals,
\* threads and system calls do meanwhile, unless a second signal interrupts the
\* handler itself (or the handler forks), when the only copy is gone.
InterruptedContextKept == \A t \in Thread :
  th[t].pc # Ordinary /\ ~th[t].lost => th[t].backup = Ordinary /\ Handling(Now, t)

NeverBlocksKill == SIGKILL \notin mask /\ \A i \in ActionNums : SIGKILL \notin table[i].mask
\* If the program never blocks SIGKILL and the blocking calls of its main thread
\* return, a process it is sent to exits, also when its threads are frozen, wait
\* for signals, run handlers or are blocked for ever themselves: the killed flag
\* ends the loop of handle_signals and check_error sees the pending bit.  kill
\* wakes nobody: a main thread that stays in futex_wait or wait4 does not die.
KillKills ==
  []NeverBlocksKill /\ []<>(th[Main].mode # "call")
  => (SIGKILL \in pending /\ life = "running" ~> life # "running")
=============================================================================
