------------------------------ MODULE MCSignal ------------------------------
(* Two threads; SIGKILL, SIGUSR2, SIGCONT and SIGSTOP are sent, and signal   *)
(* 11, SIGUSR2's bit, and 33 have handlers.                                  *)
EXTENDS Signal

MCMasks == {{SIGKILL}}
MCActions == {[handler |-> TRUE, mask |-> {11}]}
MCFaults == {SIGSEGV}
=============================================================================
