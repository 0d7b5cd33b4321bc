----------------------------- MODULE MCFdTable ------------------------------
(* FdTable with three standard descriptors and fds of two bits.             *)
EXTENDS FdTable

CONSTANT f
MCStdio == <<f, f, f>>
=============================================================================
