------------------------------- MODULE MCPipe -------------------------------
(* Two threads of the process that made the pipe, and one forked process.   *)
EXTENDS Pipe, TLC

CONSTANTS a, b, c, p, q

MCProcessOf == (a :> p) @@ (b :> p) @@ (c :> q)
\* Reads that leave a byte in a full ring and that do not, writes that do not
\* fit; the empty second entries may find the ring empty and full.
MCReadVecs == {<<1>>, <<2, 0>>}
MCWriteVecs == {<< <<0, 1, 1>> >>, << <<1>>, <<>> >>}
\* A poll for data, and a select for room.
MCWaits == {<<"poll", {"read"}>>, <<"select", {"write"}>>}
=============================================================================
