----------------------------- MODULE BlockStore -----------------------------
(***************************************************************************)
(* What the block cache promises the FAT: blocks of entries that keep what *)
(* was last stored in them.  One request is served at a time, and the      *)
(* answer to a read is the entry as it is when the request is served.      *)
(***************************************************************************)
CONSTANTS Block, Offset, Value, None

VARIABLES
  content,    \* the entries of every block
  request,    \* the request being served, or None
  ret         \* the answer to the last request, None unless it was a read

vars == <<content, request, ret>>

Requests == [op : {"read"}, block : Block, offset : Offset, value : {None}]
              \cup [op : {"modify"}, block : Block, offset : Offset, value : Value]

Init ==
  /\ content \in [Block -> [Offset -> Value]]
  /\ request = None /\ ret = None

Ask ==
  /\ request = None
  /\ request' \in Requests
  /\ ret' = None
  /\ UNCHANGED content

Read ==
  /\ request # None /\ request.op = "read"
  /\ ret' = content[request.block][request.offset]
  /\ request' = None
  /\ UNCHANGED content

Modify ==
  /\ request # None /\ request.op = "modify"
  /\ content' = [content EXCEPT ![request.block][request.offset] = request.value]
  /\ request' = None /\ ret' = None

Next == Ask \/ Read \/ Modify

Spec == Init /\ [][Next]_vars
=============================================================================
