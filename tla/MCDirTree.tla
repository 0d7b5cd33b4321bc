----------------------------- MODULE MCDirTree -----------------------------
(* DirTree for model checking. *)
EXTENDS DirTree, TLC

CONSTANTS a, b, n1, n2, n3

Abs(comps) == [abs |-> TRUE, comps |-> comps]
Rel(comps) == [abs |-> FALSE, comps |-> comps]

MCPaths == {Abs(<<>>), Abs(<<a, b>>), Abs(<<Up, a>>), Rel(<<b>>), Rel(<<Up>>)}

MCRenamePaths == {<<>>, <<a>>, <<b>>, <<Up, b>>}

MCFlagSets == {{"creat"}, {"creat", "excl", "directory"}, {"trunc", "write"}}

Image(k, e, ch) ==
    [kind |-> Root :> "dir" @@ k @@ [n \in Node |-> "free"],
     entry |-> e @@ [n \in Node |-> <<>>],
     children |-> ch @@ [n \in Node |-> NotCached],
     dev |-> [n \in Node |-> IF k[n1] = "dir" /\ n = n2 /\ k[n2] = "dev" THEN n1 ELSE None],
     name |-> [n \in Node |-> IF n = n1 THEN a ELSE IF n = n2 THEN b ELSE Up]]

(* A directory with a file, which is not read yet, and one with a device. *)
MCImages ==
    {Image(n1 :> "dir" @@ n2 :> "file", n1 :> <<Root, a>> @@ n2 :> <<n1, b>>, <<>>),
     Image(n1 :> "dir" @@ n2 :> "dev", n1 :> <<Root, a>>,
           Root :> (a :> n1) @@ n1 :> (b :> n2))}

(* A call that stops the kernel and did no damage changes nothing else, so  *)
(* one state for each way to stop is enough.                                *)
View == IF halt = "no" \/ damage THEN vars ELSE <<halt>>
=============================================================================
