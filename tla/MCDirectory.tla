---------------------------- MODULE MCDirectory ----------------------------
(* Directory for model checking. *)
EXTENDS Directory, TLC

CONSTANTS dot, a, b, c, d

MCLongs == dot :> 0 @@ a :> 1 @@ b :> 1 @@ c :> 2 @@ d :> 0

Fill(s) == s \o [i \in 1 .. SizeFor(Len(s)) - Len(s) |-> LastEnt]

(* A new cluster holds zeroes or entries of a directory that is gone. *)
MCOldEnts == {LastEnt, Short(dot), Short(b), Long(c, 1)}

(* An empty root, a directory with its own entry and old data behind the    *)
(* end (fill_empty_dir), and one another system wrote, with a gap.          *)
MCImages ==
    {Fill(<<>>), Fill(<<Short(d), UnusedEnt>> \o Group(a))} \cup
    {<<Short(dot), LastEnt, e>> : e \in {LastEnt, Short(a), Long(a, 1)}}
=============================================================================
