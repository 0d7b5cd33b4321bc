----------------------------- MODULE MCFatFile -----------------------------
(* FatFile for model checking. *)
EXTENDS FatFile, TLC

CONSTANTS f1, f2

(* An empty volume, and one with a file of two clusters. *)
MCImages ==
    {[f \in File |-> <<>>]} \cup
    {[f \in File |-> IF f = g THEN <<2, 3>> ELSE <<>>] : g \in File}

MCLimit == f1 :> 3 @@ f2 :> 1

(* Once an allocation went wrong the contents of files are promised to      *)
(* nobody, and no later change of the table, of a list or of a size reads   *)
(* them: only those are told apart.                                         *)
View ==
    <<fat, vacant_clus, hint, lost,
      [f \in File |-> <<inode[f].state, inode[f].open, inode[f].size, inode[f].clus_list>>],
      IF lost = "no" THEN <<device, [f \in File |-> inode[f].cache]>> ELSE <<>> >>

=============================================================================
