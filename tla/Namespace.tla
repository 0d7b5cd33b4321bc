----------------------------- MODULE Namespace -----------------------------
(* What a tree of names promises: every file but the root has at most one    *)
(* place, a name in a directory, and a call changes the place of one file.   *)
EXTENDS Naturals, FiniteSets

CONSTANTS Node, Root, Name

VARIABLES
    place,   \* where a file is, <<directory, name>>, or <<>>
    whole    \* FALSE once a call did damage, after which nothing is promised

vars == <<place, whole>>

Placed(n) == place[n] # <<>>

(* The files that are in d, or in a directory in d, and so on. *)
Below(d) ==
    LET under[k \in 0 .. Cardinality(Node)] ==
            IF k = 0 THEN {d}
            ELSE LET u == under[k - 1]
                 IN  u \cup {n \in Node : Placed(n) /\ place[n][1] \in u}
    IN  under[Cardinality(Node)]

(* Whatever the volume holds, every file has a place below the root. *)
Init == whole = TRUE /\ \A n \in Node : Placed(n) => n \in Below(Root) \ {Root}

Vacant(d, m) == \A n \in Node : place[n] # <<d, m>>

Create(n, d, m) ==
    /\ ~Placed(n) /\ n # Root /\ Vacant(d, m) /\ (d = Root \/ Placed(d))
    /\ place' = [place EXCEPT ![n] = <<d, m>>]

(* A directory that is removed has nothing in it. *)
Remove(n) ==
    /\ Placed(n) /\ \A m \in Node : Placed(m) => place[m][1] # n
    /\ place' = [place EXCEPT ![n] = <<>>]

(* A directory is not moved below itself. *)
Rename(n, d, m) ==
    /\ Placed(n) /\ d \notin Below(n) /\ Vacant(d, m)
    /\ place' = [place EXCEPT ![n] = <<d, m>>]

Next ==
    \/ ~whole \/ ~whole'
    \/ /\ UNCHANGED whole
       /\ \E n \in Node :
             /\ place'[n] # place[n]
             /\ IF ~Placed(n)' THEN Remove(n)
                ELSE \E d \in {place'[n][1]}, m \in {place'[n][2]} :
                        Create(n, d, m) \/ Rename(n, d, m)

Spec == Init /\ [][Next]_vars
=============================================================================
