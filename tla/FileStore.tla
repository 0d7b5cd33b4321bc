----------------------------- MODULE FileStore -----------------------------
(* What the file system promises of the contents of files: every file is an *)
(* array of sectors.  Once an allocation fell short or gave a cluster twice  *)
(* (intact is FALSE) it promises nothing.                                   *)
EXTENDS Naturals

CONSTANTS File, Data, Lens, MaxSize

VARIABLES content, exists, intact

vars == <<content, exists, intact>>

Init == intact = TRUE

Sized(c, n) == DOMAIN c = 0 .. n - 1

(* Sectors off .. off + n - 1 hold v; the sectors between the old end and    *)
(* the write may hold anything.                                             *)
Written(old, new, off, n, v) ==
    /\ Sized(new, off + n) \/ (off + n - 1 \in DOMAIN old /\ DOMAIN new = DOMAIN old)
    /\ \A s \in DOMAIN new :
          IF off <= s /\ s < off + n THEN new[s] = v
          ELSE s \in DOMAIN old => new[s] = old[s]
    /\ DOMAIN old \subseteq DOMAIN new

(* A larger file is filled up with zeroes. *)
Truncated(old, new, n) ==
    new = [s \in 0 .. n - 1 |-> IF s \in DOMAIN old THEN old[s] ELSE 0]

Change(f, old, new) ==
    \/ f \notin exists /\ exists' = exists \cup {f} /\ Sized(new, 0)
    \/ f \in exists /\ exists' = exists \ {f} /\ Sized(new, 0)
    \/ /\ f \in exists /\ UNCHANGED exists
       /\ \/ \E n \in 0 .. MaxSize : Truncated(old, new, n)
          \/ \E off \in 0 .. MaxSize - 1, n \in Lens, v \in Data : Written(old, new, off, n, v)

Next ==
    \/ ~intact'
    \/ /\ UNCHANGED intact
       /\ \E f \in File :
             /\ \A g \in File \ {f} : content'[g] = content[g]
             /\ Change(f, content[f], content'[f])

Spec == Init /\ [][Next]_vars
=============================================================================
