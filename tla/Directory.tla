----------------------------- MODULE Directory -----------------------------
(* The file of a FAT32 directory: its entries, the iterators over them      *)
(* (fs/fat32/dir_iter.rs) and the creation, deletion and listing of names   *)
(* (fs/fat32/vfs.rs, fs/fat32/inode.rs).                                    *)
(*                                                                          *)
(* Offsets count entries.  A name is stored as its long entries, the last   *)
(* part of the name first, and then its short entry.  Every call holds the  *)
(* lock of the Inode from its first to its last access and is one step.     *)
(* Two things that befall the file of a directory are no steps here: an     *)
(* open with O_TRUNC cuts it to nothing and leaves the hint (DirTree has    *)
(* that call), and on a full volume it grows without a cluster (as any file *)
(* does, see FatFile).                                                      *)
EXTENDS Integers, Sequences, FiniteSets, FiniteSetsExt, SequencesExt

CONSTANTS
    Name,      \* names of files
    Dots,      \* "." and "..", which have no Inode of their own
    Longs,     \* the number of long entries of a name
    CLUS_SIZE, \* entries of a cluster
    MaxEnts,   \* bound on the size of the directory
    Counts,    \* how many names a program asks for at a time
    Images,    \* what a directory file holds when it is found on the volume
    OldEnts,   \* what the entries of a cluster may hold when it is added
    Other      \* a name that is read where no name was written

ASSUME DirAssumption ==
    /\ Longs \in [Name -> Nat] /\ CLUS_SIZE \in Nat \ {0} /\ MaxEnts \in Nat
    /\ Counts \subseteq Nat \ {0} /\ Other \notin Name /\ Dots \subseteq Name

VARIABLES
    ents,    \* the entries of the file, as many as its clusters hold
    hint,    \* where new entries go: the end of the used entries
    offset,  \* parent_dir of the Inodes of the files: their short entries
    scan,    \* a descriptor that lists the directory
    halt     \* "no", or where the kernel panicked

vars == <<ents, hint, offset, scan, halt>>

LastEnt == [kind |-> "last"]
UnusedEnt == [kind |-> "unused"]
Long(n, ord) == [kind |-> "long", name |-> n, ord |-> ord]
Short(n) == [kind |-> "short", name |-> n]

Ent == {LastEnt, UnusedEnt} \cup {Short(n) : n \in Name}
       \cup UNION {{Long(n, ord) : ord \in 1 .. Longs[n]} : n \in Name}

Unused(e) == e.kind \in {"last", "unused"}
Used(e) == ~Unused(e)
IsLong(e) == e.kind = "long"
IsLastLong(e) == IsLong(e) /\ e.ord = Longs[e.name]

CeilDiv(a, b) == (a + b - 1) \div b
MaxOf(a, b) == IF a > b THEN a ELSE b

(* shrink_dir_size, and the clusters expand_dir_size adds one by one. *)
SizeFor(n) == MaxOf(CeilDiv(n, CLUS_SIZE) * CLUS_SIZE, CLUS_SIZE)

(* gen_dir_ent: the entries of a name, in the order of the file. *)
Group(n) == [i \in 1 .. Longs[n] |-> Long(n, Longs[n] + 1 - i)] \o <<Short(n)>>

(* Iteration.  The iterators but for Enum stop at the last-and-unused entry. *)

EndFrom(e, i) ==
    LET ends == {k \in i .. Len(e) - 1 : e[k + 1] = LastEnt}
    IN  IF ends = {} THEN Len(e) ELSE Min(ends)

(* The long entries of a name count down from the one flagged as last. *)
Ordered(part) ==
    \A m \in DOMAIN part :
        IsLong(part[m]) /\ ~IsLastLong(part[m]) =>
            m > 1 /\ part[m - 1].ord = part[m].ord + 1

NameOf(part) ==
    LET n == Last(part).name
    IN  IF part = Group(n) THEN n ELSE Other

(* DirWalker::next from offset i: the used entries up to a short one.  Long *)
(* entries out of order reach unreachable!().                               *)
WalkNext(e, i) ==
    LET stop == EndFrom(e, i)
        shorts == {k \in i .. stop - 1 : e[k + 1].kind = "short"}
        at == IF shorts = {} THEN stop - 1 ELSE Min(shorts)
        part == SelectSeq(SubSeq(e, i + 1, at + 1), Used)
    IN  [panic |-> ~Ordered(part), found |-> shorts # {}, at |-> at,
         name |-> IF shorts = {} THEN Other ELSE NameOf(part)]

(* What ls_lock, find_local_lock and get_all_files_lock go through: names   *)
(* and the offsets of their short entries.                                  *)
Walk(e) ==
    LET from[i \in 0 .. Len(e)] ==
            LET w == WalkNext(e, i)
            IN  IF w.panic \/ ~w.found THEN <<>>
                ELSE <<[name |-> w.name, at |-> w.at]>> \o from[w.at + 1]
    IN  from[0]

(* set_hint: the first last-and-unused entry, or the end of the file. *)
SetHint(e) == EndFrom(e, 0)

(* Creation *)

AllocUnterminated(e, at, num, old) ==
    [k \in 1 .. MaxOf(Len(e), SizeFor(at + num)) |-> IF k <= Len(e) THEN e[k] ELSE old]

(* alloc_dir_ent: the file grows by clusters until num entries follow the   *)
(* hint, and the entry behind them ends it.  A cluster that is added is not *)
(* cleared: it holds `old`.                                                 *)
AllocDirEnt(e, at, num, old) ==
    [k \in 1 .. MaxOf(Len(e), SizeFor(at + num)) |->
        IF k = at + num + 1 THEN LastEnt
        ELSE IF k <= Len(e) THEN e[k] ELSE old]

(* create_dir_ent *)
CreateDirEnt(e, at, n, old) ==
    LET num == Longs[n] + 1
        group == Group(n)
        alloc == AllocDirEnt(e, at, num, old)
    IN  [k \in DOMAIN alloc |->
            IF at < k /\ k <= at + num THEN group[k - at] ELSE alloc[k]]

(* Deletion *)

(* The used entry before offset i, going backward, or -1. *)
UsedBefore(e, i) == Max({-1} \cup {k \in 0 .. i - 1 : Used(e[k + 1])})

(* The long entries before the short one at offset i, or {} for none. *)
LongsBefore(e, i) ==
    LET k == UsedBefore(e, i)
    IN  IF k = -1 \/ ~IsLong(e[k + 1]) THEN {}
        ELSE LET first == Max({-1} \cup {m \in 0 .. k : IsLastLong(e[m + 1])})
             IN  {m \in first .. k : m = -1 \/ Used(e[m + 1])}

(* Going backward from the hint, unused entries become last-and-unused. *)
NewHint(e, at) == UsedBefore(e, at) + 1

Erase(e, offs, ent) == [k \in DOMAIN e |-> IF k - 1 \in offs THEN ent ELSE e[k]]

DeleteKeepsHint(n) ==
    LET at == offset[n]
        longs == LongsBefore(ents, at)
        erased == Erase(ents, longs \cup {at}, UnusedEnt)
        h == NewHint(erased, hint)
    IN  /\ ents' = SubSeq(Erase(erased, h .. hint - 1, LastEnt), 1, SizeFor(hint))
        /\ UNCHANGED <<hint, halt>>

(* delete_dir_ent.  A name without long entries is only marked; otherwise   *)
(* the hint moves back and shrink_dir_size cuts the file behind it.         *)
DeleteDirEnt(n) ==
    LET at == offset[n]
        longs == LongsBefore(ents, at)
        erased == Erase(ents, longs \cup {at}, UnusedEnt)
        h == NewHint(erased, hint)
    IN  IF longs = {}
        THEN /\ ents' = Erase(ents, {at}, UnusedEnt)
             /\ UNCHANGED <<hint, halt>>
        ELSE IF \E m \in longs : m = -1 \/ ~IsLong(ents[m + 1])
        THEN halt' = "delete" /\ UNCHANGED <<ents, hint>>
        ELSE /\ ents' = SubSeq(Erase(erased, h .. hint - 1, LastEnt), 1, SizeFor(h))
             /\ hint' = h
             /\ UNCHANGED halt

(* Listing *)

NextDirentSame(at) == at
NextDirentSkips(at) == at + 2

(* The offset a listing goes on at, behind a short entry at `at`. *)
NextDirentOffset(at) == at + 1

(* dirent_info_lock: up to `count` names from offset i, and the offset      *)
(* behind the last of them.  It looks one name ahead.                       *)
DirentInfo(e, i, count) ==
    LET from[c \in 0 .. count, k \in 0 .. Len(e)] ==
            LET w == WalkNext(e, k)
                ahead == WalkNext(e, w.at + 1)
                rest == from[c - 1, w.at + 1]
            IN  IF w.panic THEN [panic |-> TRUE, names |-> <<>>, next |-> k]
                ELSE IF ~w.found \/ c = 0
                THEN [panic |-> FALSE, names |-> <<>>, next |-> NextDirentOffset(k - 1)]
                ELSE IF ahead.panic \/ ahead.found
                THEN [rest EXCEPT !.names = <<w.name>> \o @]
                ELSE [panic |-> FALSE, names |-> <<w.name>>, next |-> Len(e)]
    IN  IF i > Len(e) THEN [panic |-> FALSE, names |-> <<>>, next |-> i]
        ELSE from[count, i]

NewScan == [off |-> 0, seen |-> {}, stay |-> DOMAIN offset, twice |-> FALSE,
            ended |-> FALSE, cut |-> FALSE]

Offsets(e) ==
    LET w == Walk(e)
    IN  [n \in {w[i].name : i \in DOMAIN w} |->
            w[CHOOSE i \in DOMAIN w : w[i].name = n].at]

Init ==
    /\ ents \in Images /\ hint = SetHint(ents)
    /\ offset = Offsets(ents)
    /\ scan = NewScan
    /\ halt = "no"

(* create_lock, or link_par_lock: the tree has made sure the name is new. *)
Create(n) ==
    /\ n \notin DOMAIN offset /\ Longs[n] > 0
    /\ SizeFor(hint + Longs[n] + 1) <= MaxEnts
    /\ \E old \in OldEnts : ents' = CreateDirEnt(ents, hint, n, old)
    /\ hint' = hint + Longs[n] + 1
    /\ offset' = [m \in DOMAIN offset \cup {n} |->
                     IF m = n THEN hint + Longs[n] ELSE offset[m]]
    /\ UNCHANGED <<scan, halt>>

(* unlink_lock *)
Unlink(n) ==
    /\ n \in DOMAIN offset \ Dots
    /\ DeleteDirEnt(n)
    /\ offset' = [m \in DOMAIN offset \ {n} |-> offset[m]]
    /\ scan' = [scan EXCEPT !.stay = @ \ {n}, !.cut = @ \/ hint' < scan.off]

(* A directory is opened, or its descriptor rewound. *)
OpenScan ==
    /\ scan' = NewScan
    /\ UNCHANGED <<ents, hint, offset, halt>>

(* get_dirent *)
GetDirent(count) ==
    LET v == DirentInfo(ents, scan.off, count)
    IN  /\ ~scan.ended
        /\ IF v.panic
           THEN halt' = "walk" /\ UNCHANGED scan
           ELSE /\ UNCHANGED halt
                /\ scan' = [scan EXCEPT
                      !.off = IF v.names = <<>> THEN @ ELSE v.next,
                      !.seen = @ \cup ToSet(v.names),
                      !.ended = v.names = <<>>,
                      !.twice = @ \/ \E n \in scan.stay :
                                        \/ n \in scan.seen /\ n \in ToSet(v.names)
                                        \/ Cardinality({i \in DOMAIN v.names :
                                                           v.names[i] = n}) > 1]
        /\ UNCHANGED <<ents, hint, offset>>

Next ==
    /\ halt = "no"
    /\ \/ \E n \in Name : Create(n) \/ Unlink(n)
       \/ OpenScan
       \/ \E count \in Counts : GetDirent(count)

Spec == Init /\ [][Next]_vars

(* Properties *)

TypeOK ==
    /\ ents \in Seq(Ent) /\ Len(ents) \in {k * CLUS_SIZE : k \in 1 .. MaxEnts}
    /\ hint \in 0 .. Len(ents)
    /\ DOMAIN offset \subseteq Name
    /\ scan.off \in Nat /\ scan.seen \subseteq Name \cup {Other}
    /\ scan.stay \subseteq DOMAIN offset
    /\ halt \in {"no", "walk", "delete"}

(* A walk over the entries finds the files of the directory, each once and  *)
(* under its own name, at the offset its Inode remembers, whatever old data *)
(* the clusters of the directory hold behind the hint; and delete_dir_ent,  *)
(* which walks backward, finds the long entries of a name before its short  *)
(* one and nothing else, so that unlink_lock never panics.                  *)
WalkIsExact ==
    LET w == Walk(ents)
    IN  /\ halt # "delete"
        /\ {<<w[i].name, w[i].at>> : i \in DOMAIN w} =
           {<<n, offset[n]>> : n \in DOMAIN offset}
        /\ Len(w) = Cardinality(DOMAIN offset)

(* The state has its types, and the entry at the hint ends the directory:   *)
(* no used entry lies behind the end of iteration and none between it and   *)
(* the hint, which is where alloc_dir_ent puts the next name without a look *)
(* at what is there.                                                        *)
HintEndsUsed == TypeOK /\ EndFrom(ents, 0) = hint

(* A program that lists a directory while others create and delete files    *)
(* in it gets every file that is there all the time ...                     *)
ScanComplete == scan.ended => scan.stay \subseteq scan.seen

(* ... and gets it once, unless a deletion cut the directory in front of    *)
(* the offset the listing left off at: dirent_info_lock then goes on behind *)
(* the end and reads what is left of deleted names.                         *)
ScanOnce == scan.twice => scan.cut
=============================================================================
