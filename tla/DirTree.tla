------------------------------ MODULE DirTree ------------------------------
(* The directory tree (fs/directory_tree.rs): what open, mkdir, unlinkat,    *)
(* renameat2 and chdir do to the nodes in memory, to the entries on disk and *)
(* to the cache of the last path.                                           *)
(*                                                                          *)
(* A file is its node: a node that was dropped while its entry is on disk   *)
(* cannot be reached again, since its directory is not read a second time.  *)
(* A path is its components without "." and empty ones.  The kernel is not  *)
(* preempted in a call: a call is a step.                                   *)
EXTENDS Naturals, Sequences, FiniteSets, Functions, SequencesExt

CONSTANTS
    Node, Root,
    Name,       \* names of files
    Up,         \* the component ".."
    None, NotCached,
    Proc,       \* processes
    Paths,        \* the paths programs use
    RenamePaths,  \* the components of those they rename
    FlagSets,   \* the combinations of flags of open
    MaxMoves,     \* how many renames move a file
    Images        \* what the volume and the device directories hold at boot

VARIABLES
    kind,        \* "dir", "file", "dev", or "free" for no file
    children,    \* the map of a directory from names to nodes, or NotCached
    father,
    name,        \* the name a node was made with
    spe_usage,   \* how many processes have the directory as cwd
    entry,       \* <<directory, name>> of the entry on disk, or <<>>
    cwd,         \* the node of working_inode, or None when it was dropped
    path_cache,  \* PATH_CACHE
    halt,        \* why the kernel stopped, or "no"
    damage,      \* whether a call left tree and disk with different files
    moves        \* how many renames moved a file

vars == <<kind, children, father, name, spe_usage, entry, cwd, path_cache, halt, damage, moves>>

Keys == Name \cup {Up}
NoMap == [m \in {} |-> None]

IsDir(n) == kind[n] = "dir"
Free == {n \in Node : kind[n] = "free"}

(* parse_dir_path *)
ParseDirPath(path) ==
    LET v[i \in 0 .. Len(path)] ==
            IF i = 0 THEN <<>>
            ELSE LET u == v[i - 1]
                 IN  IF path[i] # Up \/ u = <<>> \/ Last(u) = Up THEN Append(u, path[i])
                     ELSE Front(u)
    IN  v[Len(path)]

(* Reading a directory.  is_empty_dir_lock and get_all_files_lock skip ".." *)
(* whatever entry has that name.                                            *)

OnDisk(d) == {n \in Node : entry[n] # <<>> /\ entry[n][1] = d /\ entry[n][2] # Up}

FromDisk(d) ==
    [m \in {entry[n][2] : n \in OnDisk(d)} |->
        CHOOSE n \in OnDisk(d) : entry[n][2] = m]

(* Looking up.  The result is a node or an error, and the children maps     *)
(* with the ones cache_all_subfile filled on the way.                       *)

Found(ch, n) == [node |-> n, err |-> "ok", ch |-> ch]
Failed(ch, err) == [node |-> None, err |-> err, ch |-> ch]

(* try_to_open_subfile *)
OpenSubfile(ch, d, m) ==
    LET filled == IF ch[d] = NotCached THEN [ch EXCEPT ![d] = FromDisk(d)] ELSE ch
    IN  IF ~IsDir(d) THEN Failed(ch, "ENOTDIR")
        ELSE IF m \in DOMAIN filled[d] THEN Found(filled, filled[d][m])
        ELSE Failed(filled, "ENOENT")

StepInto(at, m) ==
    IF at.err # "ok" THEN at
    ELSE IF m # Up THEN OpenSubfile(at.ch, at.node, m)
    ELSE IF father[at.node] = None THEN at
    ELSE Found(at.ch, father[at.node])

CdComp(ch, start, comps) ==
    LET at[i \in 0 .. Len(comps)] ==
            IF i = 0 THEN Found(ch, start) ELSE StepInto(at[i - 1], comps[i])
    IN  at[Len(comps)]

(* A mutant: directories are not counted as entries. *)
EmptyOfFiles(d) == \A n \in OnDisk(d) : kind[n] # "file"

(* is_empty_dir_lock *)
Empty(d) == OnDisk(d) = {}

(* Changes of the tree *)

Put(ch, d, m, n) == [ch EXCEPT ![d] = [k \in DOMAIN @ \cup {m} |-> IF k = m THEN n ELSE @[k]]]
Take(ch, d, m) == [ch EXCEPT ![d] = Restrict(@, DOMAIN @ \ {m})]

(* A node and the nodes that are dropped with it. *)
Subtree(ch, n) ==
    LET below[k \in 0 .. Cardinality(Node)] ==
            IF k = 0 THEN {n}
            ELSE LET u == below[k - 1]
                 IN  u \cup UNION {Range(ch[d]) : d \in {d \in u : ch[d] # NotCached}}
    IN  below[Cardinality(Node)]

(* A mutant: PATH_CACHE keeps a node that was dropped. *)
DropNodesCached(ch, gone) ==
    /\ children' = [n \in Node |-> IF n \in gone THEN NotCached ELSE ch[n]]
    /\ spe_usage' = [n \in Node |-> IF n \in gone THEN 0 ELSE spe_usage[n]]
    /\ cwd' = [p \in Proc |-> IF cwd[p] \in gone THEN None ELSE cwd[p]]
    /\ UNCHANGED path_cache

(* The nodes in `gone` are dropped: weak pointers to them fail from now on. *)
DropNodes(ch, gone) ==
    /\ children' = [n \in Node |-> IF n \in gone THEN NotCached ELSE ch[n]]
    /\ spe_usage' = [n \in Node |-> IF n \in gone THEN 0 ELSE spe_usage[n]]
    /\ cwd' = [p \in Proc |-> IF cwd[p] \in gone THEN None ELSE cwd[p]]
    /\ path_cache' = IF path_cache.node \in gone THEN [path_cache EXCEPT !.node = None]
                     ELSE path_cache

(* create and DirectoryTreeNode::new under the name m of directory d. *)
NewNode(ch, n, k, d, m) ==
    /\ children' = Put(ch, d, m, n)
    /\ kind' = [kind EXCEPT ![n] = k]
    /\ father' = [father EXCEPT ![n] = d]
    /\ name' = [name EXCEPT ![n] = m]
    /\ entry' = [entry EXCEPT ![n] = <<d, m>>]
    /\ damage' = (m = Up)

LookedUp(ch) == children' = ch /\ UNCHANGED <<kind, father, name, entry, damage>>

Halt(why) ==
    /\ halt' = why
    /\ UNCHANGED <<kind, children, father, name, spe_usage, entry, cwd, path_cache, damage, moves>>

(* A call that returns has at most filled maps. *)
Return(ch) == LookedUp(ch) /\ UNCHANGED <<spe_usage, cwd, path_cache, halt, moves>>

(* The nodes in `gone` are no files any more. *)
Forget(gone) ==
    /\ kind' = [n \in Node |-> IF n \in gone THEN "free" ELSE kind[n]]
    /\ name' = [n \in Node |-> IF n \in gone THEN Up ELSE name[n]]

Init ==
    /\ \E image \in Images :
          /\ kind = image.kind /\ entry = image.entry /\ children = image.children
          /\ father = [n \in Node |->
                IF entry[n] # <<>> THEN entry[n][1] ELSE image.dev[n]]
          /\ name = image.name
    /\ cwd = [p \in Proc |-> Root]
    /\ spe_usage = [n \in Node |-> IF n = Root THEN 2 + Cardinality(Proc) ELSE 0]
    /\ path_cache = [path |-> None, node |-> None]
    /\ halt = "no" /\ damage = FALSE /\ moves = 0

(* A program may have any directory that has a node open. *)
InTree == {Root} \cup UNION {Range(children[d]) : d \in {d \in Node : children[d] # NotCached}}
Dirs == {n \in InTree : IsDir(n)}

(* The directory and the file a path leads to; for the empty path only the  *)
(* directory.  The last component is looked up like a name, also "..".      *)
ParentOf(base, path) ==
    CdComp(children, IF path.abs THEN Root ELSE base, Front(ParseDirPath(path.comps)))

Lookup(base, path) ==
    LET comps == ParseDirPath(path.comps)
        dir == ParentOf(base, path)
    IN  IF comps = <<>> THEN Found(children, IF path.abs THEN Root ELSE base)
        ELSE IF dir.err # "ok" THEN dir
        ELSE OpenSubfile(dir.ch, dir.node, Last(comps))

(* Whether the last component is missing, and may be created. *)
Missing(base, path) ==
    /\ ParseDirPath(path.comps) # <<>>
    /\ ParentOf(base, path).err = "ok"
    /\ Lookup(base, path).err = "ENOENT"

Hit(path) == path.abs /\ path_cache.path = path.comps /\ path_cache.node # None

OpenTarget(base, path) ==
    IF Hit(path) THEN Found(children, path_cache.node) ELSE Lookup(base, path)

(* The tests behind the lookup: ETXTBSY, EISDIR and ENOTDIR. *)
Denied(k, used, flags) ==
    IF k = "dir" THEN "write" \in flags
    ELSE "directory" \in flags \/ ("write" \in flags /\ used > 0)

(* A successful open of an absolute path goes to PATH_CACHE. *)
CachePath(path, n) ==
    IF path.abs /\ path.comps # path_cache.path
    THEN path_cache' = [path |-> path.comps, node |-> n]
    ELSE UNCHANGED path_cache

(* truncate_size(0) of a directory takes its entries from the disk, those   *)
(* of "." and ".." too; the map of its node stays.                          *)
CutOff(d) == [n \in Node |-> IF entry[n] # <<>> /\ entry[n][1] = d THEN <<>> ELSE entry[n]]

(* O_TRUNC truncates whatever was found, and then the tests come: a         *)
(* directory that is opened for writing is empty when EISDIR is returned.   *)
OpenExisting(base, path, flags) ==
    LET at == OpenTarget(base, path)
        cut == "trunc" \in flags /\ IsDir(at.node)
    IN  /\ at.err = "ok"
        /\ IF {"creat", "excl"} \subseteq flags /\ ~Hit(path) /\ ParseDirPath(path.comps) # <<>>
           THEN Return(at.ch)
           ELSE IF "trunc" \in flags /\ kind[at.node] = "dev" THEN Halt("todo")
           ELSE /\ children' = at.ch
                /\ entry' = IF cut THEN CutOff(at.node) ELSE entry
                /\ damage' = cut
                /\ UNCHANGED <<kind, father, name, spe_usage, cwd, halt, moves>>
                /\ IF Denied(kind[at.node], spe_usage[at.node], flags)
                   THEN UNCHANGED path_cache
                   ELSE CachePath(path, at.node)

OpenMissing(base, path, flags) ==
    LET dir == ParentOf(base, path)
        at == OpenTarget(base, path)
    IN  /\ at.err # "ok"
        /\ UNCHANGED <<spe_usage, cwd, halt, moves>>
        /\ IF Missing(base, path) /\ "creat" \in flags
           THEN \E n \in Free :
                   /\ NewNode(at.ch, n, "file", dir.node, Last(ParseDirPath(path.comps)))
                   /\ IF Denied("file", 0, flags) THEN UNCHANGED path_cache
                      ELSE CachePath(path, n)
           ELSE LookedUp(at.ch) /\ UNCHANGED path_cache

Mkdir(base, path) ==
    LET dir == ParentOf(base, path)
        at == Lookup(base, path)
    IN  /\ UNCHANGED <<spe_usage, cwd, path_cache, halt, moves>>
        /\ IF Missing(base, path)
           THEN \E n \in Free :
                   NewNode(at.ch, n, "dir", dir.node, Last(ParseDirPath(path.comps)))
           ELSE LookedUp(at.ch)

(* sys_chdir: the old working directory is given up after the new one is    *)
(* taken.                                                                   *)
Chdir(p, path) ==
    LET at == OpenTarget(cwd[p], path)
        taken == [spe_usage EXCEPT ![at.node] = @ + 1]
    IN  /\ cwd[p] # None
        /\ LookedUp(at.ch) /\ UNCHANGED <<halt, moves>>
        /\ IF at.err # "ok" \/ Denied(kind[at.node], spe_usage[at.node], {"directory"})
           THEN UNCHANGED <<spe_usage, cwd, path_cache>>
           ELSE /\ spe_usage' = [taken EXCEPT ![cwd[p]] = @ - 1]
                /\ cwd' = [cwd EXCEPT ![p] = at.node]
                /\ CachePath(path, at.node)

(* A mutant: a working directory may be deleted. *)
MayDeleteBusy(n, directory) == directory = IsDir(n) /\ father[n] # None

(* The tests of delete in their order. *)
MayDelete(n, directory) ==
    /\ spe_usage[n] = 0
    /\ directory = IsDir(n)
    /\ father[n] # None

(* delete.  The node is removed from its father under the last component of *)
(* the path, which is not its name when the path ends in "..".              *)
Delete(base, path, directory) ==
    LET comps == ParseDirPath(path.comps)
        at == CdComp(children, IF path.abs THEN Root ELSE base, comps)
        n == at.node
        key == Last(comps)
        removed == Take(at.ch, father[n], key)
        siblings == at.ch[father[n]]
        gone == IF key \in DOMAIN siblings THEN Subtree(at.ch, siblings[key]) ELSE {}
        freed == IF n \in gone THEN gone ELSE {}
    IN  IF comps = <<>> THEN Halt("delete_root")
        ELSE IF at.err # "ok" \/ ~MayDelete(n, directory) \/ (IsDir(n) /\ ~Empty(n))
        THEN Return(at.ch)
        ELSE IF kind[n] = "dev" THEN Halt("todo")
        ELSE /\ DropNodes(removed, gone)
             /\ Forget(freed)
             /\ entry' = [m \in Node |-> IF m \in freed \cup {n} THEN <<>> ELSE entry[m]]
             /\ father' = [m \in Node |-> IF m \in freed THEN None ELSE father[m]]
             /\ damage' = (n \notin gone)
             /\ UNCHANGED <<halt, moves>>

(* get_cwd goes up to the root over the names nodes were made with. *)
GetCwd(n) ==
    LET up[k \in 0 .. Cardinality(Node)] ==
            IF k = 0 THEN [at |-> n, path |-> <<>>]
            ELSE LET u == up[k - 1]
                 IN  IF father[u.at] = None THEN u
                     ELSE [at |-> father[u.at], path |-> <<name[u.at]>> \o u.path]
    IN  up[Cardinality(Node)].path

(* Whether rename refuses to replace what has the new name, n. *)
MayReplace(old, n) == IsDir(old) = IsDir(n) /\ spe_usage[n] = 0

(* Mutants: the entry or the father is left as it was. *)
LinkNothing(ents, n, to, m) == ents
SetNoFather(f, n, to) == f

(* link_child, and the father of the node that moved. *)
LinkChild(ents, n, to, m) == [ents EXCEPT ![n] = <<to, m>>]
SetFather(f, n, to) == [f EXCEPT ![n] = to]

(* The last part of rename: the node leaves its directory, then its entry   *)
(* is removed, which fails for a directory that is not empty, then it gets  *)
(* an entry, under its old name, and its place in the new directory.        *)
Move(ch, n, from, old_key, to, new_key) ==
    LET removed == Take(ch, from, old_key)
        fails == IsDir(n) /\ ~Empty(n)
    IN  IF n = to /\ ~fails THEN Halt("deadlock")
        ELSE /\ IF fails THEN DropNodes(removed, Subtree(removed, n))
                ELSE DropNodes(Put(removed, to, new_key, n), {})
             /\ entry' = IF fails THEN entry ELSE LinkChild(entry, n, to, old_key)
             /\ father' = IF fails THEN father ELSE SetFather(father, n, to)
             /\ moves' = moves + 1
             /\ damage' = (fails \/ new_key = Up)
             /\ UNCHANGED <<kind, name, halt>>

(* A rename onto an existing name unlinks the directory of that name on     *)
(* disk, instead of the file, and then waits for the lock of its map, which *)
(* the match it is in still holds.                                          *)
Replace(to) ==
    /\ halt' = "deadlock"
    /\ entry' = [entry EXCEPT ![to] = <<>>]
    /\ damage' = TRUE
    /\ UNCHANGED <<kind, children, father, name, spe_usage, cwd, path_cache, moves>>

(* rename.  FileDescriptor::rename puts the path of the directory in front  *)
(* of both paths, also of absolute ones.  Two different paths that lead to  *)
(* one directory lock it twice.                                             *)
Rename(base, old_path, new_path) ==
    LET old == ParseDirPath(GetCwd(base) \o old_path)
        new == ParseDirPath(GetCwd(base) \o new_path)
        from == CdComp(children, Root, Front(old))
        to == CdComp(from.ch, Root, Front(new))
        at == OpenSubfile(to.ch, from.node, Last(old))
        there == OpenSubfile(at.ch, to.node, Last(new))
    IN  IF IsPrefix(old, new) THEN Return(children)
        ELSE IF new = <<>> THEN Halt("rename_root")
        ELSE IF from.err # "ok" THEN Return(from.ch)
        ELSE IF to.err # "ok" THEN Return(to.ch)
        ELSE IF from.node = to.node /\ Front(old) # Front(new) THEN Halt("deadlock")
        ELSE IF at.err # "ok" THEN Return(at.ch)
        ELSE IF spe_usage[at.node] > 0 \/ kind[at.node] = "dev" THEN Return(at.ch)
        ELSE IF there.err = "ENOENT"
        THEN Move(there.ch, at.node, from.node, Last(old), to.node, Last(new))
        ELSE IF there.err # "ok" THEN Return(there.ch)
        ELSE IF MayReplace(at.node, there.node) /\ Empty(to.node) THEN Replace(to.node)
        ELSE Return(there.ch)

(* What the calls do to a tree that differs from the disk is not followed.  *)
Next ==
    /\ halt = "no" /\ ~damage
    /\ \/ \E path \in Paths : \E base \in IF path.abs THEN {Root} ELSE Dirs :
             \/ \E flags \in FlagSets :
                   OpenExisting(base, path, flags) \/ OpenMissing(base, path, flags)
             \/ Mkdir(base, path)
             \/ \E directory \in BOOLEAN : Delete(base, path, directory)
       \/ \E p \in Proc, path \in Paths : Chdir(p, path)
       \/ moves < MaxMoves /\ \E base \in Dirs, old_path, new_path \in RenamePaths :
             Rename(base, old_path, new_path)
    /\ vars' # vars   \* a call that changes nothing is no step

Spec == Init /\ [][Next]_vars

(* Properties *)

TypeOK ==
    /\ kind \in [Node -> {"dir", "file", "dev", "free"}]
    /\ \A n \in Node : children[n] = NotCached \/ Range(children[n]) \subseteq Node
    /\ father \in [Node -> Node \cup {None}] /\ name \in [Node -> Keys]
    /\ spe_usage \in [Node -> Nat]
    /\ \A n \in Node : entry[n] \in {<<>>} \cup (Node \X Keys)
    /\ cwd \in [Proc -> Node \cup {None}]
    /\ path_cache.node \in Node \cup {None}
    /\ damage \in BOOLEAN /\ moves \in 0 .. MaxMoves

(* The map that has node n, if one has. *)
Holders(n) ==
    UNION {{<<d, m>> : m \in {m \in DOMAIN children[d] : children[d][m] = n}} :
              d \in {d \in Node : children[d] # NotCached}}

(* A node is in one map under one name, and its father is the directory of  *)
(* that map: ".." leads back up, and delete takes the lock of the map the    *)
(* node is in.  The state has its types.                                    *)
FathersMatch ==
    TypeOK /\ \A n \in Node : \A h \in Holders(n) : Holders(n) = {h} /\ father[n] = h[1]

(* Four calls do damage, after which tree and disk have different files: a  *)
(* rename of a directory that is not empty, which fails half-way; a rename  *)
(* onto an existing name; a call whose path ends in ".." and that removes,  *)
(* creates or moves a file under that name; and an open of a directory with *)
(* O_TRUNC.  What follows states that no other call does.                   *)

(* Until one of these calls, the tree and the disk have the same files in    *)
(* every directory that was read, whoever created, removed and moved them    *)
(* in whatever order.  They have them under the same names too, unless a     *)
(* rename moved one: it leaves the old name on disk.                         *)
TreeMatchesDisk ==
    ~damage => \A n \in Node \ {Root} : kind[n] \in {"file", "dir"} =>
        /\ entry[n] # <<>>
        /\ children[entry[n][1]] # NotCached =>
              \E m \in Keys :
                 /\ Holders(n) = {<<entry[n][1], m>>}
                 /\ moves = 0 => m = entry[n][2]

(* A directory in use as a working directory is counted, so that delete and *)
(* rename refuse to drop it, and until one of these calls the process keeps *)
(* it: no directory above it is dropped.                                    *)
WorkingDirStays ==
    /\ \A n \in Node : spe_usage[n] = Cardinality({p \in Proc : cwd[p] = n})
                                     + IF n = Root THEN 2 ELSE 0
    /\ ~damage => \A p \in Proc : cwd[p] # None

(* As long as no rename has moved a file, PATH_CACHE has the node a lookup   *)
(* of its path would find, whatever was created and removed in between.     *)
PathCacheFresh ==
    path_cache.node # None /\ moves = 0 =>
        LET at == Lookup(Root, [abs |-> TRUE, comps |-> path_cache.path])
        IN  at.err = "ok" /\ at.node = path_cache.node

Place(n) ==
    IF kind[n] = "dev" THEN <<>>
    ELSE IF Holders(n) # {} THEN CHOOSE h \in Holders(n) : TRUE
    ELSE IF entry[n] # <<>> /\ children[entry[n][1]] = NotCached THEN entry[n]
    ELSE <<>>

Names == INSTANCE Namespace WITH
    Name <- Keys, place <- [n \in Node |-> Place(n)], whole <- ~damage

(* Until one of the four calls that do damage, the calls implement a name   *)
(* space: each creates, removes or moves one file, removes no directory     *)
(* that has files and moves none below itself.                              *)
KeepsNames == Names!Spec
=============================================================================
