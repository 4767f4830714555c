------------------------------- MODULE Ramfs --------------------------------
(***************************************************************************)
(* The file system: kernel/src/ramfs.rs builds a tree from the ustar       *)
(* ramdisk and mounts it, kernel/src/vfs.rs walks it.                      *)
(*                                                                         *)
(* The tree is the sequence of its nodes in the order of their creation;   *)
(* node 1 is the root, and the entries of a directory are the nodes with   *)
(* it as parent, in that order.  A path is the sequence of its components, *)
(* which are texts.  ShellCommands adds the shell that uses it.            *)
(***************************************************************************)
EXTENDS Text

CONSTANTS
  Archives   \* sets of archive entries: [path, kind, data, cut]

\* One entry per path.  An archive may use a file as a directory.  The data of
\* its last entry may be cut off: `cut'.
ASSUME ArchiveAssumption ==
  \A A \in Archives :
    /\ \A e \in A : e.path # <<>> /\ e.kind \in {"dir", "file"}
    /\ \A e, f \in A : e # f => e.path # f.path /\ ~(e.cut /\ f.cut)

Entries == UNION Archives

VARIABLES
  phase,    \* "parse", "run", or "panic" for the expect in get_or_insert_dir
  tree,
  mounted,  \* ROOT is Some
  parsed    \* history: entries of the archive so far

fsvars == <<phase, tree, mounted, parsed>>

Root == 1
None == 0
RootNode == [parent |-> 0, name |-> <<>>, kind |-> "dir", data |-> <<>>]

FsInit == phase = "parse" /\ tree = <<RootNode>> /\ mounted = FALSE /\ parsed = {}

-----------------------------------------------------------------------------
(* ramfs.rs                                                                *)

\* The first entry called n of directory d.
Find(t, d, n) ==
  LET S == {i \in 2..Len(t) : t[i].parent = d /\ t[i].name = n}
  IN  IF S = {} THEN None ELSE Min(S)

Node(d, n, kind, data) == [parent |-> d, name |-> n, kind |-> kind, data |-> data]

\* A step down while inserting; the directory is made if it is missing, and
\* a file in its place is the panic.
get_or_insert_dir(st, n) ==
  LET i == Find(st.t, st.dir, n)
  IN  IF st.dir = None THEN st
      ELSE IF i = None THEN [t |-> Append(st.t, Node(st.dir, n, "dir", <<>>)),
                             dir |-> Len(st.t) + 1]
      ELSE IF st.t[i].kind = "dir" THEN [st EXCEPT !.dir = i]
      ELSE [st EXCEPT !.dir = None]

\* Mutant: a directory entry is always pushed.
InsertAlways(t, e) ==
  LET st == FoldLeft(get_or_insert_dir, [t |-> t, dir |-> Root], Front(e.path))
  IN  IF st.dir = None THEN st
      ELSE [st EXCEPT !.t = Append(@, Node(st.dir, Last(e.path), e.kind, e.data))]

\* A directory that is there already, made for its contents, is kept.
insert(t, e) ==
  LET st == FoldLeft(get_or_insert_dir, [t |-> t, dir |-> Root], Front(e.path))
  IN  IF st.dir = None \/ (e.kind = "dir" /\ Find(st.t, st.dir, Last(e.path)) # None)
        THEN st
        ELSE [st EXCEPT !.t = Append(@, Node(st.dir, Last(e.path), e.kind, e.data))]

\* A file whose data runs past the end of the archive is empty.
Slice(e) == IF e.cut THEN [e EXCEPT !.data = <<>>] ELSE e

\* One header of parse_ustar, with its data block; the entries of an archive
\* may come in any order, but nothing follows data that is cut off.
ParseEntry(e) ==
  /\ phase = "parse"
  /\ e \notin parsed /\ \E A \in Archives : parsed \cup {e} \subseteq A
  /\ e.cut => parsed \cup {e} \in Archives
  /\ tree' = insert(tree, Slice(e)).t
  /\ phase' = IF insert(tree, Slice(e)).dir = None THEN "panic" ELSE "parse"
  /\ parsed' = parsed \cup {e}
  /\ UNCHANGED mounted

\* The end of the archive, and mount.
Mount ==
  /\ phase = "parse" /\ parsed \in Archives
  /\ phase' = "run" /\ mounted' = TRUE
  /\ UNCHANGED <<tree, parsed>>

\* No ramdisk, or one without the ustar magic: nothing is mounted.
NoRamdisk ==
  /\ phase = "parse" /\ parsed = {}
  /\ phase' = "run"
  /\ UNCHANGED <<tree, mounted, parsed>>

-----------------------------------------------------------------------------
(* vfs.rs                                                                  *)

\* vfs::lookup; the root itself is not returned.
lookup(path) ==
  IF ~mounted \/ path = <<>> THEN None
  ELSE FoldLeft(LAMBDA d, n : IF d = None THEN None ELSE Find(tree, d, n), Root, path)

\* VNode::readdir, in the order of the archive.
readdir(d) ==
  LET es == SelectSeq([i \in 1..Len(tree) |-> i], LAMBDA i : tree[i].parent = d)
  IN  [j \in DOMAIN es |-> tree[es[j]].name]

IsDir(path) == lookup(path) # None /\ tree[lookup(path)].kind = "dir"
IsFile(path) == lookup(path) # None /\ tree[lookup(path)].kind = "file"

\* VNode::size: the bytes of a file, the entries of a directory.
Size(i) == IF tree[i].kind = "file" THEN Len(tree[i].data) ELSE Len(readdir(i))

-----------------------------------------------------------------------------
(* Properties.                                                             *)

\* Two entries of the archive that make one path a file and a directory.
Conflict(S) ==
  \E e, f \in S : e # f /\ e.kind = "file" /\ IsPrefix(e.path, f.path)

\* parse_ustar and lookup, in whatever order the entries come: what the
\* archive holds is found under its path, with its kind and data, and data
\* that is cut off takes nothing else along but itself; what the archive
\* implies is a directory; and a tree has no other nodes.  With a conflict
\* only the directories are sure to be found, and only a conflict, a file used
\* as a directory, panics the kernel at boot.
LookupIsArchive ==
  /\ phase = "panic" => Conflict(parsed)
  /\ phase = "run" /\ mounted =>
       /\ ~Conflict(parsed) =>
            /\ \A e \in parsed : /\ lookup(e.path) # None
                                 /\ tree[lookup(e.path)].kind = e.kind
                                 /\ e.kind = "file" => tree[lookup(e.path)].data = IF e.cut THEN <<>> ELSE e.data
            /\ Len(tree) - 1 = Cardinality(UNION {Prefixes(e.path) \ {<<>>} : e \in parsed})
       /\ \A e \in parsed : \A p \in Prefixes(Front(e.path)) \ {<<>>} : IsDir(p)

\* lookup: an empty or "/" path returns the root itself.
RootIsFound == mounted => lookup(<<>>) # None
=============================================================================
