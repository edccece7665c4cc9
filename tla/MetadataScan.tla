---------------------------- MODULE MetadataScan ----------------------------
(***************************************************************************)
(* tools/metactl.py, scan_entries and capture_entries: the walk over an    *)
(* ext4 image, one debugfs listing per directory, that finds every entry   *)
(* below the locked roots, and the batches in which the entries' extended  *)
(* attributes are then read.                                               *)
(*                                                                         *)
(* The image is any directory structure over a few inodes, damaged ones    *)
(* included: a directory entered twice, a cycle, a "." entry that names    *)
(* another directory.  A path is the sequence of names below "/"; an entry *)
(* is a path with the inode listed for it.  The queue is a set, since      *)
(* nothing that is kept depends on its order.                              *)
(***************************************************************************)
EXTENDS Integers, FiniteSets, SequencesExt

CONSTANTS
    Dirs,       \* directory inodes, as numbers
    Files,      \* inodes of regular files and symbolic links
    Top,        \* the inode of "/"
    Names,      \* entry names
    None,       \* no entry of that name
    RootLists,  \* the lists of roots a source may have
    Dots,       \* the "." entries an image may have
    BatchSize   \* DEBUGFS_BATCH_SIZE

ASSUME ScanAssumption ==
    /\ Top \in Dirs /\ Dirs \cap Files = {}
    /\ IsFiniteSet(Dirs) /\ IsFiniteSet(Files) /\ Dirs \cup Files \subseteq Nat
    /\ None \notin Dirs \cup Files
    /\ RootLists \subseteq Seq(Seq(Names))
    /\ Dots \subseteq [Dirs -> Dirs]
    /\ BatchSize \in Nat \ {0}

Inodes == Dirs \cup Files
Entries == Seq(Names) \X Inodes

VARIABLES
    tree,       \* the named entries of each directory
    dot,        \* the inode of each directory's "." entry
    roots,      \* the roots asked for
    pc,         \* "roots", "walk", "attributes", "done" or "refused"
    todo,       \* roots not looked up yet
    found,      \* discovered: the entries found so far
    queue,      \* directory_queue: those of them not listed yet
    offset,     \* of the next batch in the sorted list of inodes
    attributes  \* inodes whose attributes have been read

image == <<tree, dot, roots>>
read == <<offset, attributes>>
vars == <<image, pc, todo, found, queue, read>>

\* _safe_roots: at least one, all distinct, none below another.
SafeRoots(list) ==
    /\ list # <<>>
    /\ \A i, j \in DOMAIN list : i # j => ~IsPrefix(list[i], list[j])

\* What debugfs resolves a path to.
InodeAt(path) ==
    LET step[k \in 0..Len(path)] ==
            IF k = 0 THEN Top
            ELSE IF step[k - 1] \in Dirs THEN tree[step[k - 1]][path[k]] ELSE None
    IN  step[Len(path)]

\* The live entries a listing of directory d gives below a path (parse_ls_output
\* leaves out records of inode zero, which name nothing).
Children(path, d) ==
    {<<Append(path, n), tree[d][n]>> : n \in {m \in Names : tree[d][m] # None}}

\* The directory listed for an entry: "/" by its path, any other by its inode.
Listed(entry) == IF entry[1] = <<>> THEN Top ELSE entry[2]

DirectoriesOf(entries) == {e \in entries : e[2] \in Dirs}

----------------------------------------------------------------------------

Init ==
    /\ tree \in [Dirs -> [Names -> Inodes \cup {None}]]
    /\ dot \in Dots
    /\ roots \in {list \in RootLists : SafeRoots(list)}
    /\ pc = "roots" /\ todo = roots
    /\ found = {} /\ queue = {} /\ offset = 0 /\ attributes = {}

Refuse == pc' = "refused" /\ UNCHANGED <<image, todo, found, queue, read>>

\* add: a path is found with one inode, a directory inode at one path.
Addable(entries) ==
    \A a, b \in found \cup entries :
        a[1] = b[1] \/ (a[2] = b[2] /\ a[2] \in Dirs) => a = b

\* Plausible bug: every new entry is queued for listing.
Add_QueuesFiles(entries, rest) ==
    /\ found' = found \cup entries
    /\ queue' = rest \cup (entries \ found)

\* The new entries are found, the directories among them queued.
Add(entries, rest) ==
    /\ found' = found \cup entries
    /\ queue' = rest \cup DirectoriesOf(entries \ found)

\* The entry a root is found by: its name in its parent's listing, or "." for "/".
RootEntry(root) == <<root, IF root = <<>> THEN dot[Top] ELSE InodeAt(root)>>

\* The next root is looked up and added, or the scan fails.
LookUpRoot ==
    /\ pc = "roots" /\ todo # <<>>
    /\ LET entry == RootEntry(Head(todo))
       IN  IF entry[2] \in Inodes /\ Addable({entry})
           THEN /\ Add({entry}, queue) /\ todo' = Tail(todo)
                /\ UNCHANGED <<image, pc, read>>
           ELSE Refuse

EndRoots ==
    /\ pc = "roots" /\ todo = <<>> /\ pc' = "walk"
    /\ UNCHANGED <<image, todo, found, queue, read>>

\* Plausible bugs: subdirectories are not queued; a directory stays queued.
ListDirectory_Shallow(entry) ==
    /\ pc = "walk"
    /\ LET entries == {<<entry[1], dot[Listed(entry)]>>} \cup Children(entry[1], Listed(entry))
       IN  IF Addable(entries)
           THEN /\ found' = found \cup entries /\ queue' = queue \ {entry}
                /\ UNCHANGED <<image, pc, todo, read>>
           ELSE Refuse

ListDirectory_StaysQueued(entry) ==
    /\ pc = "walk"
    /\ LET entries == {<<entry[1], dot[Listed(entry)]>>} \cup Children(entry[1], Listed(entry))
       IN  IF Addable(entries)
           THEN /\ Add(entries, queue)
                /\ UNCHANGED <<image, pc, todo, read>>
           ELSE Refuse

\* A queued directory is listed; its "." must be the entry already found.
ListDirectory(entry) ==
    /\ pc = "walk"
    /\ LET entries == {<<entry[1], dot[Listed(entry)]>>} \cup Children(entry[1], Listed(entry))
       IN  IF Addable(entries)
           THEN /\ Add(entries, queue \ {entry})
                /\ UNCHANGED <<image, pc, todo, read>>
           ELSE Refuse

EndWalk ==
    /\ pc = "walk" /\ queue = {} /\ pc' = "attributes"
    /\ UNCHANGED <<image, todo, found, queue, read>>

InodesFound == {e[2] : e \in found}

\* read_xattrs: batch is the slice of the sorted inodes that starts at offset,
\* as long as range(0, len(unique), DEBUGFS_BATCH_SIZE) has one.
Position(inode) == Cardinality({i \in InodesFound : i < inode})
Batch == {i \in InodesFound : Position(i) \in offset .. offset + BatchSize - 1}

\* Plausible bug: the range ends before a last, shorter batch.
MoreBatches_Full == offset + BatchSize <= Cardinality(InodesFound)

MoreBatches == offset < Cardinality(InodesFound)

\* One debugfs for the batch.  parse_ea_batch wants an answer for every inode
\* of it and for no other, or the capture fails.
ReadBatch(answered) ==
    /\ pc = "attributes" /\ MoreBatches
    /\ IF answered = Batch
       THEN /\ attributes' = attributes \cup answered /\ offset' = offset + BatchSize
            /\ UNCHANGED <<image, pc, todo, found, queue>>
       ELSE Refuse

EndAttributes ==
    /\ pc = "attributes" /\ ~MoreBatches
    /\ pc' = "done"
    /\ UNCHANGED <<image, todo, found, queue, read>>

Next ==
    \/ LookUpRoot \/ EndRoots
    \/ \E entry \in queue : ListDirectory(entry)
    \/ EndWalk
    \/ \E answered \in SUBSET InodesFound : ReadBatch(answered)
    \/ EndAttributes

Spec == Init /\ [][Next]_vars

\* A single process that nothing stops but its own failure.
LiveSpec == Spec /\ WF_vars(Next)

----------------------------------------------------------------------------

\* The variables have the types the code gives them.
TypeOK ==
    /\ pc \in {"roots", "walk", "attributes", "done", "refused"}
    /\ todo \in Seq(Seq(Names))
    /\ found \subseteq Entries /\ queue \subseteq DirectoriesOf(found)
    /\ offset \in Nat /\ attributes \subseteq Inodes

Scanned == pc \in {"attributes", "done"}

Below(root) ==
    UNION {{root \o p : p \in [1..n -> Names]} : n \in 0..Cardinality(Dirs)}

\* A finished walk found exactly the paths that exist below the roots, each with
\* the inode it resolves to: "no live inode is discarded", and none is made up
\* (docs/CASE-5-1-EXT4-DIRENT-AUDIT.md; "/" itself takes its inode from ".").
ScanIsComplete ==
    Scanned =>
        /\ {e[1] : e \in found} =
              UNION {{p \in Below(roots[i]) : InodeAt(p) # None} : i \in DOMAIN roots}
        /\ \A e \in found : e[1] # <<>> => e[2] = InodeAt(e[1])

\* A capture that ends well has read the attributes of every inode it found, a
\* last, shorter batch included, and of no other.
AttributesOfAll == pc = "done" => InodesFound = attributes

\* Every scan, of a damaged image too, ends: a cycle of directories, or one
\* entered from two places, never makes the walk run on (the check of
\* directory_inodes in add, made before a directory is queued).
ScanEnds == <>(pc \in {"done", "refused"})

=============================================================================
