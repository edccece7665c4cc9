------------------------ MODULE MetadataScan_proofs ------------------------
(***************************************************************************)
(* What the metadata walk guarantees for every image, every list of roots  *)
(* and every batch size.  The inductive invariant says of an unfinished    *)
(* walk what ScanIsClosed says of a finished one: a directory that is no   *)
(* longer queued has all its entries found, a root no longer to do is      *)
(* found.  FoundInv says of each entry found that its path is connected to *)
(* a root and resolves to its inode, from which ScanIsComplete follows by  *)
(* induction over the length of a path and by counting directories.        *)
(***************************************************************************)
EXTENDS MetadataScan, DataLemmas

Image ==
    /\ tree \in [Dirs -> [Names -> Inodes \cup {None}]]
    /\ dot \in [Dirs -> Dirs]
    /\ roots \in Seq(Seq(Names))

RootsKept ==
    /\ \A i \in DOMAIN roots :
         \/ \E e \in found : e[1] = roots[i]
         \/ \E j \in DOMAIN todo : todo[j] = roots[i]
    /\ pc \in {"walk", "attributes", "done"} => todo = <<>>

ListedClosed ==
    /\ \A e \in DirectoriesOf(found) \ queue : Children(e[1], Listed(e)) \subseteq found
    /\ Scanned => queue = {}

\* A finished walk has left no directory half seen: every root was found, and
\* whatever a found directory lists was found too (scan_entries).
ScanIsClosed ==
    Scanned =>
        /\ \A i \in DOMAIN roots : \E e \in found : e[1] = roots[i]
        /\ \A e \in DirectoriesOf(found) : Children(e[1], Listed(e)) \subseteq found

\* The attributes read are those of the inodes before offset in the order.
AttributesKept ==
    /\ pc \in {"roots", "walk"} => offset = 0 /\ attributes = {}
    /\ Scanned => attributes = {i \in InodesFound : Position(i) < offset}
    /\ pc = "done" => ~MoreBatches

IInv == TypeOK /\ Image /\ RootsKept /\ ListedClosed /\ AttributesKept

\* Growing the set of found entries, with the new directories queued, keeps
\* every directory that is not queued closed.
LEMMA AddClosed ==
    ASSUME NEW entries, NEW rest,
           \A e \in DirectoriesOf(found) \ rest :
               Children(e[1], Listed(e)) \subseteq found \cup entries,
           Add(entries, rest)
    PROVE  \A e \in DirectoriesOf(found') \ queue' :
               Children(e[1], Listed(e)) \subseteq found'
BY DEF Add, DirectoriesOf

\* What a listing of a directory gives has the type of entries.
LEMMA ChildrenAreEntries ==
    ASSUME Image, NEW path \in Seq(Names), NEW d \in Dirs
    PROVE  Children(path, d) \subseteq Entries
<1>1. SUFFICES ASSUME NEW n \in Names, tree[d][n] # None
               PROVE  <<Append(path, n), tree[d][n]>> \in Entries
  BY DEF Children
<1>2. tree[d][n] \in Inodes
  BY <1>1 DEF Image
<1>3. Append(path, n) \in Seq(Names)
  BY <1>1
<1>. QED BY <1>2, <1>3 DEF Entries

\* The found inodes are finitely many, and their positions count up to that.
LEMMA PositionBound ==
    ASSUME TypeOK, NEW i \in InodesFound
    PROVE  /\ Position(i) \in Nat /\ Cardinality(InodesFound) \in Nat
           /\ Position(i) < Cardinality(InodesFound)
<1>. DEFINE Less(x) == {y \in InodesFound : y < x}
<1>1. InodesFound \subseteq Inodes
  BY DEF TypeOK, InodesFound, Entries
<1>2. IsFiniteSet(InodesFound) /\ i \in Nat
  <2>1. IsFiniteSet(Inodes)
    BY ScanAssumption, FS_Union DEF Inodes
  <2>. QED BY <2>1, <1>1, ScanAssumption, FS_Subset DEF Inodes
<1>3. Less(i) \subseteq InodesFound /\ i \notin Less(i)
  BY <1>2
<1>. HIDE DEF Less
<1>4. /\ Cardinality(InodesFound) \in Nat /\ Cardinality(Less(i)) \in Nat
      /\ Cardinality(Less(i)) < Cardinality(InodesFound)
  BY <1>2, <1>3, FS_Subset, FS_CardinalityType
<1>. QED BY <1>4 DEF Position, Less

\* The initial states satisfy the invariant.
LEMMA InitInvariant == Init => IInv
<1>. SUFFICES ASSUME Init PROVE IInv
  OBVIOUS
<1>1. roots \in Seq(Seq(Names)) /\ dot \in [Dirs -> Dirs]
  BY ScanAssumption DEF Init
<1>2. TypeOK /\ Image
  BY <1>1 DEF Init, TypeOK, Image, DirectoriesOf
<1>3. RootsKept
  BY DEF Init, RootsKept
<1>4. ListedClosed /\ AttributesKept
  BY DEF Init, ListedClosed, AttributesKept, DirectoriesOf, Scanned
<1>. QED BY <1>2, <1>3, <1>4 DEF IInv

\* Refusing changes nothing that the invariant constrains.
LEMMA RefuseInvariant == IInv /\ Refuse => IInv'
BY DEF IInv, TypeOK, Image, RootsKept, ListedClosed, AttributesKept, Refuse, image, read,
       DirectoriesOf, Children, Listed, Scanned

\* Adding the entry of the next root keeps the invariant.
LEMMA LookUpRootInvariant == IInv /\ LookUpRoot => IInv'
<1>. SUFFICES ASSUME IInv, LookUpRoot PROVE IInv'
  OBVIOUS
<1>. DEFINE entry == RootEntry(Head(todo))
<1>1. CASE ~(entry[2] \in Inodes /\ Addable({entry}))
  BY <1>1, RefuseInvariant DEF LookUpRoot
<1>2. CASE entry[2] \in Inodes /\ Addable({entry})
  <2>1. /\ pc = "roots" /\ todo # <<>> /\ todo' = Tail(todo) /\ Add({entry}, queue)
        /\ UNCHANGED <<image, pc, read>>
    BY <1>2 DEF LookUpRoot
  <2>2. todo \in Seq(Seq(Names)) /\ Head(todo) \in Seq(Names) /\ Tail(todo) \in Seq(Seq(Names))
    BY <2>1 DEF IInv, TypeOK
  <2>3. entry = <<Head(todo), entry[2]>> /\ entry[1] = Head(todo)
    BY DEF RootEntry
  <2>4. entry \in Entries
    BY <1>2, <2>2, <2>3 DEF Entries
  <2>. HIDE DEF entry
  <2>5. TypeOK'
    BY <2>1, <2>2, <2>4 DEF IInv, TypeOK, Add, DirectoriesOf, read
  <2>6. Image'
    BY <2>1 DEF IInv, Image, image
  <2>7. RootsKept'
    <3>1. ASSUME NEW i \in DOMAIN roots
          PROVE  \/ \E e \in found' : e[1] = roots[i]
                 \/ \E j \in DOMAIN Tail(todo) : Tail(todo)[j] = roots[i]
      <4>1. CASE \E e \in found : e[1] = roots[i]
        BY <4>1, <2>1 DEF Add
      <4>2. CASE \E j \in DOMAIN todo : todo[j] = roots[i]
        <5>1. PICK j \in DOMAIN todo : todo[j] = roots[i]
          BY <4>2
        <5>2. CASE j = 1
          BY <5>1, <5>2, <2>1, <2>2, <2>3 DEF Add
        <5>3. CASE j # 1
          <6>1. j - 1 \in DOMAIN Tail(todo) /\ Tail(todo)[j - 1] = todo[j]
            BY <5>1, <5>3, <2>1, <2>2
          <6>. QED BY <6>1, <5>1
        <5>. QED BY <5>2, <5>3
      <4>. QED BY <4>1, <4>2 DEF IInv, RootsKept
    <3>. QED BY <3>1, <2>1 DEF RootsKept, image
  <2>8. ListedClosed'
    <3>1. \A e \in DirectoriesOf(found) \ queue :
              Children(e[1], Listed(e)) \subseteq found \cup {entry}
      BY DEF IInv, ListedClosed
    <3>2. \A e \in DirectoriesOf(found') \ queue' : Children(e[1], Listed(e)) \subseteq found'
      BY <3>1, <2>1, AddClosed
    <3>. QED BY <3>2, <2>1 DEF ListedClosed, Scanned, DirectoriesOf, Children, Listed, image
  <2>9. AttributesKept'
    BY <2>1 DEF IInv, AttributesKept, Scanned, read
  <2>. QED BY <2>5, <2>6, <2>7, <2>8, <2>9 DEF IInv
<1>. QED BY <1>1, <1>2

\* Listing a queued directory keeps the invariant: its entries are all added.
LEMMA ListDirectoryInvariant ==
    ASSUME IInv, NEW entry \in queue, ListDirectory(entry)
    PROVE  IInv'
<1>. DEFINE self == <<entry[1], dot[Listed(entry)]>>
            entries == {self} \cup Children(entry[1], Listed(entry))
<1>1. CASE ~Addable(entries)
  BY <1>1, RefuseInvariant DEF ListDirectory
<1>2. CASE Addable(entries)
  <2>1. /\ pc = "walk" /\ Add(entries, queue \ {entry})
        /\ UNCHANGED <<image, pc, todo, read>>
    BY <1>2 DEF ListDirectory
  <2>2. entry[1] \in Seq(Names) /\ entry[2] \in Dirs
    BY DEF IInv, TypeOK, DirectoriesOf, Entries
  <2>3. Listed(entry) \in Dirs
    BY <2>2, ScanAssumption DEF Listed
  <2>4. self \in Entries
    BY <2>2, <2>3 DEF IInv, Image, Entries, Inodes
  <2>5. Children(entry[1], Listed(entry)) \subseteq Entries
    BY <2>2, <2>3, ChildrenAreEntries DEF IInv
  <2>6. entries \subseteq Entries /\ Children(entry[1], Listed(entry)) \subseteq entries
    BY <2>4, <2>5
  <2>. HIDE DEF entries
  <2>7. TypeOK'
    BY <2>1, <2>6 DEF IInv, TypeOK, Add, DirectoriesOf, read
  <2>8. Image'
    BY <2>1 DEF IInv, Image, image
  <2>9. RootsKept'
    BY <2>1 DEF IInv, RootsKept, Add, image
  <2>10. ListedClosed'
    <3>1. \A e \in DirectoriesOf(found) \ (queue \ {entry}) :
              Children(e[1], Listed(e)) \subseteq found \cup entries
      BY <2>6 DEF IInv, ListedClosed
    <3>2. \A e \in DirectoriesOf(found') \ queue' : Children(e[1], Listed(e)) \subseteq found'
      BY <3>1, <2>1, AddClosed
    <3>. QED BY <3>2, <2>1 DEF ListedClosed, Scanned, DirectoriesOf, Children, Listed, image
  <2>11. AttributesKept'
    BY <2>1 DEF IInv, AttributesKept, Scanned, read
  <2>. QED BY <2>7, <2>8, <2>9, <2>10, <2>11 DEF IInv
<1>. QED BY <1>1, <1>2

\* Reading a batch of attributes keeps the invariant: it is the inodes from
\* offset up to the next one.
LEMMA ReadBatchInvariant ==
    ASSUME IInv, NEW answered \in SUBSET InodesFound, ReadBatch(answered)
    PROVE  IInv'
<1>1. CASE Refuse
  BY <1>1, RefuseInvariant
<1>2. CASE /\ attributes' = attributes \cup Batch /\ offset' = offset + BatchSize
           /\ UNCHANGED <<image, pc, todo, found, queue>>
  <2>1. pc = "attributes" /\ Batch \subseteq InodesFound
    BY DEF ReadBatch, Batch
  <2>2. InodesFound \subseteq Inodes
    BY DEF IInv, TypeOK, InodesFound, Entries
  <2>3. TypeOK'
    BY <1>2, <2>1, <2>2, ScanAssumption DEF IInv, TypeOK, DirectoriesOf
  <2>4. Image' /\ RootsKept'
    BY <1>2 DEF IInv, Image, RootsKept, image
  <2>5. ListedClosed'
    BY <1>2 DEF IInv, ListedClosed, Scanned, DirectoriesOf, Children, Listed, image
  <2>6. InodesFound' = InodesFound /\ \A i : Position(i)' = Position(i)
    BY <1>2 DEF InodesFound, Position
  <2>7. \A i \in InodesFound : Position(i) \in Nat
    BY PositionBound DEF IInv
  <2>8. /\ offset \in Nat /\ BatchSize \in Nat
        /\ attributes = {i \in InodesFound : Position(i) < offset}
    BY <2>1, ScanAssumption DEF IInv, TypeOK, AttributesKept, Scanned
  <2>9. \A i \in InodesFound :
          i \in Batch <=> (Position(i) >= offset /\ Position(i) < offset + BatchSize)
    BY <2>7, <2>8 DEF Batch
  <2>10. attributes' = {i \in InodesFound : Position(i) < offset + BatchSize}
    BY <1>2, <2>1, <2>7, <2>8, <2>9
  <2>11. AttributesKept'
    BY <1>2, <2>1, <2>6, <2>10 DEF AttributesKept, Scanned
  <2>. QED BY <2>3, <2>4, <2>5, <2>11 DEF IInv
<1>. QED BY <1>1, <1>2 DEF ReadBatch

\* The walk over, no attribute is read.
LEMMA EndWalkInvariant == IInv /\ EndWalk => IInv'
<1>. SUFFICES ASSUME IInv, EndWalk PROVE IInv'
  OBVIOUS
<1>1. TypeOK' /\ Image' /\ RootsKept' /\ ListedClosed'
  BY DEF IInv, TypeOK, Image, RootsKept, ListedClosed, EndWalk, image, read, DirectoriesOf,
         Children, Listed, Scanned
<1>2. InodesFound' = InodesFound /\ \A i : Position(i)' = Position(i)
  BY DEF EndWalk, InodesFound, Position
<1>3. \A i \in InodesFound : Position(i) \in Nat
  BY PositionBound DEF IInv
<1>4. attributes' = {} /\ offset' = 0 /\ pc' = "attributes"
  BY DEF EndWalk, IInv, AttributesKept, read
<1>5. {i \in InodesFound : Position(i) < 0} = {}
  BY <1>3
<1>6. AttributesKept'
  BY <1>2, <1>4, <1>5 DEF AttributesKept, Scanned
<1>. QED BY <1>1, <1>6 DEF IInv

\* The invariant holds in every reachable state.
THEOREM Invariance == Spec => []IInv
<1>1. Init => IInv
  BY InitInvariant
<1>2. IInv /\ [Next]_vars => IInv'
  <2>. SUFFICES ASSUME IInv, [Next]_vars PROVE IInv'
    OBVIOUS
  <2>1. CASE LookUpRoot
    BY <2>1, LookUpRootInvariant
  <2>2. CASE EndRoots
    BY <2>2 DEF IInv, TypeOK, Image, RootsKept, ListedClosed, AttributesKept, EndRoots, read,
                image, DirectoriesOf, Children, Listed, Scanned
  <2>3. CASE \E entry \in queue : ListDirectory(entry)
    BY <2>3, ListDirectoryInvariant
  <2>4. CASE EndWalk
    BY <2>4, EndWalkInvariant
  <2>5. CASE \E answered \in SUBSET InodesFound : ReadBatch(answered)
    BY <2>5, ReadBatchInvariant
  <2>6. CASE EndAttributes
    BY <2>6 DEF IInv, TypeOK, Image, RootsKept, ListedClosed, AttributesKept, EndAttributes, read,
                image, DirectoriesOf, Children, Listed, InodesFound, Position, MoreBatches, Scanned
  <2>7. CASE UNCHANGED vars
    <3>1. TypeOK' /\ Image' /\ RootsKept' /\ ListedClosed'
      BY <2>7 DEF IInv, TypeOK, Image, RootsKept, ListedClosed, vars, read, image, DirectoriesOf,
                  Children, Listed, Scanned
    <3>2. AttributesKept'
      BY <2>7 DEF IInv, AttributesKept, vars, read, InodesFound, Position, MoreBatches, Scanned
    <3>. QED BY <3>1, <3>2 DEF IInv
  <2>. QED BY <2>1, <2>2, <2>3, <2>4, <2>5, <2>6, <2>7 DEF Next
<1>. QED BY <1>1, <1>2, PTL DEF Spec

\* The variables keep their types (scan_entries, capture_entries).
THEOREM TypeCorrect == Spec => []TypeOK
<1>1. IInv => TypeOK
  BY DEF IInv
<1>. QED BY <1>1, Invariance, PTL

\* A finished walk has found every root, and everything that any directory it
\* found lists, whatever the image looks like (scan_entries).
LEMMA WalkIsClosed == Spec => []ScanIsClosed
<1>1. IInv => ScanIsClosed
  <2>. SUFFICES ASSUME IInv, Scanned
                PROVE  /\ \A i \in DOMAIN roots : \E e \in found : e[1] = roots[i]
                       /\ \A e \in DirectoriesOf(found) : Children(e[1], Listed(e)) \subseteq found
    BY DEF ScanIsClosed
  <2>1. todo = <<>> /\ queue = {}
    BY DEF IInv, RootsKept, ListedClosed, Scanned
  <2>2. \A i \in DOMAIN roots : \E e \in found : e[1] = roots[i]
    BY <2>1 DEF IInv, RootsKept
  <2>3. \A e \in DirectoriesOf(found) : Children(e[1], Listed(e)) \subseteq found
    BY <2>1 DEF IInv, ListedClosed
  <2>. QED BY <2>2, <2>3
<1>. QED BY <1>1, Invariance, PTL

\* A capture that ends well has read the attributes of exactly the inodes it
\* found: the slices of the sorted list that read_xattrs takes cover it to its
\* end, whatever the size of a batch and of the last one (parse_ea_batch).
THEOREM AttributesComplete == Spec => []AttributesOfAll
<1>1. ASSUME IInv, pc = "done"
      PROVE  InodesFound = attributes
  <2>1. /\ attributes = {i \in InodesFound : Position(i) < offset} /\ offset \in Nat
        /\ ~(offset < Cardinality(InodesFound))
    BY <1>1 DEF IInv, TypeOK, AttributesKept, Scanned, MoreBatches
  <2>2. \A i \in InodesFound : Position(i) < offset
    BY <1>1, <2>1, PositionBound DEF IInv
  <2>. QED BY <2>1, <2>2
<1>2. IInv => AttributesOfAll
  BY <1>1 DEF AttributesOfAll
<1>. QED BY <1>2, Invariance, PTL

-----------------------------------------------------------------------------
(* The paths *)

\* g has what debugfs resolves the first k names of a path to, for each k <= m.
Resolves(g, path, m) ==
    /\ g[0] = Top
    /\ \A k \in 1..m : g[k] = IF g[k - 1] \in Dirs THEN tree[g[k - 1]][path[k]] ELSE None

LEMMA ResolutionExists ==
    ASSUME NEW path \in Seq(Names)
    PROVE  \E g : DOMAIN g = 0..Len(path) /\ Resolves(g, path, Len(path))
                  /\ g = [k \in 0..Len(path) |->
                            IF k = 0 THEN Top
                            ELSE IF g[k - 1] \in Dirs THEN tree[g[k - 1]][path[k]] ELSE None]
<1>. DEFINE Some(m) == \E g : DOMAIN g = 0..m /\ g = [k \in 0..m |-> g[k]] /\ Resolves(g, path, m)
            Q == {m \in Nat : Some(m)}
<1>1. 0 \in Q
  <2>. DEFINE z == [k \in 0..0 |-> Top]
  <2>1. DOMAIN z = 0..0 /\ z = [k \in 0..0 |-> z[k]] /\ Resolves(z, path, 0)
    BY DEF Resolves
  <2>. QED  BY <2>1
<1>2. ASSUME NEW m \in Nat, m \in Q PROVE m + 1 \in Q
  <2>1. PICK g : DOMAIN g = 0..m /\ g = [k \in 0..m |-> g[k]] /\ Resolves(g, path, m)
    BY <1>2
  <2>. DEFINE next == IF g[m] \in Dirs THEN tree[g[m]][path[m + 1]] ELSE None
              h == [k \in 0..(m + 1) |-> IF k <= m THEN g[k] ELSE next]
  <2>2. DOMAIN h = 0..(m + 1) /\ h = [k \in 0..(m + 1) |-> h[k]]
    OBVIOUS
  <2>3. (\A k \in 0..m : h[k] = g[k]) /\ h[m + 1] = next
    OBVIOUS
  <2>4. Resolves(h, path, m + 1)
    <3>1. h[0] = Top
      BY <2>1, <2>3 DEF Resolves
    <3>2. ASSUME NEW k \in 1..(m + 1)
          PROVE  h[k] = IF h[k - 1] \in Dirs THEN tree[h[k - 1]][path[k]] ELSE None
      <4>. HIDE DEF h
      <4>1. CASE k = m + 1
        <5>1. k - 1 = m /\ h[k - 1] = g[m]
          BY <4>1, <2>3
        <5>. QED  BY <4>1, <5>1, <2>3
      <4>2. CASE k # m + 1
        <5>1. k \in 1..m /\ k - 1 \in 0..m /\ k \in 0..m
          BY <4>2
        <5>2. h[k] = g[k] /\ h[k - 1] = g[k - 1]
          BY <5>1, <2>3
        <5>. QED  BY <5>1, <5>2, <2>1 DEF Resolves
      <4>. QED  BY <4>1, <4>2
    <3>. HIDE DEF h
    <3>. QED  BY <3>1, <3>2 DEF Resolves
  <2>. HIDE DEF h
  <2>5. Some(m + 1)
    BY <2>2, <2>4
  <2>. HIDE DEF Some
  <2>. QED  BY <2>5
<1>. HIDE DEF Q
<1>3. Nat \subseteq Q
  BY <1>1, <1>2, SetInduction
<1>4. Len(path) \in Q
  BY <1>3, LenProperties
<1>5. PICK g : DOMAIN g = 0..Len(path) /\ g = [k \in 0..Len(path) |-> g[k]]
               /\ Resolves(g, path, Len(path))
  BY <1>4 DEF Q
<1>6. g = [k \in 0..Len(path) |->
             IF k = 0 THEN Top
             ELSE IF g[k - 1] \in Dirs THEN tree[g[k - 1]][path[k]] ELSE None]
  <2>1. ASSUME NEW k \in 0..Len(path)
        PROVE  g[k] = IF k = 0 THEN Top
                      ELSE IF g[k - 1] \in Dirs THEN tree[g[k - 1]][path[k]] ELSE None
    <3>1. Len(path) \in Nat
      BY LenProperties
    <3>2. k = 0 \/ k \in 1..Len(path)
      BY <3>1
    <3>. QED  BY <3>2, <1>5 DEF Resolves
  <2>. QED  BY <2>1, <1>5
<1>. QED  BY <1>5, <1>6

LEMMA InodeResolved ==
    ASSUME NEW path \in Seq(Names)
    PROVE  \E g : Resolves(g, path, Len(path)) /\ InodeAt(path) = g[Len(path)]
<1>. DEFINE step == CHOOSE g : g = [k \in 0..Len(path) |->
                       IF k = 0 THEN Top
                       ELSE IF g[k - 1] \in Dirs THEN tree[g[k - 1]][path[k]] ELSE None]
<1>1. step = [k \in 0..Len(path) |->
                IF k = 0 THEN Top
                ELSE IF step[k - 1] \in Dirs THEN tree[step[k - 1]][path[k]] ELSE None]
  BY ResolutionExists
<1>2. InodeAt(path) = step[Len(path)]
  BY DEF InodeAt
<1>. HIDE DEF step
<1>3. Resolves(step, path, Len(path))
  <2>1. Len(path) \in Nat
    BY LenProperties
  <2>2. step[0] = Top
    BY <1>1, <2>1
  <2>3. ASSUME NEW k \in 1..Len(path)
        PROVE  step[k] = IF step[k - 1] \in Dirs THEN tree[step[k - 1]][path[k]] ELSE None
    <3>1. k \in 0..Len(path) /\ k # 0
      BY <2>1
    <3>. QED  BY <3>1, <1>1
  <2>. QED  BY <2>2, <2>3 DEF Resolves
<1>. QED  BY <1>2, <1>3

\* Paths that agree resolve alike.
LEMMA ResolutionUnique ==
    ASSUME NEW p, NEW q, NEW g, NEW h, NEW m \in Nat,
           Resolves(g, p, m), Resolves(h, q, m), \A k \in 1..m : p[k] = q[k]
    PROVE  g[m] = h[m]
<1>. DEFINE Q == {k \in Nat : k <= m => g[k] = h[k]}
<1>1. 0 \in Q
  BY DEF Resolves
<1>2. ASSUME NEW k \in Nat, k \in Q PROVE k + 1 \in Q
  <2>. SUFFICES ASSUME k + 1 <= m PROVE g[k + 1] = h[k + 1]
    OBVIOUS
  <2>1. k + 1 \in 1..m /\ (k + 1) - 1 = k /\ g[k] = h[k]
    BY <1>2
  <2>. QED  BY <2>1 DEF Resolves
<1>. HIDE DEF Q
<1>3. Nat \subseteq Q
  BY <1>1, <1>2, SetInduction
<1>. QED  BY <1>3 DEF Q

\* The path "/" is that of the top directory, and a longer one is an entry of
\* the directory before it.
LEMMA InodeAtTop == InodeAt(<<>>) = Top
<1>1. <<>> \in Seq(Names) /\ Len(<<>>) = 0
  OBVIOUS
<1>. QED  BY <1>1, InodeResolved DEF Resolves

LEMMA InodeAtAppend ==
    ASSUME NEW path \in Seq(Names), NEW n \in Names
    PROVE  InodeAt(Append(path, n)) =
             IF InodeAt(path) \in Dirs THEN tree[InodeAt(path)][n] ELSE None
<1>. DEFINE long == Append(path, n)
            m == Len(path)
<1>1. /\ long \in Seq(Names) /\ Len(long) = m + 1 /\ m \in Nat
      /\ long[m + 1] = n /\ \A k \in 1..m : long[k] = path[k]
  BY AppendProperties, LenProperties
<1>2. PICK g : Resolves(g, long, Len(long)) /\ InodeAt(long) = g[Len(long)]
  BY <1>1, InodeResolved
<1>3. PICK h : Resolves(h, path, Len(path)) /\ InodeAt(path) = h[Len(path)]
  BY InodeResolved
<1>. HIDE DEF long, m
<1>4. Resolves(g, long, m)
  BY <1>1, <1>2 DEF Resolves
<1>5. g[m] = h[m]
  <2>1. Resolves(h, path, m)
    BY <1>3 DEF m
  <2>. QED  BY <1>1, <1>4, <2>1, ResolutionUnique
<1>6. g[m + 1] = IF g[m] \in Dirs THEN tree[g[m]][long[m + 1]] ELSE None
  <2>1. m + 1 \in 1..Len(long) /\ (m + 1) - 1 = m
    BY <1>1
  <2>. QED  BY <2>1, <1>2 DEF Resolves
<1>7. InodeAt(path) = h[m]
  BY <1>3 DEF m
<1>8. InodeAt(long) = IF InodeAt(path) \in Dirs THEN tree[InodeAt(path)][n] ELSE None
  BY <1>1, <1>2, <1>5, <1>6, <1>7
<1>. QED  BY <1>8 DEF long

-----------------------------------------------------------------------------
(* What is found *)

\* A path at or below a root, with every directory from the root to it found.
Connected(path) ==
    \E i \in DOMAIN roots :
      /\ Len(roots[i]) <= Len(path) /\ SubSeq(path, 1, Len(roots[i])) = roots[i]
      /\ \A k \in Len(roots[i])..(Len(path) - 1) :
           \E d \in DirectoriesOf(found) : d[1] = SubSeq(path, 1, k)

\* The inode of "/" is that of its "." entry, a directory.
RightInode(e) ==
    IF e[1] = <<>> THEN e[2] \in Dirs ELSE e[2] = InodeAt(e[1])

FoundInv ==
    /\ Addable({})
    /\ \A e \in found : RightInode(e) /\ Connected(e[1])
    /\ \A j \in DOMAIN todo : \E i \in DOMAIN roots : todo[j] = roots[i]

LEMMA InodesStay ==
    ASSUME tree' = tree, NEW p
    PROVE  InodeAt(p)' = InodeAt(p)
BY DEF InodeAt

LEMMA FoundInitial == ASSUME Init PROVE FoundInv
BY DEF Init, FoundInv, Addable

\* Steps that find nothing.
LEMMA FoundStays ==
    ASSUME FoundInv, UNCHANGED <<image, todo, found>>
    PROVE  FoundInv'
<1>1. tree' = tree /\ roots' = roots /\ todo' = todo /\ found' = found
  BY DEF image
<1>2. ASSUME NEW e \in found' PROVE RightInode(e)' /\ Connected(e[1])'
  <2>1. RightInode(e) /\ Connected(e[1])
    BY <1>1, <1>2 DEF FoundInv
  <2>2. InodeAt(e[1])' = InodeAt(e[1])
    BY <1>1, InodesStay
  <2>. QED  BY <1>1, <2>1, <2>2 DEF RightInode, Connected, DirectoriesOf
<1>. QED  BY <1>1, <1>2 DEF FoundInv, Addable

\* A path stays connected as more is found.
LEMMA ConnectedStays ==
    ASSUME NEW path, Connected(path), roots' = roots, found \subseteq found'
    PROVE  Connected(path)'
BY DEF Connected, DirectoriesOf

LEMMA LookUpRootFound ==
    ASSUME IInv, FoundInv, LookUpRoot
    PROVE  FoundInv'
<1>. DEFINE root == Head(todo)
            entry == RootEntry(root)
<1>1. CASE ~(entry[2] \in Inodes /\ Addable({entry}))
  <2>1. Refuse
    BY <1>1 DEF LookUpRoot
  <2>. QED  BY <2>1, FoundStays DEF Refuse
<1>2. CASE entry[2] \in Inodes /\ Addable({entry})
  <2>1. /\ todo # <<>> /\ todo' = Tail(todo) /\ found' = found \cup {entry}
        /\ tree' = tree /\ roots' = roots /\ dot' = dot
    BY <1>2 DEF LookUpRoot, Add, image
  <2>2. todo \in Seq(Seq(Names)) /\ roots \in Seq(Seq(Names)) /\ dot[Top] \in Dirs
    BY ScanAssumption DEF IInv, TypeOK, Image
  <2>3. root \in Seq(Names) /\ 1 \in DOMAIN todo /\ root = todo[1]
    BY <2>1, <2>2
  <2>4. entry[1] = root /\ entry[2] = IF root = <<>> THEN dot[Top] ELSE InodeAt(root)
    BY DEF RootEntry
  <2>5. RightInode(entry)
    BY <2>2, <2>4 DEF RightInode
  <2>6. Connected(root)
    <3>1. PICK i \in DOMAIN roots : todo[1] = roots[i]
      BY <2>3 DEF FoundInv
    <3>2. Len(root) \in Nat /\ SubSeq(root, 1, Len(root)) = root
      BY <2>3, SubSeqFull, LenProperties
    <3>3. Len(root)..(Len(root) - 1) = {}
      BY <3>2
    <3>. HIDE DEF root
    <3>4. root = roots[i]
      BY <3>1, <2>3
    <3>. QED  BY <3>2, <3>3, <3>4 DEF Connected
  <2>. HIDE DEF entry, root
  <2>7. ASSUME NEW e \in found' PROVE RightInode(e)' /\ Connected(e[1])'
    <3>1. RightInode(e) /\ Connected(e[1])
      BY <2>1, <2>4, <2>5, <2>6, <2>7 DEF FoundInv
    <3>2. InodeAt(e[1])' = InodeAt(e[1])
      BY <2>1, InodesStay
    <3>3. Connected(e[1])'
      BY <3>1, <2>1, ConnectedStays
    <3>. QED  BY <3>1, <3>2, <3>3 DEF RightInode
  <2>8. Addable({})'
    BY <1>2, <2>1 DEF Addable
  <2>9. ASSUME NEW j \in DOMAIN todo' PROVE \E i \in DOMAIN roots' : todo'[j] = roots'[i]
    <3>1. j + 1 \in DOMAIN todo /\ Tail(todo)[j] = todo[j + 1]
      BY <2>1, <2>2, <2>9
    <3>. QED  BY <3>1, <2>1 DEF FoundInv
  <2>. QED  BY <2>7, <2>8, <2>9 DEF FoundInv
<1>. QED  BY <1>1, <1>2

LEMMA ListDirectoryFound ==
    ASSUME IInv, FoundInv, NEW entry \in queue, ListDirectory(entry)
    PROVE  FoundInv'
<1>. DEFINE self == <<entry[1], dot[Listed(entry)]>>
            d == Listed(entry)
            children == Children(entry[1], d)
            entries == {self} \cup children
<1>1. CASE ~Addable(entries)
  <2>1. Refuse
    BY <1>1 DEF ListDirectory
  <2>. QED  BY <2>1, FoundStays DEF Refuse
<1>2. CASE Addable(entries)
  <2>1. /\ todo' = todo /\ found' = found \cup entries
        /\ tree' = tree /\ roots' = roots /\ dot' = dot
    BY <1>2 DEF ListDirectory, Add, image
  <2>2. /\ entry \in found /\ entry[1] \in Seq(Names) /\ entry[2] \in Dirs
        /\ entry \in DirectoriesOf(found) /\ roots \in Seq(Seq(Names))
    BY DEF IInv, TypeOK, DirectoriesOf, Entries, Image
  <2>3. RightInode(entry) /\ Connected(entry[1])
    BY <2>2 DEF FoundInv
  <2>4. d = InodeAt(entry[1]) /\ d \in Dirs
    <3>1. Top \in Dirs
      BY ScanAssumption
    <3>. QED  BY <2>2, <2>3, <3>1, InodeAtTop DEF Listed, RightInode
  <2>5. self = entry
    <3>1. self \in entries /\ self[1] = entry[1]
      OBVIOUS
    <3>. HIDE DEF self, entries
    <3>. QED  BY <1>2, <2>2, <3>1 DEF Addable
  <2>6. ASSUME NEW e \in children PROVE RightInode(e) /\ Connected(e[1])
    <3>. HIDE DEF d
    <3>1. PICK n \in Names : tree[d][n] # None /\ e = <<Append(entry[1], n), tree[d][n]>>
      BY <2>6 DEF Children
    <3>. DEFINE p == entry[1]
                q == Append(p, n)
                m == Len(p)
    <3>2. /\ m \in Nat /\ q \in Seq(Names) /\ Len(q) = m + 1
          /\ q # <<>> /\ e[1] = q /\ e[2] = tree[d][n]
      <4>1. m \in Nat
        BY <2>2, LenProperties
      <4>2. q \in Seq(Names) /\ Len(q) = m + 1 /\ q # <<>>
        BY <2>2, AppendProperties
      <4>3. e[1] = q /\ e[2] = tree[d][n]
        BY <3>1
      <4>. QED  BY <4>1, <4>2, <4>3
    <3>3. InodeAt(q) = tree[d][n]
      BY <2>2, <2>4, InodeAtAppend
    <3>4. RightInode(e)
      BY <3>2, <3>3 DEF RightInode
    <3>5. \A k \in 0..m : SubSeq(q, 1, k) = SubSeq(p, 1, k)
      <4>1. ASSUME NEW k \in 0..m PROVE SubSeq(q, 1, k) = SubSeq(p, 1, k)
        <5>1. \A i \in 1..k : q[i] = p[i] /\ p[i] \in Names
          BY <4>1, <2>2, AppendProperties, ElementOfSeq
        <5>. HIDE DEF p, q
        <5>2. /\ SubSeq(q, 1, k) \in Seq(Names) /\ SubSeq(p, 1, k) \in Seq(Names)
              /\ Len(SubSeq(q, 1, k)) = k /\ Len(SubSeq(p, 1, k)) = k
              /\ \A i \in 1..k : SubSeq(q, 1, k)[i] = q[i] /\ SubSeq(p, 1, k)[i] = p[i]
          BY <5>1, <4>1, SubSeqProperties
        <5>. QED  BY <5>1, <5>2, SeqEqual
      <4>. QED  BY <4>1
    <3>6. SubSeq(p, 1, m) = p
      BY <2>2, SubSeqFull
    <3>7. PICK i \in DOMAIN roots :
            /\ Len(roots[i]) <= m /\ SubSeq(p, 1, Len(roots[i])) = roots[i]
            /\ \A k \in Len(roots[i])..(m - 1) :
                 \E f \in DirectoriesOf(found) : f[1] = SubSeq(p, 1, k)
      BY <2>3 DEF Connected
    <3>8. Len(roots[i]) \in Nat
      BY <2>2, <3>7, LenProperties, ElementOfSeq
    <3>. HIDE DEF p, q, m
    <3>9. ASSUME NEW k \in Len(roots[i])..((m + 1) - 1)
          PROVE  \E f \in DirectoriesOf(found) : f[1] = SubSeq(q, 1, k)
      <4>1. k \in 0..m
        BY <3>2, <3>8, <3>9
      <4>2. SubSeq(q, 1, k) = SubSeq(p, 1, k)
        BY <4>1, <3>5
      <4>3. CASE k = m
        BY <4>2, <4>3, <2>2, <3>6 DEF p
      <4>4. CASE k # m
        <5>1. k \in Len(roots[i])..(m - 1)
          BY <3>2, <3>8, <3>9, <4>4
        <5>. QED  BY <5>1, <4>2, <3>7
      <4>. QED  BY <4>3, <4>4
    <3>10. Len(roots[i]) \in 0..m /\ Len(roots[i]) <= Len(q)
      BY <3>2, <3>7, <3>8
    <3>11. SubSeq(q, 1, Len(roots[i])) = roots[i]
      BY <3>5, <3>7, <3>10
    <3>12. Connected(q)
      BY <3>2, <3>9, <3>10, <3>11 DEF Connected
    <3>. QED  BY <3>2, <3>4, <3>12
  <2>. HIDE DEF children, d
  <2>7. \A e \in found' : RightInode(e) /\ Connected(e[1])
    BY <2>1, <2>2, <2>5, <2>6 DEF FoundInv
  <2>8. ASSUME NEW e \in found' PROVE RightInode(e)' /\ Connected(e[1])'
    <3>1. RightInode(e) /\ Connected(e[1])
      BY <2>7, <2>8
    <3>2. InodeAt(e[1])' = InodeAt(e[1])
      BY <2>1, InodesStay
    <3>3. found \subseteq found'
      BY <2>1
    <3>. HIDE DEF entries
    <3>4. Connected(e[1])'
      BY <3>1, <3>3, <2>1, ConnectedStays
    <3>. QED  BY <3>1, <3>2, <3>4 DEF RightInode
  <2>. HIDE DEF entries
  <2>9. Addable({})'
    BY <1>2, <2>1 DEF Addable
  <2>10. \A j \in DOMAIN todo' : \E i \in DOMAIN roots' : todo'[j] = roots'[i]
    BY <2>1 DEF FoundInv
  <2>. QED  BY <2>8, <2>9, <2>10 DEF FoundInv
<1>. QED  BY <1>1, <1>2

LEMMA FoundStep ==
    ASSUME IInv, FoundInv, [Next]_vars
    PROVE  FoundInv'
<1>1. CASE LookUpRoot
  BY <1>1, LookUpRootFound
<1>2. CASE \E entry \in queue : ListDirectory(entry)
  BY <1>2, ListDirectoryFound
<1>3. CASE EndRoots \/ EndWalk \/ EndAttributes \/ UNCHANGED vars
  BY <1>3, FoundStays DEF EndRoots, EndWalk, EndAttributes, vars
<1>4. CASE \E answered \in SUBSET InodesFound : ReadBatch(answered)
  BY <1>4, FoundStays DEF ReadBatch, Refuse
<1>. QED  BY <1>1, <1>2, <1>3, <1>4 DEF Next

\* A directory inode is found at one path, so that a path can be only as long
\* below its root as there are directories.
LEMMA FoundBelow ==
    ASSUME IInv, FoundInv, NEW e \in found
    PROVE  \E i \in DOMAIN roots : e[1] \in Below(roots[i])
<1>. DEFINE p == e[1]
<1>1. p \in Seq(Names) /\ Len(p) \in Nat /\ roots \in Seq(Seq(Names))
  BY LenProperties DEF IInv, TypeOK, Image, Entries
<1>2. PICK i \in DOMAIN roots :
        /\ Len(roots[i]) <= Len(p) /\ SubSeq(p, 1, Len(roots[i])) = roots[i]
        /\ \A k \in Len(roots[i])..(Len(p) - 1) :
             \E d \in DirectoriesOf(found) : d[1] = SubSeq(p, 1, k)
  BY DEF FoundInv, Connected
<1>. DEFINE root == roots[i]
            l == Len(root)
            n == Len(p) - l
<1>3. root \in Seq(Names) /\ l \in Nat /\ n \in Nat
  BY <1>1, <1>2, ElementOfSeq, LenProperties
<1>. HIDE DEF p, n, l
<1>4. n <= Cardinality(Dirs)
  <2>. DEFINE at(k) == CHOOSE d \in DirectoriesOf(found) : d[1] = SubSeq(p, 1, k)
              f == [k \in l..(Len(p) - 1) |-> at(k)[2]]
  <2>1. SUFFICES ASSUME Cardinality(Dirs) < n PROVE FALSE
    <3>1. IsFiniteSet(Dirs) /\ Cardinality(Dirs) \in Nat
      BY ScanAssumption, FS_CardinalityType
    <3>. QED  BY <3>1, <1>3
  <2>2. ASSUME NEW k \in l..(Len(p) - 1)
        PROVE  at(k) \in found /\ at(k)[2] \in Dirs /\ at(k)[1] = SubSeq(p, 1, k)
    <3>1. \E d \in DirectoriesOf(found) : d[1] = SubSeq(p, 1, k)
      BY <1>2 DEF l
    <3>2. at(k) \in DirectoriesOf(found) /\ at(k)[1] = SubSeq(p, 1, k)
      BY <3>1
    <3>. HIDE DEF at
    <3>. QED  BY <3>2 DEF DirectoriesOf
  <2>. HIDE DEF at
  <2>3. f \in [l..(Len(p) - 1) -> Dirs]
    BY <2>2
  <2>4. IsFiniteSet(l..(Len(p) - 1)) /\ Cardinality(l..(Len(p) - 1)) = n
    <3>1. l \in Int /\ Len(p) - 1 \in Int
      BY <1>1, <1>3
    <3>2. /\ IsFiniteSet(l..(Len(p) - 1))
          /\ Cardinality(l..(Len(p) - 1)) =
               IF l > Len(p) - 1 THEN 0 ELSE (Len(p) - 1) - l + 1
      BY <3>1, FS_Interval, Zenon
    <3>. QED  BY <3>1, <3>2, <1>3 DEF n
  <2>5. IsFiniteSet(Dirs)
    BY ScanAssumption
  <2>6. \E j, k \in l..(Len(p) - 1) : j # k /\ f[j] = f[k]
    <3>. HIDE DEF f
    <3>. DEFINE S == l..(Len(p) - 1)
    <3>1. IsFiniteSet(S) /\ Cardinality(Dirs) < Cardinality(S) /\ f \in [S -> Dirs]
      BY <2>1, <2>3, <2>4
    <3>. HIDE DEF S
    <3>2. \E j, k \in S : j # k /\ f[j] = f[k]
      BY <3>1, <2>5, FS_PigeonHole
    <3>. QED  BY <3>2 DEF S
  <2>7. PICK j, k \in l..(Len(p) - 1) : j # k /\ at(j)[2] = at(k)[2]
    BY <2>6
  <2>8. at(j) = at(k)
    BY <2>2, <2>7 DEF FoundInv, Addable
  <2>9. SubSeq(p, 1, j) = SubSeq(p, 1, k)
    BY <2>2, <2>8
  <2>10. ASSUME NEW m \in l..(Len(p) - 1) PROVE Len(SubSeq(p, 1, m)) = m
    <3>1. m \in Int /\ \A h \in 1..m : p[h] \in Names
      BY <1>1, <1>3, ElementOfSeq
    <3>2. Len(SubSeq(p, 1, m)) = IF 1 <= m THEN m - 1 + 1 ELSE 0
      BY <3>1, SubSeqProperties
    <3>. QED  BY <1>1, <1>3, <3>2
  <2>. QED  BY <2>7, <2>9, <2>10
<1>5. \E q \in [1..n -> Names] : p = root \o q
  <2>. DEFINE q == SubSeq(p, l + 1, Len(p))
  <2>1. q \in Seq(Names) /\ Len(q) = n
    <3>1. l + 1 \in Int /\ Len(p) \in Int /\ \A h \in (l + 1)..Len(p) : p[h] \in Names
      BY <1>1, <1>3, ElementOfSeq
    <3>2. q \in Seq(Names) /\ Len(q) = IF l + 1 <= Len(p) THEN Len(p) - (l + 1) + 1 ELSE 0
      BY <3>1, SubSeqProperties
    <3>. QED  BY <1>1, <1>3, <3>2 DEF n
  <2>2. q \in [1..n -> Names]
    <3>. HIDE DEF q
    <3>1. q \in [1..Len(q) -> Names]
      BY <2>1, LenProperties
    <3>. QED  BY <2>1, <3>1
  <2>3. p = root \o q
    <3>1. l \in 0..Len(p)
      BY <1>1, <1>2, <1>3 DEF l, p
    <3>2. SubSeq(p, 1, l) \o SubSeq(p, l + 1, Len(p)) = SubSeq(p, 1, Len(p))
      <4>1. l \in Nat /\ Len(p) \in Nat /\ l <= Len(p) /\ Len(p) <= Len(p)
        BY <1>1, <3>1
      <4>. QED  BY <4>1, <1>1, JoinSlices
    <3>3. SubSeq(p, 1, Len(p)) = p
      BY <1>1, SubSeqFull
    <3>. QED  BY <3>2, <3>3, <1>2 DEF l, p
  <2>. QED  BY <2>2, <2>3
<1>6. n \in 0..Cardinality(Dirs)
  <2>1. Cardinality(Dirs) \in Nat
    BY ScanAssumption, FS_CardinalityType
  <2>. QED  BY <2>1, <1>3, <1>4
<1>7. p \in Below(root)
  <2>1. PICK q \in [1..n -> Names] : p = root \o q
    BY <1>5
  <2>2. p \in {root \o r : r \in [1..n -> Names]}
    BY <2>1
  <2>. QED  BY <1>6, <2>2, Zenon DEF Below
<1>. QED  BY <1>7 DEF p

LEMMA AllBelowFound ==
    ASSUME IInv, FoundInv, ScanIsClosed, Scanned,
           NEW i \in DOMAIN roots, NEW p \in Below(roots[i]), InodeAt(p) # None
    PROVE  \E e \in found : e[1] = p
<1>. DEFINE root == roots[i]
            Q == {n \in Nat : \A q \in [1..n -> Names] :
                     InodeAt(root \o q) # None => \E e \in found : e[1] = root \o q}
<1>1. root \in Seq(Names)
  BY ElementOfSeq DEF IInv, Image
<1>. HIDE DEF root
<1>2. 0 \in Q
  <2>1. ASSUME NEW q \in [1..0 -> Names] PROVE \E e \in found : e[1] = root \o q
    <3>1. q = <<>>
      OBVIOUS
    <3>2. root \o q = root
      BY <1>1, <3>1, ConcatEmptySeq
    <3>3. \E e \in found : e[1] = root
      BY DEF ScanIsClosed, root
    <3>. QED  BY <3>2, <3>3
  <2>. QED  BY <2>1
<1>3. ASSUME NEW n \in Nat, n \in Q PROVE n + 1 \in Q
  <2>1. SUFFICES ASSUME NEW q \in [1..(n + 1) -> Names], InodeAt(root \o q) # None
                 PROVE  \E e \in found : e[1] = root \o q
    OBVIOUS
  <2>. DEFINE front == [k \in 1..n |-> q[k]]
              name == q[n + 1]
              parent == root \o front
  <2>2. front \in [1..n -> Names] /\ front \in Seq(Names) /\ name \in Names
        /\ q \in Seq(Names)
    OBVIOUS
  <2>3. parent \in Seq(Names)
    BY <1>1, <2>2, ConcatProperties
  <2>4. root \o q = Append(parent, name)
    <3>1. q = Append(front, name)
      OBVIOUS
    <3>. HIDE DEF front, name
    <3>2. root \o Append(front, name) = Append(root \o front, name)
      BY <1>1, <2>2
    <3>. QED  BY <3>1, <3>2
  <2>. HIDE DEF front, name
  <2>. HIDE DEF parent
  <2>5. InodeAt(parent) \in Dirs /\ tree[InodeAt(parent)][name] # None
    BY <2>1, <2>2, <2>3, <2>4, InodeAtAppend
  <2>6. InodeAt(parent) # None
    BY <2>5, ScanAssumption
  <2>7. PICK e \in found : e[1] = parent
    BY <1>3, <2>2, <2>6 DEF parent
  <2>8. e[2] \in Dirs /\ Listed(e) = InodeAt(parent)
    BY <2>5, <2>7, InodeAtTop DEF FoundInv, RightInode, Listed
  <2>9. Children(e[1], Listed(e)) \subseteq found
    BY <2>7, <2>8 DEF ScanIsClosed, DirectoriesOf
  <2>10. <<Append(parent, name), tree[InodeAt(parent)][name]>> \in Children(e[1], Listed(e))
    BY <2>2, <2>5, <2>7, <2>8 DEF Children
  <2>11. <<Append(parent, name), tree[InodeAt(parent)][name]>> \in found
    BY <2>9, <2>10
  <2>. QED  BY <2>4, <2>11
<1>. HIDE DEF Q
<1>4. Nat \subseteq Q
  BY <1>2, <1>3, SetInduction
<1>5. PICK n \in 0..Cardinality(Dirs) : p \in {root \o q : q \in [1..n -> Names]}
  BY DEF Below, root
<1>6. n \in Nat
  OBVIOUS
<1>. QED  BY <1>4, <1>5, <1>6 DEF Q

LEMMA FoundIsComplete ==
    ASSUME IInv, FoundInv, ScanIsClosed
    PROVE  ScanIsComplete
<1>. SUFFICES ASSUME Scanned
              PROVE  /\ {e[1] : e \in found} =
                          UNION {{p \in Below(roots[i]) : InodeAt(p) # None} : i \in DOMAIN roots}
                     /\ \A e \in found : e[1] # <<>> => e[2] = InodeAt(e[1])
  BY DEF ScanIsComplete
<1>1. \A e \in found : e[1] # <<>> => e[2] = InodeAt(e[1])
  BY DEF FoundInv, RightInode
<1>2. ASSUME NEW e \in found
      PROVE  \E i \in DOMAIN roots : e[1] \in Below(roots[i]) /\ InodeAt(e[1]) # None
  <2>1. e[2] \in Inodes /\ None \notin Inodes /\ Top \in Inodes
    BY ScanAssumption DEF IInv, TypeOK, Entries, Inodes
  <2>2. InodeAt(e[1]) # None
    BY <1>1, <2>1, InodeAtTop
  <2>. QED  BY <2>2, FoundBelow
<1>3. ASSUME NEW i \in DOMAIN roots, NEW p \in Below(roots[i]), InodeAt(p) # None
      PROVE  p \in {e[1] : e \in found}
  BY <1>3, AllBelowFound
<1>. QED  BY <1>1, <1>2, <1>3

\* A finished walk has found exactly the paths that exist below its roots, each
\* with the inode it resolves to (scan_entries).
THEOREM WalkIsComplete == Spec => []ScanIsComplete
<1>1. Init => FoundInv
  BY FoundInitial
<1>2. IInv /\ FoundInv /\ [Next]_vars => FoundInv'
  BY FoundStep
<1>3. IInv /\ ScanIsClosed /\ FoundInv => ScanIsComplete
  BY FoundIsComplete
<1>. QED  BY <1>1, <1>2, <1>3, Invariance, WalkIsClosed, PTL DEF Spec
=============================================================================
