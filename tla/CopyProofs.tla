----------------------------- MODULE CopyProofs -----------------------------
(***************************************************************************)
(* Proofs about Copy, for every tree, package and prefix.                   *)
(*                                                                          *)
(* A step of the walk does one of five things to the prefix: nothing, a new *)
(* inode under the visited name, new bytes in a file, the visited name      *)
(* removed, or the visited name given to an inode that has a name already.  *)
(* One lemma for each says that the prefix stays a tree.                    *)
(***************************************************************************)
EXTENDS Copy, TLAPS

(* What a path shows: its type tells a directory from the rest. *)
LEMMA ObjectTypes ==
  ASSUME IsTree(dst, disk), NEW p \in Paths
  PROVE  /\ ObjAt(p) \in DstObject \cup {Nothing}
         /\ TypeAt(p) = "none" <=> dst[p] = 0
         /\ TypeAt(p) = "dir" <=> dst[p] # 0 /\ disk[dst[p]] = Dir
         /\ TypeAt(p) = "file" => dst[p] \in 1 .. Len(disk) /\ ObjAt(p) = disk[dst[p]]
         /\ TypeAt(p) = "link" => dst[p] \in 1 .. Len(disk) /\ ObjAt(p) = disk[dst[p]]
         /\ TypeAt(p) = "other" => dst[p] \in 1 .. Len(disk) /\ ObjAt(p) = disk[dst[p]]
<1>1. disk \in Seq(DstObject) /\ dst[p] \in 0 .. Len(disk)
  BY DEF IsTree
<1>2. dst[p] # 0 => disk[dst[p]] \in DstObject
  BY <1>1
<1>3. \A o \in DstObject :
        o.type \in {"file", "link", "dir", "other"} /\ (o.type = "dir" <=> o = Dir)
  BY DEF DstObject, File, Symlinks, Symlink, Dir, Other
<1>4. Nothing.type = "none"
  BY DEF Nothing
<1> QED
  BY <1>1, <1>2, <1>3, <1>4 DEF ObjAt, TypeAt

(* A new inode under a name that is free or is not a directory's. *)
LEMMA NewInode ==
  ASSUME IsTree(dst, disk), NEW p \in Paths, NEW obj \in DstObject,
         TypeAt(p) # "dir",
         Parent[p] # 0 => TypeAt(Parent[p]) = "dir",
         disk' = Append(disk, obj),
         dst' = [dst EXCEPT ![p] = Len(disk) + 1]
  PROVE  IsTree(dst', disk') /\ Len(disk') = Len(disk) + 1
<1>1. disk \in Seq(DstObject) /\ dst \in [Paths -> 0 .. Len(disk)]
  BY DEF IsTree
<1>2. Parent \in [Paths -> 0 .. N] /\ \A q \in Paths : Parent[q] < q
  BY ParentAssumption
<1>3. /\ disk' \in Seq(DstObject)
      /\ Len(disk') = Len(disk) + 1
      /\ \A i \in 1 .. Len(disk) : disk'[i] = disk[i]
      /\ disk'[Len(disk) + 1] = obj
  BY <1>1
<1>4. dst' \in [Paths -> 0 .. Len(disk')]
  BY <1>1, <1>3
<1>5. \A q \in Paths : q # p => dst'[q] = dst[q]
  BY <1>1
<1>6. dst'[p] = Len(disk) + 1
  BY <1>1
<1>7. ASSUME NEW q \in Paths, dst'[q] # 0
      PROVE  Parent[q] = 0 \/ (dst'[Parent[q]] # 0 /\ disk'[dst'[Parent[q]]] = Dir)
  <2>1. SUFFICES ASSUME Parent[q] # 0
                 PROVE  dst'[Parent[q]] # 0 /\ disk'[dst'[Parent[q]]] = Dir
    OBVIOUS
  <2>2. Parent[q] \in Paths
    BY <1>2, <2>1 DEF Paths
  <2>3. dst[Parent[q]] # 0 /\ disk[dst[Parent[q]]] = Dir
    <3>1. CASE q = p
      BY <3>1, <2>1, <2>2, ObjectTypes
    <3>2. CASE q # p
      BY <3>2, <1>5, <1>7, <2>1 DEF IsTree
    <3> QED
      BY <3>1, <3>2
  <2>4. Parent[q] # p
    BY <2>2, <2>3, ObjectTypes
  <2>5. dst'[Parent[q]] = dst[Parent[q]] /\ dst[Parent[q]] \in 1 .. Len(disk)
    BY <1>1, <1>5, <2>2, <2>3, <2>4
  <2> QED
    BY <1>3, <2>3, <2>5
<1>8. ASSUME NEW q \in Paths, NEW r \in Paths, q # r, dst'[q] # 0, dst'[q] = dst'[r]
      PROVE  disk'[dst'[q]] # Dir
  <2>1. q # p /\ r # p
    BY <1>1, <1>5, <1>6, <1>8
  <2>2. dst[q] = dst[r] /\ dst[q] \in 1 .. Len(disk) /\ dst'[q] = dst[q]
    BY <1>1, <1>5, <1>8, <2>1
  <2>3. disk[dst[q]] # Dir
    BY <1>8, <2>2 DEF IsTree
  <2> QED
    BY <1>3, <2>2, <2>3
<1> QED
  BY <1>3, <1>4, <1>7, <1>8 DEF IsTree

(* New bytes in an inode that is a file. *)
LEMMA NewBytes ==
  ASSUME IsTree(dst, disk), NEW i \in 1 .. Len(disk), disk[i] # Dir,
         NEW bytes \in Contents \cup {Torn},
         disk' = [disk EXCEPT ![i] = File(bytes)],
         dst' = dst
  PROVE  IsTree(dst', disk') /\ Len(disk') = Len(disk)
<1>1. disk \in Seq(DstObject) /\ dst \in [Paths -> 0 .. Len(disk)]
  BY DEF IsTree
<1>2. File(bytes) \in DstObject /\ File(bytes) # Dir
  BY DEF DstObject, File, Dir
<1>3. /\ disk' \in Seq(DstObject)
      /\ Len(disk') = Len(disk)
      /\ \A j \in 1 .. Len(disk) : disk'[j] = IF j = i THEN File(bytes) ELSE disk[j]
  BY <1>1, <1>2
<1>4. \A j \in 1 .. Len(disk) : disk'[j] = Dir <=> disk[j] = Dir
  BY <1>2, <1>3
<1>5. \A q \in Paths : dst[q] # 0 => dst[q] \in 1 .. Len(disk)
  BY <1>1
<1>6. \A q \in Paths : Parent[q] # 0 => Parent[q] \in Paths
  BY ParentAssumption DEF Paths
<1> QED
  BY <1>1, <1>3, <1>4, <1>5, <1>6 DEF IsTree

(* A name removed that is not a directory's. *)
LEMMA NameRemoved ==
  ASSUME IsTree(dst, disk), NEW p \in Paths, TypeAt(p) # "dir",
         dst' = [dst EXCEPT ![p] = 0],
         disk' = disk
  PROVE  IsTree(dst', disk')
<1>1. disk \in Seq(DstObject) /\ dst \in [Paths -> 0 .. Len(disk)]
  BY DEF IsTree
<1>2. \A q \in Paths : dst'[q] = IF q = p THEN 0 ELSE dst[q]
  BY <1>1
<1>3. dst' \in [Paths -> 0 .. Len(disk')]
  BY <1>1
<1>4. \A q \in Paths : Parent[q] # 0 => Parent[q] \in Paths
  BY ParentAssumption DEF Paths
<1>5. ~(dst[p] # 0 /\ disk[dst[p]] = Dir)
  BY ObjectTypes
<1> QED
  BY <1>1, <1>2, <1>3, <1>4, <1>5 DEF IsTree

(* A second name for an inode that is not a directory. *)
LEMMA NameAdded ==
  ASSUME IsTree(dst, disk), NEW p \in Paths, NEW x \in Paths,
         TypeAt(x) \in {"file", "link", "other"}, Free(p),
         dst' = [dst EXCEPT ![p] = dst[x]],
         disk' = disk
  PROVE  IsTree(dst', disk')
<1>1. disk \in Seq(DstObject) /\ dst \in [Paths -> 0 .. Len(disk)]
  BY DEF IsTree
<1>2. \A q \in Paths : dst'[q] = IF q = p THEN dst[x] ELSE dst[q]
  BY <1>1
<1>3. dst' \in [Paths -> 0 .. Len(disk')]
  BY <1>1
<1>4. \A q \in Paths : Parent[q] # 0 => Parent[q] \in Paths
  BY ParentAssumption DEF Paths
<1>5. dst[x] # 0 /\ disk[dst[x]] # Dir
  BY ObjectTypes
<1>6. dst[p] = 0 /\ x # p
  BY <1>5 DEF Free
<1>7. Parent[p] # 0 => dst[Parent[p]] # 0 /\ disk[dst[Parent[p]]] = Dir
  BY <1>4, ObjectTypes DEF Free
<1>8. ASSUME NEW q \in Paths, dst'[q] # 0, Parent[q] # 0
      PROVE  dst'[Parent[q]] # 0 /\ disk'[dst'[Parent[q]]] = Dir
  <2>1. dst[Parent[q]] # 0 /\ disk[dst[Parent[q]]] = Dir
    BY <1>2, <1>7, <1>8 DEF IsTree
  <2>2. Parent[q] \in Paths /\ Parent[q] # p
    BY <1>4, <1>6, <1>8, <2>1
  <2> QED
    BY <1>2, <2>1, <2>2
<1>9. ASSUME NEW q \in Paths, NEW r \in Paths, q # r, dst'[q] # 0, dst'[q] = dst'[r]
      PROVE  disk'[dst'[q]] # Dir
  BY <1>2, <1>5, <1>9 DEF IsTree
<1> QED
  BY <1>1, <1>3, <1>8, <1>9 DEF IsTree

-----------------------------------------------------------------------------
(***************************************************************************)
(* The calls of the walk keep the tree.                                     *)
(***************************************************************************)

(* A chain of links that begins at a path which is no link stays there. *)
LEMMA ChainOfOne ==
  ASSUME NEW p \in Paths, TypeAt(p) # "link", NEW t \in Chain(p)
  PROVE  t = p
<1>1. {p} \in SUBSET Paths
  OBVIOUS
<1>2. \A x \in {p} : TypeAt(x) = "link" => ObjAt(x).to \in {p} \cup {0}
  OBVIOUS
<1> QED
  BY <1>1, <1>2 DEF Chain

(* What stat(2) finds has a name, and file_exist() fails on a free one. *)
LEMMA FoundIsThere ==
  ASSUME IsTree(dst, disk), NEW p \in Paths, NEW t \in Found(p)
  PROVE  /\ t \in Paths
         /\ dst[p] # 0
         /\ TypeAt(t) = "file" => dst[t] \in 1 .. Len(disk) /\ disk[dst[t]] # Dir
<1>1. t \in Paths /\ t \in Chain(p) /\ TypeAt(t) \in {"file", "dir", "other"}
  BY DEF Found, Chain
<1>2. dst[p] # 0
  <2>1. SUFFICES ASSUME dst[p] = 0 PROVE FALSE
    OBVIOUS
  <2>2. TypeAt(p) = "none"
    BY <2>1, ObjectTypes
  <2>3. t = p
    BY <1>1, <2>2, ChainOfOne
  <2> QED
    BY <1>1, <2>2, <2>3
<1>3. TypeAt(t) = "file" => dst[t] \in 1 .. Len(disk) /\ disk[dst[t]] # Dir
  BY <1>1, ObjectTypes
<1> QED
  BY <1>1, <1>2, <1>3

LEMMA CreateKeepsTree ==
  ASSUME IsTree(dst, disk), NEW p \in Paths, NEW obj \in DstObject, Create(p, obj)
  PROVE  IsTree(dst', disk')
<1>1. CASE UNCHANGED <<dst, disk>>
  BY <1>1
<1>2. CASE /\ Free(p)
           /\ disk' = Append(disk, obj)
           /\ dst' = [dst EXCEPT ![p] = Len(disk) + 1]
  <2>1. TypeAt(p) # "dir"
    BY <1>2, ObjectTypes DEF Free
  <2>2. Parent[p] # 0 => TypeAt(Parent[p]) = "dir"
    BY <1>2 DEF Free
  <2> QED
    BY <1>2, <2>1, <2>2, NewInode
<1> QED
  BY <1>1, <1>2 DEF Create

LEMMA CopyFileKeepsTree ==
  ASSUME IsTree(dst, disk), NEW p \in Paths, NEW bytes \in Contents \cup {Torn},
         CopyFile(p, bytes)
  PROVE  IsTree(dst', disk')
<1>1. ASSUME NEW t \in Found(p), TypeAt(t) = "file",
             disk' = [disk EXCEPT ![dst[t]] = File(bytes)], UNCHANGED dst
      PROVE  IsTree(dst', disk')
  <2>1. dst[t] \in 1 .. Len(disk) /\ disk[dst[t]] # Dir
    BY <1>1, FoundIsThere
  <2> QED
    BY <1>1, <2>1, NewBytes
<1>2. CASE UNCHANGED <<dst, disk>>
  BY <1>2
<1>3. CASE Create(p, File(bytes))
  <2>1. File(bytes) \in DstObject
    BY DEF DstObject
  <2> QED
    BY <1>3, <2>1, CreateKeepsTree
<1> QED
  BY <1>1, <1>2, <1>3 DEF CopyFile

LEMMA CopyLinkKeepsTree ==
  ASSUME IsTree(dst, disk), NEW p \in Paths, src[p].obj \in DstObject, CopyLink(p)
  PROVE  IsTree(dst', disk')
<1>1. ASSUME Exists(p), TypeAt(p) # "dir"
      PROVE  Parent[p] # 0 => TypeAt(Parent[p]) = "dir"
  <2>1. dst[p] # 0
    BY <1>1, FoundIsThere DEF Exists
  <2>2. Parent[p] # 0 => Parent[p] \in Paths
    BY ParentAssumption DEF Paths
  <2>3. Parent[p] # 0 => dst[Parent[p]] # 0 /\ disk[dst[Parent[p]]] = Dir
    BY <2>1 DEF IsTree
  <2> QED
    BY <2>2, <2>3, ObjectTypes
<1>2. CASE /\ Exists(p)
           /\ TypeAt(p) # "dir"
           /\ disk' = Append(disk, src[p].obj)
           /\ dst' = [dst EXCEPT ![p] = Len(disk) + 1]
  BY <1>1, <1>2, NewInode
<1>3. CASE /\ Exists(p)
           /\ TypeAt(p) # "dir"
           /\ dst' = [dst EXCEPT ![p] = 0]
           /\ UNCHANGED disk
  BY <1>3, NameRemoved
<1>4. CASE UNCHANGED <<dst, disk>>
  BY <1>4
<1>5. CASE Create(p, src[p].obj)
  BY <1>5, CreateKeepsTree
<1> QED
  BY <1>2, <1>3, <1>4, <1>5 DEF CopyLink

LEMMA HardlinkKeepsTree ==
  ASSUME IsTree(dst, disk), NEW p \in Paths, NEW x \in Paths, Hardlink(x, p)
  PROVE  IsTree(dst', disk')
<1>1. CASE UNCHANGED <<dst, disk>>
  BY <1>1
<1>2. CASE /\ TypeAt(x) \in {"file", "link", "other"}
           /\ Free(p)
           /\ dst' = [dst EXCEPT ![p] = dst[x]]
           /\ UNCHANGED disk
  BY <1>2, NameAdded
<1> QED
  BY <1>1, <1>2 DEF Hardlink

-----------------------------------------------------------------------------
(***************************************************************************)
(* The package, and the inode table.                                        *)
(***************************************************************************)

(* What an entry of the package may be, and what is then written. *)
LEMMA PackageEntry ==
  ASSUME SourceTree(src), NEW p \in Paths
  PROVE  /\ src[p].ino \in Nat
         /\ AsInt(src[p].ino) \in Int
         /\ src[p].obj.type = "file" /\ Readable(p)
              => src[p].obj.data \in Contents /\ src[p].obj = File(src[p].obj.data)
         /\ src[p].obj.type = "link" => src[p].obj \in DstObject
         /\ src[p].obj.type \in {"file", "link"} => Packaged(p) /\ src[p].obj # Dir
         /\ src[p].obj = Dir => Packaged(p) /\ ~HardLinked(p)
<1>1. src[p] \in Entry
  BY DEF SourceTree
<1>2. src[p].ino \in Nat /\ src[p].obj \in SrcObject
  BY <1>1 DEF Entry
<1>3. AsInt(src[p].ino) \in Int
  BY <1>2, DataAssumption DEF AsInt
<1>4. src[p].obj.type = "file" /\ Readable(p)
        => src[p].obj.data \in Contents /\ src[p].obj = File(src[p].obj.data)
  BY <1>2 DEF SrcObject, Symlinks, File, Symlink, Dir, Other, Nothing, Readable
<1>5. src[p].obj.type = "link" => src[p].obj \in DstObject
  BY <1>2 DEF SrcObject, DstObject, Symlinks, File, Symlink, Dir, Other, Nothing
<1>6. src[p].obj.type \in {"file", "link"} => Packaged(p) /\ src[p].obj # Dir
  BY DEF Packaged, Other, Nothing, Dir
<1>7. src[p].obj = Dir => Packaged(p)
  BY DEF Packaged, Other, Nothing, Dir
<1>8. src[p].obj = Dir => ~HardLinked(p)
  <2>1. Dir # Nothing
    BY DEF Dir, Nothing
  <2> QED
    BY <2>1 DEF SourceTree, HardLinked
<1> QED
  BY <1>2, <1>3, <1>4, <1>5, <1>6, <1>7, <1>8

(* in_search() finds the entry of an inode number if the table has one. *)
LEMMA SearchFinds ==
  ASSUME in_list \in Seq([old_ino : Int, hlink : Paths]), TableSound, NEW ino \in Nat
  PROVE  /\ in_search(ino) = 0 <=> \A j \in DOMAIN in_list : in_list[j].old_ino # AsInt(ino)
         /\ in_search(ino) # 0 =>
              \E j \in DOMAIN in_list :
                in_list[j].old_ino = AsInt(ino) /\ in_list[j].hlink = in_search(ino)
<1> DEFINE hits  == {j \in DOMAIN in_list : in_list[j].old_ino = AsInt(ino)}
           first == CHOOSE j \in hits : \A k \in hits : j <= k
<1>1. \A j \in DOMAIN in_list : in_list[j].hlink \in Paths /\ in_list[j].hlink # 0 /\ j \in Int
  <2> DEFINE Line == [old_ino : Int, hlink : Paths]
  <2>1. \A x \in Line : x.hlink \in Paths
    OBVIOUS
  <2>2. in_list \in Seq(Line)
    OBVIOUS
  <2> HIDE DEF Line
  <2>3. \A j \in DOMAIN in_list : j \in Int /\ in_list[j] \in Line
    BY <2>2
  <2>4. 0 \notin Paths
    BY DEF Paths
  <2> QED
    BY <2>1, <2>3, <2>4
<1>2. \A j, k \in hits : j = k
  BY DEF TableSound
<1>3. hits # {} => first \in hits
  <2>1. ASSUME NEW j \in hits PROVE \A k \in hits : j <= k
    BY <1>1, <1>2
  <2> QED
    BY <2>1
<1>4. in_search(ino) = IF hits = {} THEN 0 ELSE in_list[first].hlink
  BY DEF in_search
<1> HIDE DEF first
<1>5. CASE hits = {}
  BY <1>4, <1>5
<1>6. CASE hits # {}
  BY <1>1, <1>3, <1>4, <1>6
<1> QED
  BY <1>5, <1>6

(* An entry is passed that needs no new line in the table. *)
LEMMA TableKept ==
  ASSUME TypeOK, TableSound, NEW p \in Paths, Visit(p), UNCHANGED in_list,
         Packaged(p) /\ HardLinked(p) => in_search(src[p].ino) # 0
  PROVE  TableSound'
<1>1. pos = p /\ pos' = p + 1 /\ src' = src /\ in_list' = in_list /\ p \in Int
  BY DEF Visit, Paths
<1>2. Copied \subseteq Copied' /\ Copied' \subseteq Copied \cup {p} /\ (p \in Copied' => Packaged(p))
  BY <1>1 DEF Copied, Packaged, Paths
<1>3. ASSUME p \in Copied', HardLinked(p)
      PROVE  \E j \in DOMAIN in_list : in_list[j].old_ino = AsInt(src[p].ino)
  BY <1>2, <1>3, SearchFinds, PackageEntry DEF TypeOK
<1>4. \A q \in Paths : HardLinked(q)' <=> HardLinked(q)
  BY <1>1 DEF HardLinked
<1>5. \A q \in Copied' : HardLinked(q)'
        => \E j \in DOMAIN in_list' : in_list'[j].old_ino = AsInt(src'[q].ino)
  BY <1>1, <1>2, <1>3, <1>4 DEF TableSound, Copied
<1> QED
  BY <1>1, <1>2, <1>5 DEF TableSound, AsInt

(* The first name of an inode is remembered. *)
LEMMA TableGrows ==
  ASSUME TypeOK, TableSound, NEW p \in Paths, Visit(p), Packaged(p),
         in_search(src[p].ino) = 0, in_append(src[p].ino, p)
  PROVE  TableSound' /\ in_list' \in Seq([old_ino : Int, hlink : Paths])
<1> DEFINE new == [old_ino |-> AsInt(src[p].ino), hlink |-> p]
<1>1. pos = p /\ pos' = p + 1 /\ src' = src /\ p \in Int
  BY DEF Visit, Paths
<1>2. Copied' = Copied \cup {p}
  BY <1>1 DEF Copied, Packaged, Paths
<1>3. in_list \in Seq([old_ino : Int, hlink : Paths]) /\ new \in [old_ino : Int, hlink : Paths]
  BY PackageEntry DEF TypeOK
<1>4. in_list' = Append(in_list, new)
  BY DEF in_append
<1> HIDE DEF new
<1>5. /\ in_list' \in Seq([old_ino : Int, hlink : Paths])
      /\ DOMAIN in_list' = DOMAIN in_list \cup {Len(in_list) + 1}
      /\ \A j \in DOMAIN in_list : in_list'[j] = in_list[j]
      /\ in_list'[Len(in_list) + 1] = new
  BY <1>3, <1>4
<1>6. new.old_ino = AsInt(src[p].ino) /\ new.hlink = p
  BY DEF new
<1>7. \A j \in DOMAIN in_list : in_list[j].old_ino # AsInt(src[p].ino)
  BY <1>3, SearchFinds, PackageEntry DEF TypeOK
<1>8. \A j \in DOMAIN in_list' :
        /\ in_list'[j].hlink \in Copied'
        /\ AsInt(src'[in_list'[j].hlink].ino) = in_list'[j].old_ino
  BY <1>1, <1>2, <1>5, <1>6 DEF TableSound
<1>9. \A j, k \in DOMAIN in_list' : in_list'[j].old_ino = in_list'[k].old_ino => j = k
  BY <1>5, <1>6, <1>7 DEF TableSound
<1>10. \A q \in Copied' : HardLinked(q)'
         => \E j \in DOMAIN in_list' : in_list'[j].old_ino = AsInt(src'[q].ino)
  BY <1>1, <1>2, <1>5, <1>6 DEF TableSound, HardLinked, Copied
<1> QED
  BY <1>5, <1>8, <1>9, <1>10 DEF TableSound, AsInt

-----------------------------------------------------------------------------
(***************************************************************************)
(* The invariant of every walk.  The prefix stays a tree because the calls  *)
(* of copy() keep it one.                                                   *)
(***************************************************************************)
RootIsTree == IsTree(dst, disk)
WalkInv == TypeOK /\ RootIsTree /\ TableSound

LEMMA InitWalkInv == Init => WalkInv
<1> SUFFICES ASSUME Init PROVE WalkInv
  OBVIOUS
<1>1. SourceTree(src) /\ IsTree(dst, disk)
  BY TreeAssumption DEF Init
<1>2. TypeOK
  <2>1. pos = 1 /\ stuck = FALSE /\ in_list = <<>> /\ log = <<>>
    BY DEF Init
  <2>2. pos \in 1 .. N + 1
    BY <2>1, ParentAssumption
  <2>3. disk \in Seq(DstObject) /\ dst \in [Paths -> 0 .. Len(disk)]
    BY <1>1 DEF IsTree
  <2>4. in_list \in Seq([old_ino : Int, hlink : Paths]) /\ log \in Seq(Paths)
    <3>1. \A S : <<>> \in Seq(S)
      OBVIOUS
    <3> QED
      BY <2>1, <3>1
  <2> QED
    BY <1>1, <2>1, <2>2, <2>3, <2>4 DEF TypeOK
<1>3. TableSound
  <2>1. in_list = <<>> /\ pos = 1
    BY DEF Init
  <2>2. Copied = {}
    BY <2>1 DEF Copied, Paths
  <2> QED
    BY <2>1, <2>2 DEF TableSound
<1> QED
  BY <1>1, <1>2, <1>3 DEF WalkInv, RootIsTree

(* An iteration that goes on to the next entry keeps the types. *)
LEMMA VisitKeepsTypes ==
  ASSUME TypeOK, NEW p \in Paths, Visit(p), IsTree(dst', disk'),
         UNCHANGED log \/ Callback(p),
         in_list' \in Seq([old_ino : Int, hlink : Paths])
  PROVE  TypeOK'
<1>1. pos' \in 1 .. N + 1
  BY ParentAssumption DEF Visit, Paths
<1>2. src' = src /\ stuck' = stuck /\ log' \in {log, Append(log, p)}
  BY DEF Visit, Callback
<1>3. SourceTree(src') /\ stuck' \in BOOLEAN
  BY <1>2 DEF TypeOK
<1>4. log' \in Seq(Paths)
  <2>1. log \in Seq(Paths)
    BY DEF TypeOK
  <2>2. Append(log, p) \in Seq(Paths)
    BY <2>1
  <2> QED
    BY <1>2, <2>1, <2>2
<1>5. disk' \in Seq(DstObject) /\ dst' \in [Paths -> 0 .. Len(disk')]
  BY DEF IsTree
<1> QED
  BY <1>1, <1>3, <1>4, <1>5 DEF TypeOK

(* copy_file() or copy_link() on an entry that can be read keeps the tree. *)
LEMMA CopyNodeKeepsTree ==
  ASSUME WalkInv, NEW p \in Paths, Readable(p), CopyNode(p)
  PROVE  IsTree(dst', disk')
<1>1. IsTree(dst, disk) /\ SourceTree(src)
  BY DEF WalkInv, TypeOK, RootIsTree
<1>2. CASE /\ src[p].obj.type = "file"
           /\ \E bytes \in Written(src[p].obj.data) : CopyFile(p, bytes)
  <2>1. src[p].obj.data \in Contents
    BY <1>1, <1>2, PackageEntry
  <2>2. PICK bytes \in Written(src[p].obj.data) : CopyFile(p, bytes)
    BY <1>2
  <2>3. bytes \in Contents \cup {Torn}
    BY <2>1 DEF Written
  <2> QED
    BY <1>1, <2>2, <2>3, CopyFileKeepsTree
<1>3. CASE src[p].obj.type = "link" /\ CopyLink(p)
  BY <1>1, <1>3, PackageEntry, CopyLinkKeepsTree
<1> QED
  BY <1>2, <1>3 DEF CopyNode

LEMMA NextWalkInv == WalkInv /\ [Next]_vars => WalkInv'
<1> SUFFICES ASSUME WalkInv, [Next]_vars PROVE WalkInv'
  OBVIOUS
<1>1. TypeOK /\ TableSound /\ IsTree(dst, disk) /\ SourceTree(src)
  BY DEF WalkInv, TypeOK, RootIsTree
<1>2. in_list \in Seq([old_ino : Int, hlink : Paths])
  BY <1>1 DEF TypeOK
<1>3. ASSUME NEW p \in Paths, VisitDir(p) PROVE WalkInv'
  <2>1. IsTree(dst', disk')
    <3>1. Dir \in DstObject
      BY DEF DstObject
    <3> QED
      BY <1>1, <1>3, <3>1, CreateKeepsTree DEF VisitDir
  <2>2. Visit(p) /\ UNCHANGED in_list /\ Callback(p) /\ ~HardLinked(p)
    BY <1>1, <1>3, PackageEntry DEF VisitDir
  <2> QED
    BY <1>1, <1>2, <2>1, <2>2, TableKept, VisitKeepsTypes DEF WalkInv, RootIsTree
<1>4. ASSUME NEW p \in Paths, VisitNode(p) PROVE WalkInv'
  <2>1. IsTree(dst', disk')
    BY <1>4, CopyNodeKeepsTree DEF VisitNode
  <2>2. Visit(p) /\ UNCHANGED in_list /\ Callback(p) /\ ~HardLinked(p)
    BY <1>4 DEF VisitNode
  <2> QED
    BY <1>1, <1>2, <2>1, <2>2, TableKept, VisitKeepsTypes DEF WalkInv, RootIsTree
<1>5. ASSUME NEW p \in Paths, VisitFirstName(p) PROVE WalkInv'
  <2>1. IsTree(dst', disk')
    BY <1>5, CopyNodeKeepsTree DEF VisitFirstName
  <2>2. /\ Visit(p) /\ Callback(p) /\ Packaged(p)
        /\ in_search(src[p].ino) = 0
        /\ in_append(src[p].ino, p)
    BY <1>1, <1>5, PackageEntry DEF VisitFirstName
  <2>3. TableSound' /\ in_list' \in Seq([old_ino : Int, hlink : Paths])
    BY <1>1, <2>2, TableGrows
  <2> QED
    BY <1>1, <2>1, <2>2, <2>3, VisitKeepsTypes DEF WalkInv, RootIsTree
<1>6. ASSUME NEW p \in Paths, VisitLaterName(p) PROVE WalkInv'
  <2>1. in_search(src[p].ino) \in Paths
    <3>1. PICK j \in DOMAIN in_list : in_list[j].hlink = in_search(src[p].ino)
      BY <1>1, <1>2, <1>6, SearchFinds, PackageEntry DEF VisitLaterName
    <3> QED
      BY <1>1, <3>1 DEF TableSound, Copied
  <2>2. IsTree(dst', disk')
    BY <1>1, <1>6, <2>1, HardlinkKeepsTree DEF VisitLaterName
  <2>3. Visit(p) /\ UNCHANGED in_list /\ Callback(p) /\ in_search(src[p].ino) # 0
    BY <1>6 DEF VisitLaterName
  <2> QED
    BY <1>1, <1>2, <2>2, <2>3, TableKept, VisitKeepsTypes DEF WalkInv, RootIsTree
<1>7. ASSUME NEW p \in Paths, Skip(p) PROVE WalkInv'
  <2>1. IsTree(dst', disk')
    BY <1>1, <1>7 DEF Skip
  <2>2. Visit(p) /\ UNCHANGED <<in_list, log>> /\ ~Packaged(p)
    BY <1>7 DEF Skip, Packaged
  <2> QED
    BY <1>1, <1>2, <2>1, <2>2, TableKept, VisitKeepsTypes DEF WalkInv, RootIsTree
<1>8. ASSUME NEW p \in Paths, Spin(p) PROVE WalkInv'
  <2>1. IsTree(dst', disk')
    BY <1>1, <1>8, CopyFileKeepsTree DEF Spin
  <2>2. TypeOK'
    BY <1>1, <1>8, <2>1 DEF Spin, TypeOK, IsTree
  <2>3. TableSound'
    BY <1>1, <1>8 DEF Spin, TableSound, Copied, Packaged, HardLinked, AsInt
  <2> QED
    BY <2>1, <2>2, <2>3 DEF WalkInv, RootIsTree
<1>9. ASSUME NEW p \in Paths, Block(p) PROVE WalkInv'
  <2>1. /\ src' = src /\ dst' = dst /\ disk' = disk /\ pos' = pos
        /\ in_list' = in_list /\ log' = log /\ stuck' = TRUE
    BY <1>9 DEF Block
  <2>2. TypeOK' /\ RootIsTree'
    BY <1>1, <2>1 DEF TypeOK, RootIsTree
  <2>3. TableSound'
    BY <1>1, <2>1 DEF TableSound, Copied, Packaged, HardLinked, AsInt
  <2> QED
    BY <2>2, <2>3 DEF WalkInv
<1>10. CASE UNCHANGED vars
  BY <1>1, <1>10
     DEF vars, WalkInv, RootIsTree, TypeOK, TableSound, Copied, Packaged, HardLinked, AsInt
<1> QED
  BY <1>3, <1>4, <1>5, <1>6, <1>7, <1>8, <1>9, <1>10 DEF Next

(* The inductive invariant of the walk holds over any prefix. *)
THEOREM WalkInvariant == Spec => []WalkInv
<1> QED
  BY InitWalkInv, NextWalkInv, PTL DEF Spec

(***************************************************************************)
(* Type correctness of the walk over any prefix, with any call failing.     *)
(***************************************************************************)
THEOREM TypeCorrect == Spec => []TypeOK
<1>1. WalkInv => TypeOK
  BY DEF WalkInv
<1> QED
  BY <1>1, WalkInvariant, PTL

(***************************************************************************)
(* The table of in_list.c has one line for every inode number met, naming a *)
(* path copied from an inode of that number, whatever int does to numbers.  *)
(***************************************************************************)
THEOREM TableStaysSound == Spec => []TableSound
<1>1. WalkInv => TableSound
  BY DEF WalkInv
<1> QED
  BY <1>1, WalkInvariant, PTL

-----------------------------------------------------------------------------
(***************************************************************************)
(* What a step may change: the visited path, and the names of the inode     *)
(* that the visited path leads to.                                          *)
(***************************************************************************)

(* The other names are not touched, and neither are the inodes there were. *)
LEMMA OtherNamesKept ==
  ASSUME IsTree(dst, disk), NEW p \in Paths, NEW q \in Paths, q # p,
         NEW i, dst' = [dst EXCEPT ![p] = i],
         disk' = disk \/ \E obj \in DstObject : disk' = Append(disk, obj)
  PROVE  ObjAt(q)' = ObjAt(q)
<1>1. disk \in Seq(DstObject) /\ dst \in [Paths -> 0 .. Len(disk)]
  BY DEF IsTree
<1>2. dst'[q] = dst[q] /\ dst[q] \in 0 .. Len(disk)
  BY <1>1
<1>3. \A j \in 1 .. Len(disk) : disk'[j] = disk[j]
  BY <1>1
<1> QED
  BY <1>2, <1>3 DEF ObjAt

LEMMA CreateKeepsOthers ==
  ASSUME IsTree(dst, disk), NEW p \in Paths, NEW q \in Paths, q # p,
         NEW obj \in DstObject, Create(p, obj)
  PROVE  ObjAt(q)' = ObjAt(q)
<1>1. CASE UNCHANGED <<dst, disk>>
  BY <1>1 DEF ObjAt
<1>2. CASE /\ disk' = Append(disk, obj)
           /\ dst' = [dst EXCEPT ![p] = Len(disk) + 1]
  BY <1>2, OtherNamesKept
<1> QED
  BY <1>1, <1>2 DEF Create

LEMMA CopyFileKeepsOthers ==
  ASSUME IsTree(dst, disk), NEW p \in Paths, NEW q \in Paths, q # p,
         NEW bytes \in Contents \cup {Torn}, CopyFile(p, bytes),
         \A t \in Found(p) : dst[q] # dst[t]
  PROVE  ObjAt(q)' = ObjAt(q)
<1>1. ASSUME NEW t \in Found(p),
             disk' = [disk EXCEPT ![dst[t]] = File(bytes)], UNCHANGED dst
      PROVE  ObjAt(q)' = ObjAt(q)
  <2>1. disk \in Seq(DstObject) /\ dst[q] \in 0 .. Len(disk) /\ dst[q] # dst[t]
    BY DEF IsTree
  <2>2. dst[q] # 0 => disk'[dst[q]] = disk[dst[q]]
    BY <1>1, <2>1
  <2> QED
    BY <1>1, <2>2 DEF ObjAt
<1>2. CASE UNCHANGED <<dst, disk>>
  BY <1>2 DEF ObjAt
<1>3. CASE Create(p, File(bytes))
  <2>1. File(bytes) \in DstObject
    BY DEF DstObject
  <2> QED
    BY <1>3, <2>1, CreateKeepsOthers
<1> QED
  BY <1>1, <1>2, <1>3 DEF CopyFile

LEMMA CopyLinkKeepsOthers ==
  ASSUME IsTree(dst, disk), NEW p \in Paths, NEW q \in Paths, q # p,
         src[p].obj \in DstObject, CopyLink(p)
  PROVE  ObjAt(q)' = ObjAt(q)
<1>1. CASE /\ disk' = Append(disk, src[p].obj)
           /\ dst' = [dst EXCEPT ![p] = Len(disk) + 1]
  BY <1>1, OtherNamesKept
<1>2. CASE /\ dst' = [dst EXCEPT ![p] = 0]
           /\ UNCHANGED disk
  BY <1>2, OtherNamesKept
<1>3. CASE UNCHANGED <<dst, disk>>
  BY <1>3 DEF ObjAt
<1>4. CASE Create(p, src[p].obj)
  BY <1>4, CreateKeepsOthers
<1> QED
  BY <1>1, <1>2, <1>3, <1>4 DEF CopyLink

LEMMA HardlinkKeepsOthers ==
  ASSUME IsTree(dst, disk), NEW p \in Paths, NEW q \in Paths, q # p,
         NEW x, Hardlink(x, p)
  PROVE  ObjAt(q)' = ObjAt(q)
<1>1. CASE UNCHANGED <<dst, disk>>
  BY <1>1 DEF ObjAt
<1>2. CASE /\ dst' = [dst EXCEPT ![p] = dst[x]]
           /\ UNCHANGED disk
  BY <1>2, OtherNamesKept
<1> QED
  BY <1>1, <1>2 DEF Hardlink

LEMMA CopyNodeKeepsOthers ==
  ASSUME WalkInv, NEW p \in Paths, NEW q \in Paths, q # p, Readable(p), CopyNode(p),
         \A t \in Found(p) : dst[q] # dst[t]
  PROVE  ObjAt(q)' = ObjAt(q)
<1>1. IsTree(dst, disk) /\ SourceTree(src)
  BY DEF WalkInv, TypeOK, RootIsTree
<1>2. CASE /\ src[p].obj.type = "file"
           /\ \E bytes \in Written(src[p].obj.data) : CopyFile(p, bytes)
  <2>1. src[p].obj.data \in Contents
    BY <1>1, <1>2, PackageEntry
  <2>2. PICK bytes \in Written(src[p].obj.data) : CopyFile(p, bytes)
    BY <1>2
  <2>3. bytes \in Contents \cup {Torn}
    BY <2>1 DEF Written
  <2> QED
    BY <1>1, <2>2, <2>3, CopyFileKeepsOthers
<1>3. CASE src[p].obj.type = "link" /\ CopyLink(p)
  BY <1>1, <1>3, PackageEntry, CopyLinkKeepsOthers
<1> QED
  BY <1>2, <1>3 DEF CopyNode

(***************************************************************************)
(* A step changes what another path shows only when that path is a name of  *)
(* the inode the visited path leads to, over any prefix.                    *)
(***************************************************************************)
THEOREM OthersKept == Spec => BystandersKept
<1> DEFINE Kept == \A q \in Paths :
                     ObjAt(q)' # ObjAt(q) =>
                       q = pos \/ \E t \in Found(pos) : dst[q] = dst[t]
<1>1. WalkInv /\ [Next]_vars => [Kept]_vars
  <2> SUFFICES ASSUME WalkInv, Next, NEW q \in Paths, q # pos,
                      \A t \in Found(pos) : dst[q] # dst[t]
               PROVE  ObjAt(q)' = ObjAt(q)
    OBVIOUS
  <2>1. IsTree(dst, disk) /\ SourceTree(src)
    BY DEF WalkInv, TypeOK, RootIsTree
  <2>2. ASSUME NEW p \in Paths, VisitDir(p) PROVE ObjAt(q)' = ObjAt(q)
    <3>1. pos = p /\ (UNCHANGED <<dst, disk>> \/ Create(p, Dir)) /\ Dir \in DstObject
      BY <2>2 DEF VisitDir, Visit, DstObject
    <3> QED
      BY <2>1, <3>1, CreateKeepsOthers DEF ObjAt
  <2>3. ASSUME NEW p \in Paths, VisitNode(p) \/ VisitFirstName(p)
        PROVE  ObjAt(q)' = ObjAt(q)
    <3>1. pos = p /\ Readable(p) /\ CopyNode(p)
      BY <2>3 DEF VisitNode, VisitFirstName, Visit
    <3> QED
      BY <3>1, CopyNodeKeepsOthers
  <2>4. ASSUME NEW p \in Paths, VisitLaterName(p) PROVE ObjAt(q)' = ObjAt(q)
    <3>1. pos = p /\ Hardlink(in_search(src[p].ino), p)
      BY <2>4 DEF VisitLaterName, Visit
    <3> QED
      BY <2>1, <3>1, HardlinkKeepsOthers
  <2>5. ASSUME NEW p \in Paths, Skip(p) PROVE ObjAt(q)' = ObjAt(q)
    BY <2>5 DEF Skip, ObjAt
  <2>6. ASSUME NEW p \in Paths, Spin(p) PROVE ObjAt(q)' = ObjAt(q)
    <3>1. pos = p /\ CopyFile(p, Torn)
      BY <2>6 DEF Spin
    <3> QED
      BY <2>1, <3>1, CopyFileKeepsOthers
  <2>7. ASSUME NEW p \in Paths, Block(p) PROVE ObjAt(q)' = ObjAt(q)
    BY <2>7 DEF Block, ObjAt
  <2> QED
    BY <2>2, <2>3, <2>4, <2>5, <2>6, <2>7 DEF Next
<1> QED
  BY <1>1, WalkInvariant, PTL DEF Spec, BystandersKept
=============================================================================
