-------------------------- MODULE CopyUpgradeProofs --------------------------
(***************************************************************************)
(* Over a prefix it can be laid over, a package is installed as it is: the  *)
(* proof of ContentFaithful and HardLinksPreserved.                         *)
(*                                                                          *)
(* Neither is inductive.  The invariant adds that the part of the prefix    *)
(* the walk has yet to visit stays compatible with the package              *)
(* (AheadCompatible), and the soundness of the inode table, which is how    *)
(* copy_hlink() knows which path a later name must be linked to.            *)
(***************************************************************************)
EXTENDS CopyProofs

Laid  == ContentFaithful /\ HardLinksPreserved /\ AheadCompatible
UpInv == WalkInv /\ InodesFitInt /\ Laid

(* What a step must do to the visited path, and leave alone elsewhere. *)
LEMMA LaidKept ==
  ASSUME UpInv, ~stuck, NEW p \in Paths, pos = p, pos' = p + 1, src' = src, Packaged(p),
         \A q \in Paths : q # p => dst'[q] = dst[q],
         \A q \in Copied : ObjAt(q)' = ObjAt(q),
         \A q \in Paths : q # p =>
           TypeAt(q)' = TypeAt(q) /\ (TypeAt(q) = "link" => ObjAt(q)' = ObjAt(q)),
         TypeAt(p) \in {"file", "dir"} => TypeAt(p)' \in {"file", "dir"},
         Faithful(p)',
         \A q \in Copied : dst'[p] # 0 /\ dst[q] # 0
           => (dst'[p] = dst[q] <=> src[p].ino = src[q].ino),
         \A r \in Paths : r > p /\ Packaged(r) /\ dst[r] # 0 /\ TypeAt(r) = "file" =>
           /\ dst'[p] # 0 => (dst[r] = dst'[p] <=> src[r].ino = src[p].ino)
           /\ src[r].ino = src[p].ino => dst'[p] # 0
  PROVE  Laid'
<1>1. Copied' = Copied \cup {p} /\ p \notin Copied /\ Copied \subseteq Paths
  BY DEF Copied, Packaged, Paths
<1>2. ContentFaithful'
  <2>1. ASSUME NEW q \in Copied PROVE Faithful(q)'
    BY <2>1 DEF UpInv, Laid, ContentFaithful, Faithful
  <2> QED
    BY <1>1, <2>1 DEF ContentFaithful
<1>3. HardLinksPreserved'
  <2>1. ASSUME NEW q \in Copied', NEW r \in Copied', dst'[q] # 0, dst'[r] # 0
        PROVE  dst'[q] = dst'[r] <=> src[q].ino = src[r].ino
    <3>1. CASE q # p /\ r # p
      BY <1>1, <2>1, <3>1 DEF UpInv, Laid, HardLinksPreserved
    <3>2. CASE q = p \/ r = p
      BY <1>1, <2>1, <3>2
    <3> QED
      BY <3>1, <3>2
  <2> QED
    BY <2>1 DEF HardLinksPreserved
<1>4. AheadCompatible'
  <2>1. SUFFICES ASSUME NEW r \in Paths, r >= p + 1, Packaged(r), dst'[r] # 0
                 PROVE  Compatible(r)'
    BY DEF AheadCompatible, Packaged
  <2>2. r # p /\ r > p /\ r >= pos /\ dst[r] # 0
    BY <2>1 DEF Paths
  <2>3. Compatible(r)
    BY <2>1, <2>2 DEF UpInv, Laid, AheadCompatible
  <2>4. TypeAt(r)' = src[r].obj.type
    BY <2>2, <2>3 DEF Compatible
  <2>5. TypeAt(r)' = "link" => ~HardLinked(r)' /\ LeadsToFileOrDir(r)'
    <3>1. SUFFICES ASSUME TypeAt(r) = "link"
                   PROVE  ~HardLinked(r)' /\ LeadsToFileOrDir(r)'
      BY <2>2
    <3>2. ~HardLinked(r) /\ LeadsToFileOrDir(r) /\ ObjAt(r)' = ObjAt(r)
      BY <2>2, <2>3, <3>1 DEF Compatible
    <3>3. ObjAt(r).to \in Paths
      <4>1. IsTree(dst, disk)
        BY DEF UpInv, WalkInv, RootIsTree
      <4>2. ObjAt(r) \in DstObject \cup {Nothing}
        BY <4>1, ObjectTypes
      <4>3. ObjAt(r) \in Symlinks
        BY <3>1, <4>2 DEF TypeAt, DstObject, File, Dir, Other, Nothing
      <4>4. ObjAt(r).to \in 0 .. N
        BY <4>3 DEF Symlinks, Symlink
      <4> QED
        BY <3>2, <4>4 DEF LeadsToFileOrDir, Paths
    <3>4. TypeAt(ObjAt(r).to)' \in {"file", "dir"}
      BY <3>2, <3>3 DEF LeadsToFileOrDir
    <3>5. LeadsToFileOrDir(r)'
      BY <3>2, <3>4 DEF LeadsToFileOrDir, TypeAt, ObjAt
    <3> QED
      BY <3>2, <3>5 DEF HardLinked
  <2>6. ASSUME TypeAt(r)' = "file", NEW q \in Paths, Packaged(q)
        PROVE  /\ dst'[q] # 0 => (dst'[r] = dst'[q] <=> src[r].ino = src[q].ino)
               /\ q < r /\ src[r].ino = src[q].ino => dst'[q] # 0
    <3>1. TypeAt(r) = "file"
      BY <2>2, <2>6
    <3>2. CASE q = p
      BY <2>1, <2>2, <3>1, <3>2
    <3>3. CASE q # p
      BY <2>2, <2>3, <2>6, <3>1, <3>3 DEF Compatible
    <3> QED
      BY <3>2, <3>3
  <2> QED
    BY <2>4, <2>5, <2>6 DEF Compatible, Packaged
<1> QED
  BY <1>2, <1>3, <1>4 DEF Laid

-----------------------------------------------------------------------------
(***************************************************************************)
(* The five things a step does to the prefix, each laid as it should be.    *)
(***************************************************************************)
NoTwinBefore(p) == \A q \in Copied : src[q].ino # src[p].ino

LEMMA TwinsAreAlike ==
  ASSUME SourceTree(src), NEW p \in Paths, NEW q \in Paths, p # q,
         Packaged(p), Packaged(q), src[p].ino = src[q].ino
  PROVE  src[p].obj = src[q].obj /\ src[p].obj # Dir /\ HardLinked(p)
BY DEF SourceTree, Packaged, HardLinked

(* What stands ahead relates to the visited path as the package has it. *)
LEMMA Ahead ==
  ASSUME UpInv, ~stuck, NEW p \in Paths, pos = p, Packaged(p),
         NEW r \in Paths, r > p, Packaged(r), dst[r] # 0, TypeAt(r) = "file"
  PROVE  /\ dst[p] # 0 => (dst[r] = dst[p] <=> src[r].ino = src[p].ino)
         /\ src[r].ino = src[p].ino => dst[p] # 0 /\ TypeAt(p) = "file"
<1>1. r >= pos /\ p >= pos
  BY DEF Paths
<1>2. Compatible(r) /\ (dst[p] # 0 => Compatible(p))
  BY <1>1 DEF UpInv, Laid, AheadCompatible
<1>3. dst[p] # 0 => (dst[r] = dst[p] <=> src[r].ino = src[p].ino)
  BY <1>2 DEF Compatible
<1>4. src[r].ino = src[p].ino => dst[p] # 0
  BY <1>2 DEF Compatible
<1>5. SourceTree(src) /\ r # p
  BY DEF UpInv, WalkInv, TypeOK, Paths
<1>6. src[r].ino = src[p].ino => src[p].obj.type = "file"
  BY <1>2, <1>5, TwinsAreAlike DEF Compatible
<1> QED
  BY <1>2, <1>3, <1>4, <1>6 DEF Compatible

(* An inode of its own, where nothing stood or a link was removed. *)
LEMMA LayNew ==
  ASSUME UpInv, ~stuck, NEW p \in Paths, pos = p, pos' = p + 1, src' = src, Packaged(p),
         NoTwinBefore(p), dst[p] = 0 \/ TypeAt(p) = "link",
         NEW obj \in DstObject, obj = src[p].obj \/ (DiskMayFill /\ obj = File(Torn)),
         disk' = Append(disk, obj),
         dst' = [dst EXCEPT ![p] = Len(disk) + 1]
  PROVE  Laid'
<1>1. IsTree(dst, disk)
  BY DEF UpInv, WalkInv, RootIsTree
<1>2. disk \in Seq(DstObject) /\ dst \in [Paths -> 0 .. Len(disk)]
  BY <1>1 DEF IsTree
<1>3. dst'[p] = Len(disk) + 1 /\ \A q \in Paths : q # p => dst'[q] = dst[q]
  BY <1>2
<1>4. \A q \in Paths : q # p => ObjAt(q)' = ObjAt(q)
  BY <1>1, OtherNamesKept
<1>5. \A q \in Copied : q \in Paths /\ q # p
  BY DEF Copied, Paths
<1>6. ~(TypeAt(p) \in {"file", "dir"})
  BY <1>1, ObjectTypes
<1>7. Faithful(p)'
  <2>1. disk'[Len(disk) + 1] = obj /\ Len(disk) + 1 # 0
    BY <1>2
  <2>2. ObjAt(p)' = obj
    BY <1>3, <2>1 DEF ObjAt
  <2> QED
    BY <2>2 DEF Faithful
<1>8. \A q \in Paths : dst[q] # Len(disk) + 1
  BY <1>2
<1>9. \A q \in Copied : dst'[p] # 0 /\ dst[q] # 0
        => (dst'[p] = dst[q] <=> src[p].ino = src[q].ino)
  BY <1>3, <1>5, <1>8 DEF NoTwinBefore
<1>10. \A r \in Paths : r > p /\ Packaged(r) /\ dst[r] # 0 /\ TypeAt(r) = "file" =>
         /\ dst'[p] # 0 => (dst[r] = dst'[p] <=> src[r].ino = src[p].ino)
         /\ src[r].ino = src[p].ino => dst'[p] # 0
  BY <1>3, <1>6, <1>8, Ahead
<1>11. \A q \in Paths : q # p =>
         TypeAt(q)' = TypeAt(q) /\ (TypeAt(q) = "link" => ObjAt(q)' = ObjAt(q))
  BY <1>4 DEF TypeAt
<1> QED
  BY <1>3, <1>4, <1>5, <1>6, <1>7, <1>9, <1>10, <1>11, LaidKept

(* The name is missing: the disk was full. *)
LEMMA LayNothing ==
  ASSUME UpInv, ~stuck, NEW p \in Paths, pos = p, pos' = p + 1, src' = src, Packaged(p),
         DiskMayFill, dst[p] = 0 \/ TypeAt(p) = "link",
         disk' = disk,
         dst' = [dst EXCEPT ![p] = 0]
  PROVE  Laid'
<1>1. IsTree(dst, disk)
  BY DEF UpInv, WalkInv, RootIsTree
<1>2. disk \in Seq(DstObject) /\ dst \in [Paths -> 0 .. Len(disk)]
  BY <1>1 DEF IsTree
<1>3. dst'[p] = 0 /\ \A q \in Paths : q # p => dst'[q] = dst[q]
  BY <1>2
<1>4. \A q \in Paths : q # p => ObjAt(q)' = ObjAt(q)
  BY <1>1, OtherNamesKept
<1>5. \A q \in Copied : q \in Paths /\ q # p
  BY DEF Copied, Paths
<1>6. ~(TypeAt(p) \in {"file", "dir"})
  BY <1>1, ObjectTypes
<1>7. Faithful(p)'
  BY <1>3 DEF Faithful, ObjAt
<1>8. \A r \in Paths : r > p /\ Packaged(r) /\ dst[r] # 0 /\ TypeAt(r) = "file" =>
        src[r].ino # src[p].ino
  BY <1>6, Ahead
<1>9. \A q \in Paths : q # p =>
        TypeAt(q)' = TypeAt(q) /\ (TypeAt(q) = "link" => ObjAt(q)' = ObjAt(q))
  BY <1>4 DEF TypeAt
<1> QED
  BY <1>3, <1>4, <1>5, <1>6, <1>7, <1>8, <1>9, LaidKept

(* New bytes in the file that has the name. *)
LEMMA LayBytes ==
  ASSUME UpInv, ~stuck, NEW p \in Paths, pos = p, pos' = p + 1, src' = src, Packaged(p),
         NoTwinBefore(p), TypeAt(p) = "file",
         NEW bytes, File(bytes) = src[p].obj \/ (DiskMayFill /\ bytes = Torn),
         disk' = [disk EXCEPT ![dst[p]] = File(bytes)],
         dst' = dst
  PROVE  Laid'
<1>1. IsTree(dst, disk)
  BY DEF UpInv, WalkInv, RootIsTree
<1>2. disk \in Seq(DstObject) /\ dst \in [Paths -> 0 .. Len(disk)]
  BY <1>1 DEF IsTree
<1>3. dst[p] \in 1 .. Len(disk) /\ ObjAt(p) = disk[dst[p]]
  BY <1>1, ObjectTypes
<1>4. \A q \in Paths : ObjAt(q)' = IF dst[q] = dst[p] THEN File(bytes) ELSE ObjAt(q)
  BY <1>2, <1>3 DEF ObjAt
<1>5. \A q \in Paths : dst[q] = dst[p] => TypeAt(q) = "file"
  BY DEF TypeAt, ObjAt
<1>6. Compatible(p)
  <2>1. p >= pos /\ dst[p] # 0
    BY <1>3 DEF Paths
  <2> QED
    BY <2>1 DEF UpInv, Laid, AheadCompatible
<1>7. \A q \in Copied : dst[q] # 0 => (dst[p] = dst[q] <=> src[p].ino = src[q].ino)
  BY <1>6 DEF Compatible, Copied
<1>8. \A q \in Copied : ObjAt(q)' = ObjAt(q)
  BY <1>3, <1>4, <1>7 DEF NoTwinBefore, Copied
<1>9. File(bytes).type = "file"
  BY DEF File
<1>10. \A q \in Paths :
         TypeAt(q)' = TypeAt(q) /\ (TypeAt(q) = "link" => ObjAt(q)' = ObjAt(q))
  BY <1>4, <1>5, <1>9 DEF TypeAt
<1>11. Faithful(p)'
  BY <1>4 DEF Faithful
<1>12. \A r \in Paths : r > p /\ Packaged(r) /\ dst[r] # 0 /\ TypeAt(r) = "file" =>
         /\ dst[p] # 0 => (dst[r] = dst[p] <=> src[r].ino = src[p].ino)
         /\ src[r].ino = src[p].ino => dst[p] # 0
  BY Ahead
<1> QED
  BY <1>7, <1>8, <1>10, <1>11, <1>12, LaidKept

(* What has the name is the package's already. *)
LEMMA LayKept ==
  ASSUME UpInv, ~stuck, NEW p \in Paths, pos = p, pos' = p + 1, src' = src, Packaged(p),
         dst[p] # 0, Faithful(p), TypeAt(p) \in {"file", "dir"},
         UNCHANGED <<dst, disk>>
  PROVE  Laid'
<1>1. IsTree(dst, disk) /\ SourceTree(src)
  BY DEF UpInv, WalkInv, RootIsTree, TypeOK
<1>2. Compatible(p)
  <2>1. p >= pos
    BY DEF Paths
  <2> QED
    BY <2>1 DEF UpInv, Laid, AheadCompatible
<1>3. \A q \in Copied : q \in Paths /\ q # p /\ Packaged(q)
  BY DEF Copied, Paths
<1>4. \A q \in Copied : dst[q] # 0 => (dst[p] = dst[q] <=> src[p].ino = src[q].ino)
  <2>1. CASE TypeAt(p) = "file"
    BY <1>2, <1>3, <2>1 DEF Compatible
  <2>2. CASE TypeAt(p) = "dir"
    <3>1. disk[dst[p]] = Dir
      BY <1>1, <2>2, ObjectTypes
    <3>2. src[p].obj.type = "dir"
      BY <1>2, <2>2 DEF Compatible
    <3>3. src[p].obj = Dir
      <4>1. src[p].obj \in SrcObject
        BY <1>1 DEF SourceTree, Entry
      <4> QED
        BY <3>2, <4>1 DEF SrcObject, Symlinks, File, Symlink, Dir, Other, Nothing
    <3>4. \A q \in Copied : dst[p] # dst[q]
      BY <1>1, <1>3, <3>1 DEF IsTree
    <3>5. \A q \in Copied : src[p].ino # src[q].ino
      BY <1>1, <1>3, <3>3, TwinsAreAlike
    <3> QED
      BY <3>4, <3>5
  <2> QED
    BY <2>1, <2>2
<1>5. \A r \in Paths : r > p /\ Packaged(r) /\ dst[r] # 0 /\ TypeAt(r) = "file" =>
        /\ dst[p] # 0 => (dst[r] = dst[p] <=> src[r].ino = src[p].ino)
        /\ src[r].ino = src[p].ino => dst[p] # 0
  BY Ahead
<1>6. \A q \in Paths : ObjAt(q)' = ObjAt(q) /\ TypeAt(q)' = TypeAt(q)
  BY DEF TypeAt, ObjAt
<1>7. Faithful(p)'
  BY <1>6 DEF Faithful
<1> QED
  BY <1>3, <1>4, <1>5, <1>6, <1>7, LaidKept

(* One more name of an inode that was copied before. *)
LEMMA LayName ==
  ASSUME UpInv, ~stuck, NEW p \in Paths, pos = p, pos' = p + 1, src' = src, Packaged(p),
         NEW x \in Copied, src[x].ino = src[p].ino, dst[x] # 0, dst[p] = 0,
         disk' = disk,
         dst' = [dst EXCEPT ![p] = dst[x]]
  PROVE  Laid'
<1>1. IsTree(dst, disk) /\ SourceTree(src)
  BY DEF UpInv, WalkInv, RootIsTree, TypeOK
<1>2. disk \in Seq(DstObject) /\ dst \in [Paths -> 0 .. Len(disk)]
  BY <1>1 DEF IsTree
<1>3. dst'[p] = dst[x] /\ \A q \in Paths : q # p => dst'[q] = dst[q]
  BY <1>2
<1>4. \A q \in Paths : q # p => ObjAt(q)' = ObjAt(q)
  BY <1>1, OtherNamesKept
<1>5. \A q \in Copied : q \in Paths /\ q < p /\ q # p /\ Packaged(q)
  BY DEF Copied, Paths
<1>6. Faithful(p)'
  <2>1. ObjAt(p)' = ObjAt(x)
    BY <1>3 DEF ObjAt
  <2>2. src[p].obj = src[x].obj
    BY <1>1, <1>5, TwinsAreAlike
  <2>3. Faithful(x)
    BY DEF UpInv, Laid, ContentFaithful
  <2> QED
    BY <2>1, <2>2, <2>3 DEF Faithful
<1>7. \A q \in Copied : dst'[p] # 0 /\ dst[q] # 0
        => (dst'[p] = dst[q] <=> src[p].ino = src[q].ino)
  BY <1>3 DEF UpInv, Laid, HardLinksPreserved
<1>8. ASSUME NEW r \in Paths, r > p, Packaged(r), dst[r] # 0, TypeAt(r) = "file"
      PROVE  /\ dst'[p] # 0 => (dst[r] = dst'[p] <=> src[r].ino = src[p].ino)
             /\ src[r].ino = src[p].ino => dst'[p] # 0
  <2>1. r >= pos
    BY <1>8 DEF Paths
  <2>2. Compatible(r)
    BY <1>8, <2>1 DEF UpInv, Laid, AheadCompatible
  <2>3. dst[r] = dst[x] <=> src[r].ino = src[x].ino
    BY <1>5, <1>8, <2>2 DEF Compatible
  <2> QED
    BY <1>3, <2>3
<1>9. TypeAt(p) = "none"
  BY <1>1, ObjectTypes
<1>10. \A q \in Paths : q # p =>
         TypeAt(q)' = TypeAt(q) /\ (TypeAt(q) = "link" => ObjAt(q)' = ObjAt(q))
  BY <1>4 DEF TypeAt
<1> QED
  BY <1>3, <1>4, <1>5, <1>6, <1>7, <1>8, <1>9, <1>10, LaidKept

-----------------------------------------------------------------------------
(***************************************************************************)
(* Which of the five things each call does over such a prefix.              *)
(***************************************************************************)

(* A missing name can be made: its directory was copied before it. *)
LEMMA RoomFor ==
  ASSUME UpInv, NEW p \in Paths, pos = p, Packaged(p), dst[p] = 0, ~DiskMayFill
  PROVE  Free(p)
<1>1. SUFFICES ASSUME Parent[p] # 0 PROVE TypeAt(Parent[p]) = "dir"
  BY DEF Free
<1>2. Parent[p] \in Paths /\ Parent[p] < p
  BY <1>1, ParentAssumption DEF Paths
<1>3. src[Parent[p]].obj = Dir
  BY <1>1 DEF UpInv, WalkInv, TypeOK, SourceTree, Packaged
<1>4. Parent[p] \in Copied
  BY <1>2, <1>3 DEF Copied, Packaged, Dir, Other, Nothing
<1>5. ObjAt(Parent[p]) = Dir
  BY <1>3, <1>4 DEF UpInv, Laid, ContentFaithful, Faithful
<1> QED
  BY <1>5 DEF TypeAt, Dir

(* What stands at the visited path is of the package's type. *)
LEMMA Here ==
  ASSUME UpInv, ~stuck, NEW p \in Paths, pos = p, Packaged(p)
  PROVE  /\ dst[p] # 0 => Compatible(p)
         /\ dst[p] = 0 => Found(p) = {}
         /\ TypeAt(p) \in {"file", "dir"} => Found(p) = {p}
         /\ TypeAt(p) = "link" /\ Compatible(p) => Exists(p)
<1>1. IsTree(dst, disk)
  BY DEF UpInv, WalkInv, RootIsTree
<1>2. p >= pos
  BY DEF Paths
<1>3. dst[p] # 0 => Compatible(p)
  BY <1>2 DEF UpInv, Laid, AheadCompatible
<1>4. dst[p] = 0 => Found(p) = {}
  BY <1>1, FoundIsThere
<1>5. ASSUME TypeAt(p) \in {"file", "dir"} PROVE Found(p) = {p}
  <2>1. p \in Chain(p)
    BY DEF Chain
  <2>2. \A t \in Chain(p) : t = p
    BY <1>5, ChainOfOne
  <2> QED
    BY <1>5, <2>1, <2>2 DEF Found
<1>6. ASSUME TypeAt(p) = "link", Compatible(p) PROVE Exists(p)
  <2> DEFINE t == ObjAt(p).to
  <2>1. t # 0 /\ TypeAt(t) \in {"file", "dir"}
    BY <1>6 DEF Compatible, LeadsToFileOrDir
  <2>2. t \in Paths
    <3>1. ObjAt(p) \in DstObject \cup {Nothing}
      BY <1>1, ObjectTypes
    <3>2. ObjAt(p) \in Symlinks
      BY <1>6, <3>1 DEF TypeAt, DstObject, File, Dir, Other, Nothing
    <3>3. t \in 0 .. N
      BY <3>2 DEF Symlinks, Symlink
    <3> QED
      BY <2>1, <3>3 DEF Paths
  <2> HIDE DEF t
  <2>3. t \in Chain(p)
    BY <1>6, <2>1, <2>2 DEF Chain, t
  <2> QED
    BY <2>1, <2>3 DEF Found, Exists
<1> QED
  BY <1>3, <1>4, <1>5, <1>6

LEMMA CreateLays ==
  ASSUME UpInv, ~stuck, NEW p \in Paths, pos = p, pos' = p + 1, src' = src, Packaged(p),
         NoTwinBefore(p), dst[p] = 0,
         NEW obj \in DstObject, obj = src[p].obj \/ (DiskMayFill /\ obj = File(Torn)),
         Create(p, obj)
  PROVE  Laid'
<1>1. CASE /\ disk' = Append(disk, obj)
           /\ dst' = [dst EXCEPT ![p] = Len(disk) + 1]
  BY <1>1, LayNew
<1>2. CASE (~Free(p) \/ DiskMayFill) /\ UNCHANGED <<dst, disk>>
  <2>1. DiskMayFill
    BY <1>2, RoomFor
  <2>2. dst \in [Paths -> 0 .. Len(disk)]
    BY DEF UpInv, WalkInv, RootIsTree, IsTree
  <2>3. dst' = [dst EXCEPT ![p] = 0]
    BY <1>2, <2>2
  <2> QED
    BY <1>2, <2>1, <2>3, LayNothing
<1> QED
  BY <1>1, <1>2 DEF Create

LEMMA CopyFileLays ==
  ASSUME UpInv, ~stuck, NEW p \in Paths, pos = p, pos' = p + 1, src' = src, Packaged(p),
         NoTwinBefore(p), src[p].obj.type = "file",
         NEW bytes \in Contents \cup {Torn},
         File(bytes) = src[p].obj \/ (DiskMayFill /\ bytes = Torn),
         CopyFile(p, bytes)
  PROVE  Laid'
<1>1. CASE dst[p] = 0
  <2>1. Create(p, File(bytes))
    BY <1>1, Here DEF CopyFile
  <2>2. File(bytes) \in DstObject
    BY DEF DstObject
  <2> QED
    BY <1>1, <2>1, <2>2, CreateLays
<1>2. CASE dst[p] # 0
  <2>1. TypeAt(p) = "file"
    BY <1>2, Here DEF Compatible
  <2>2. Found(p) = {p}
    BY <2>1, Here
  <2>3. disk' = [disk EXCEPT ![dst[p]] = File(bytes)] /\ dst' = dst
    BY <2>1, <2>2 DEF CopyFile, Exists
  <2> QED
    BY <2>1, <2>3, LayBytes
<1> QED
  BY <1>1, <1>2

LEMMA CopyLinkLays ==
  ASSUME UpInv, ~stuck, NEW p \in Paths, pos = p, pos' = p + 1, src' = src, Packaged(p),
         NoTwinBefore(p), src[p].obj.type = "link", CopyLink(p)
  PROVE  Laid'
<1>1. src[p].obj \in DstObject
  BY PackageEntry DEF UpInv, WalkInv, TypeOK
<1>2. CASE dst[p] = 0
  <2>1. Create(p, src[p].obj)
    BY <1>2, Here DEF CopyLink, Exists
  <2> QED
    BY <1>1, <1>2, <2>1, CreateLays
<1>3. CASE dst[p] # 0
  <2>1. TypeAt(p) = "link" /\ Exists(p)
    BY <1>3, Here DEF Compatible
  <2>2. CASE /\ disk' = Append(disk, src[p].obj)
             /\ dst' = [dst EXCEPT ![p] = Len(disk) + 1]
    BY <1>1, <2>1, <2>2, LayNew
  <2>3. CASE /\ DiskMayFill
             /\ dst' = [dst EXCEPT ![p] = 0]
             /\ UNCHANGED disk
    BY <2>1, <2>3, LayNothing
  <2> QED
    BY <2>1, <2>2, <2>3 DEF CopyLink
<1> QED
  BY <1>2, <1>3

LEMMA CopyNodeLays ==
  ASSUME UpInv, ~stuck, NEW p \in Paths, pos = p, pos' = p + 1, src' = src, Packaged(p),
         NoTwinBefore(p), Readable(p), CopyNode(p)
  PROVE  Laid'
<1>1. CASE /\ src[p].obj.type = "file"
           /\ \E bytes \in Written(src[p].obj.data) : CopyFile(p, bytes)
  <2>1. src[p].obj.data \in Contents /\ src[p].obj = File(src[p].obj.data)
    BY <1>1, PackageEntry DEF UpInv, WalkInv, TypeOK
  <2>2. PICK bytes \in Written(src[p].obj.data) : CopyFile(p, bytes)
    BY <1>1
  <2>3. bytes = src[p].obj.data \/ (DiskMayFill /\ bytes = Torn)
    BY DEF Written
  <2>4. bytes \in Contents \cup {Torn} /\ (File(bytes) = src[p].obj \/ (DiskMayFill /\ bytes = Torn))
    BY <2>1, <2>3
  <2> QED
    BY <1>1, <2>2, <2>4, CopyFileLays
<1>2. CASE src[p].obj.type = "link" /\ CopyLink(p)
  BY <1>2, CopyLinkLays
<1> QED
  BY <1>1, <1>2 DEF CopyNode

(* What the table does not know has no other name among the copied. *)
LEMMA NoTwin ==
  ASSUME UpInv, NEW p \in Paths, pos = p, Packaged(p),
         HardLinked(p) => in_search(src[p].ino) = 0
  PROVE  NoTwinBefore(p)
<1>1. SUFFICES ASSUME NEW q \in Copied, src[q].ino = src[p].ino PROVE FALSE
  BY DEF NoTwinBefore
<1>2. q \in Paths /\ q # p /\ Packaged(q)
  BY DEF Copied, Paths
<1>3. HardLinked(p) /\ HardLinked(q)
  BY <1>1, <1>2 DEF HardLinked, Packaged
<1>4. PICK j \in DOMAIN in_list : in_list[j].old_ino = AsInt(src[q].ino)
  BY <1>3 DEF UpInv, WalkInv, TableSound
<1> QED
  BY <1>1, <1>3, <1>4, SearchFinds, PackageEntry DEF UpInv, WalkInv, TypeOK

LEMMA HardlinkLays ==
  ASSUME UpInv, ~stuck, NEW p \in Paths, pos = p, pos' = p + 1, src' = src,
         src[p].obj.type \in {"file", "link"}, HardLinked(p),
         in_search(src[p].ino) # 0, Hardlink(in_search(src[p].ino), p)
  PROVE  Laid'
<1> DEFINE x == in_search(src[p].ino)
<1>1. SourceTree(src) /\ IsTree(dst, disk)
  BY DEF UpInv, WalkInv, TypeOK, RootIsTree
<1>2. Packaged(p)
  BY <1>1, PackageEntry
<1>3. x \in Copied /\ AsInt(src[x].ino) = AsInt(src[p].ino)
  <2>1. PICK j \in DOMAIN in_list :
          in_list[j].old_ino = AsInt(src[p].ino) /\ in_list[j].hlink = x
    BY SearchFinds, PackageEntry DEF UpInv, WalkInv, TypeOK
  <2> QED
    BY <2>1 DEF UpInv, WalkInv, TableSound
<1> HIDE DEF x
<1>4. x \in Paths /\ x < p /\ x # p /\ Packaged(x)
  BY <1>3 DEF Copied, Paths
<1>5. src[x].ino = src[p].ino
  BY <1>3, <1>4 DEF UpInv, InodesFitInt
<1>6. src[x].obj = src[p].obj
  BY <1>1, <1>2, <1>4, <1>5, TwinsAreAlike
<1>7. Faithful(x)
  BY <1>3 DEF UpInv, Laid, ContentFaithful
<1>8. CASE dst[p] # 0
  <2>1. UNCHANGED <<dst, disk>>
    BY <1>8 DEF Hardlink, Free
  <2>2. Compatible(p)
    BY <1>2, <1>8, Here
  <2>3. TypeAt(p) = "file"
    BY <2>2 DEF Compatible
  <2>4. dst[p] = dst[x]
    BY <1>4, <1>5, <2>2, <2>3 DEF Compatible
  <2>5. Faithful(p)
    BY <1>6, <1>7, <2>4 DEF Faithful, ObjAt
  <2> QED
    BY <1>2, <1>8, <2>1, <2>3, <2>5, LayKept
<1>9. CASE dst[p] = 0
  <2>1. CASE /\ TypeAt(x) \in {"file", "link", "other"}
             /\ dst' = [dst EXCEPT ![p] = dst[x]]
             /\ UNCHANGED disk
    <3>1. dst[x] # 0
      BY <1>1, <1>4, <2>1, ObjectTypes
    <3> QED
      BY <1>2, <1>3, <1>5, <1>9, <2>1, <3>1, LayName
  <2>2. CASE /\ ~(TypeAt(x) \in {"file", "link", "other"} /\ Free(p)) \/ DiskMayFill
             /\ UNCHANGED <<dst, disk>>
    <3>1. DiskMayFill
      <4>1. SUFFICES ASSUME ~DiskMayFill PROVE FALSE
        OBVIOUS
      <4>2. Free(p)
        BY <1>2, <1>9, <4>1, RoomFor
      <4>3. TypeAt(x) \in {"file", "link", "other"}
        BY <1>6, <1>7, <4>1 DEF Faithful, TypeAt
      <4> QED
        BY <2>2, <4>1, <4>2, <4>3
    <3>2. dst' = [dst EXCEPT ![p] = 0]
      BY <1>1, <1>9, <2>2 DEF IsTree
    <3> QED
      BY <1>2, <1>9, <2>2, <3>1, <3>2, LayNothing
  <2> QED
    BY <2>1, <2>2 DEF Hardlink, x
<1> QED
  BY <1>8, <1>9

LEMMA VisitDirLays ==
  ASSUME UpInv, NEW p \in Paths, VisitDir(p)
  PROVE  Laid'
<1>1. /\ pos = p /\ ~stuck /\ pos' = p + 1 /\ src' = src
      /\ src[p].obj = Dir
  BY DEF VisitDir, Visit
<1>2. SourceTree(src) /\ IsTree(dst, disk)
  BY DEF UpInv, WalkInv, TypeOK, RootIsTree
<1>3. Packaged(p) /\ ~HardLinked(p)
  BY <1>1, <1>2, PackageEntry
<1>4. NoTwinBefore(p)
  BY <1>1, <1>3, NoTwin
<1>5. CASE dst[p] = 0
  <2>1. Create(p, Dir)
    BY <1>1, <1>3, <1>5, Here DEF VisitDir, Exists
  <2>2. Dir \in DstObject
    BY DEF DstObject
  <2> QED
    BY <1>1, <1>3, <1>4, <1>5, <2>1, <2>2, CreateLays
<1>6. CASE dst[p] # 0
  <2>1. TypeAt(p) = "dir"
    BY <1>1, <1>3, <1>6, Here DEF Compatible, Dir
  <2>2. UNCHANGED <<dst, disk>>
    BY <1>1, <1>3, <2>1, Here DEF VisitDir, Exists
  <2>3. Faithful(p)
    BY <1>1, <1>2, <2>1, ObjectTypes DEF Faithful, ObjAt
  <2> QED
    BY <1>1, <1>3, <1>6, <2>1, <2>2, <2>3, LayKept
<1> QED
  BY <1>5, <1>6

LEMMA SkipLays ==
  ASSUME UpInv, NEW p \in Paths, Skip(p)
  PROVE  Laid'
<1>1. /\ pos = p /\ ~stuck /\ pos' = p + 1
      /\ UNCHANGED <<src, dst, disk>> /\ ~Packaged(p)
  BY DEF Skip, Visit, Packaged
<1>2. Copied' = Copied
  BY <1>1 DEF Copied, Packaged, Paths
<1>3. \A q \in Paths : ObjAt(q)' = ObjAt(q) /\ TypeAt(q)' = TypeAt(q)
  BY <1>1 DEF ObjAt, TypeAt
<1>4. ContentFaithful' /\ HardLinksPreserved'
  BY <1>1, <1>2 DEF UpInv, Laid, ContentFaithful, HardLinksPreserved, Faithful, ObjAt
<1>5. \A r \in Paths : r >= pos' => r >= pos
  BY <1>1 DEF Paths
<1>6. \A r \in Paths : Compatible(r)' <=> Compatible(r)
  BY <1>1 DEF Compatible, HardLinked, LeadsToFileOrDir, Packaged, TypeAt, ObjAt
<1>7. AheadCompatible'
  BY <1>1, <1>5, <1>6 DEF UpInv, Laid, AheadCompatible, Packaged
<1> QED
  BY <1>4, <1>7 DEF Laid

(* The walk that never ends leaves what it has copied as it is. *)
LEMMA SpinLays ==
  ASSUME UpInv, NEW p \in Paths, Spin(p)
  PROVE  Laid'
<1>1. /\ pos = p /\ ~stuck /\ pos' = pos /\ src' = src /\ stuck' = TRUE
      /\ src[p].obj = File(Unreadable)
      /\ CopyFile(p, Torn)
  BY DEF Spin, Readable
<1>2. SourceTree(src) /\ IsTree(dst, disk)
  BY DEF UpInv, WalkInv, TypeOK, RootIsTree
<1>3. src[p].obj.type = "file" /\ Packaged(p)
  BY <1>1, <1>2, PackageEntry DEF File
<1>4. NoTwinBefore(p)
  BY <1>1, <1>3, NoTwin DEF Spin
<1>5. Copied' = Copied /\ \A q \in Copied : q \in Paths /\ q # p /\ Packaged(q)
  BY <1>1 DEF Copied, Packaged, Paths
<1>6. ASSUME NEW q \in Copied PROVE ObjAt(q)' = ObjAt(q)
  <2>1. \A t \in Found(p) : dst[q] # dst[t]
    <3>1. CASE dst[p] = 0
      BY <1>1, <1>3, <3>1, Here
    <3>2. CASE dst[p] # 0
      <4>1. Compatible(p) /\ TypeAt(p) = "file"
        BY <1>1, <1>3, <3>2, Here DEF Compatible
      <4>2. Found(p) = {p}
        BY <1>1, <1>3, <4>1, Here
      <4>3. dst[q] # dst[p]
        BY <1>4, <1>5, <3>2, <4>1 DEF Compatible, NoTwinBefore
      <4> QED
        BY <4>2, <4>3
    <3> QED
      BY <3>1, <3>2
  <2> QED
    BY <1>1, <1>2, <1>5, <2>1, CopyFileKeepsOthers
<1>7. \A q \in Copied : dst'[q] = dst[q]
  <2>1. dst \in [Paths -> 0 .. Len(disk)]
    BY <1>2 DEF IsTree
  <2> QED
    BY <1>1, <1>5, <2>1 DEF CopyFile, Create
<1>8. ContentFaithful'
  BY <1>1, <1>5, <1>6 DEF UpInv, Laid, ContentFaithful, Faithful
<1>9. HardLinksPreserved'
  BY <1>1, <1>5, <1>7 DEF UpInv, Laid, HardLinksPreserved
<1>10. AheadCompatible'
  BY <1>1 DEF AheadCompatible
<1> QED
  BY <1>8, <1>9, <1>10 DEF Laid

(* Neither does the walk that waits for a fifo. *)
LEMMA BlockLays ==
  ASSUME UpInv, NEW p \in Paths, Block(p)
  PROVE  Laid'
<1>1. /\ src' = src /\ dst' = dst /\ disk' = disk /\ pos' = pos /\ stuck' = TRUE
  BY DEF Block
<1>2. ContentFaithful' /\ HardLinksPreserved'
  BY <1>1 DEF UpInv, Laid, ContentFaithful, HardLinksPreserved, Faithful, Copied,
              Packaged, ObjAt
<1>3. AheadCompatible'
  BY <1>1 DEF AheadCompatible
<1> QED
  BY <1>2, <1>3 DEF Laid

-----------------------------------------------------------------------------
LEMMA InitUpInv == UpgradeInit => UpInv
<1> SUFFICES ASSUME UpgradeInit PROVE UpInv
  OBVIOUS
<1>1. WalkInv /\ InodesFitInt
  BY InitWalkInv DEF UpgradeInit
<1>2. pos = 1
  BY DEF UpgradeInit, Init
<1>3. Copied = {}
  BY <1>2 DEF Copied, Paths
<1>4. AheadCompatible
  BY DEF UpgradeInit, Upgradable, AheadCompatible
<1> QED
  BY <1>1, <1>3, <1>4 DEF UpInv, Laid, ContentFaithful, HardLinksPreserved

LEMMA NextUpInv == UpInv /\ [Next]_vars => UpInv'
<1> SUFFICES ASSUME UpInv, [Next]_vars PROVE UpInv'
  OBVIOUS
<1>1. WalkInv'
  BY NextWalkInv DEF UpInv
<1>2. SourceTree(src)
  BY DEF UpInv, WalkInv, TypeOK
<1>3. src' = src
  BY DEF Next, VisitDir, VisitNode, VisitFirstName, VisitLaterName, Skip, Spin, Block,
         Visit, vars
<1>4. InodesFitInt'
  BY <1>3 DEF UpInv, InodesFitInt, AsInt
<1>5. ASSUME NEW p \in Paths, VisitNode(p) \/ VisitFirstName(p) PROVE Laid'
  <2>1. /\ pos = p /\ ~stuck /\ pos' = p + 1 /\ src' = src
        /\ src[p].obj.type \in {"file", "link"}
        /\ HardLinked(p) => in_search(src[p].ino) = 0
        /\ Readable(p) /\ CopyNode(p)
    BY <1>5 DEF VisitNode, VisitFirstName, Visit
  <2>2. Packaged(p)
    BY <1>2, <2>1, PackageEntry
  <2>3. NoTwinBefore(p)
    BY <2>1, <2>2, NoTwin
  <2> QED
    BY <2>1, <2>2, <2>3, CopyNodeLays
<1>6. ASSUME NEW p \in Paths, VisitLaterName(p) PROVE Laid'
  BY <1>6, HardlinkLays DEF VisitLaterName, Visit
<1>7. CASE UNCHANGED vars
  <2>1. Laid'
    BY <1>7 DEF vars, UpInv, Laid, ContentFaithful, HardLinksPreserved, AheadCompatible,
                Faithful, Compatible, HardLinked, LeadsToFileOrDir, Copied, Packaged,
                TypeAt, ObjAt
  <2> QED
    BY <1>1, <1>4, <2>1 DEF UpInv
<1>8. CASE Next
  <2>1. Laid'
    BY <1>5, <1>6, <1>8, VisitDirLays, SkipLays, SpinLays, BlockLays DEF Next
  <2> QED
    BY <1>1, <1>4, <2>1 DEF UpInv
<1> QED
  BY <1>7, <1>8

(* Over a prefix the package can be laid over, the three properties and the *)
(* invariant of the walk hold together, which none of the three does alone.  *)
THEOREM UpgradeInvariant == UpgradeSpec => []UpInv
<1> QED
  BY InitUpInv, NextUpInv, PTL DEF UpgradeSpec

(***************************************************************************)
(* Over any prefix a package can be laid over, every path walked so far     *)
(* shows what the package has there, or is missing or torn on a full disk.  *)
(***************************************************************************)
THEOREM UpgradeIsFaithful == UpgradeSpec => []ContentFaithful
<1>1. UpInv => ContentFaithful
  BY DEF UpInv, Laid
<1> QED
  BY <1>1, UpgradeInvariant, PTL

(***************************************************************************)
(* Over any such prefix the copied names share inodes as in the package.    *)
(***************************************************************************)
THEOREM UpgradeKeepsHardLinks == UpgradeSpec => []HardLinksPreserved
<1>1. UpInv => HardLinksPreserved
  BY DEF UpInv, Laid
<1> QED
  BY <1>1, UpgradeInvariant, PTL

(***************************************************************************)
(* What the walk has yet to visit stays compatible with the package.        *)
(***************************************************************************)
THEOREM UpgradeKeepsAhead == UpgradeSpec => []AheadCompatible
<1>1. UpInv => AheadCompatible
  BY DEF UpInv, Laid
<1> QED
  BY <1>1, UpgradeInvariant, PTL
=============================================================================
