-------------------------------- MODULE Copy --------------------------------
(***************************************************************************)
(* copy() of copy.c: the walk that installs the extracted data tree into    *)
(* the prefix, with the inode table of in_list.c that re-creates the hard   *)
(* links of the package.                                                    *)
(*                                                                          *)
(* A path below the tree's root is a number: fts_read() visits paths in     *)
(* the order 1, 2, ..., N (pre-order, siblings sorted by fts_compare), so a *)
(* directory has a smaller number than what it holds.  The same number      *)
(* names the path below the source (TMP_DATA_DIR) and below the prefix.     *)
(*                                                                          *)
(* One step is one iteration of the while loop of copy().                   *)
(***************************************************************************)
EXTENDS Integers, Sequences, FiniteSets

CONSTANTS
  N,             \* number of paths
  Parent,        \* Parent[p]: the directory that holds p; 0 is the tree's root
  Contents,      \* what a regular file may hold
  Torn,          \* a file that does not hold the bytes meant for it
  Unreadable,    \* a source file that open(2) refuses to read
  IntRange,      \* how many values a C int has: an inode number is cut to it
  Sources,       \* the extracted trees a walk may meet
  Roots,         \* the states the prefix may be in before the walk
  DiskMayFill    \* whether write(2) and a call that makes a name may fail

Paths == 1 .. N

(***************************************************************************)
(* What an inode is.  A symbolic link points to a path below the prefix, or *)
(* to 0: a target that does not exist.  "other" is what fts(3) reports as   *)
(* FTS_DEFAULT: a fifo, a socket, a device.                                 *)
(***************************************************************************)
File(bytes) == [type |-> "file", data |-> bytes]
Symlink(t)  == [type |-> "link", to |-> t]
Dir         == [type |-> "dir"]
Other       == [type |-> "other"]
Nothing     == [type |-> "none"]

Symlinks  == {Symlink(t) : t \in 0 .. N}
SrcObject == {File(c) : c \in Contents \cup {Unreadable}} \cup Symlinks
               \cup {Dir, Other, Nothing}
DstObject == {File(c) : c \in Contents \cup {Torn}} \cup Symlinks
               \cup {Dir, Other}

(* An FTSENT: the inode number of the entry and what the inode is. *)
Entry == [ino : Nat, obj : SrcObject]

(***************************************************************************)
(* An extracted tree: every entry lies in a directory of the tree, and two  *)
(* names of one inode show the same file, never a directory.                *)
(***************************************************************************)
SourceTree(s) ==
  /\ s \in [Paths -> Entry]
  /\ \A p \in Paths : s[p].obj # Nothing =>
       Parent[p] = 0 \/ s[Parent[p]].obj = Dir
  /\ \A p, q \in Paths :
       p # q /\ s[p].obj # Nothing /\ s[q].obj # Nothing /\ s[p].ino = s[q].ino
         => s[p].obj = s[q].obj /\ s[p].obj # Dir

(***************************************************************************)
(* A file system below the prefix: dst[p] is the inode of path p (0: no     *)
(* such path), disk the inode table.                                        *)
(***************************************************************************)
IsTree(dst, disk) ==
  /\ disk \in Seq(DstObject)
  /\ dst \in [Paths -> 0 .. Len(disk)]
  /\ \A p \in Paths : dst[p] # 0 =>
       Parent[p] = 0 \/ (dst[Parent[p]] # 0 /\ disk[dst[Parent[p]]] = Dir)
  /\ \A p, q \in Paths :
       p # q /\ dst[p] # 0 /\ dst[p] = dst[q] => disk[dst[p]] # Dir

ASSUME ParentAssumption ==
  /\ N \in Nat
  /\ Parent \in [Paths -> 0 .. N]
  /\ \A p \in Paths : Parent[p] < p

ASSUME DataAssumption ==
  /\ Torn \notin Contents
  /\ Unreadable \notin Contents \cup {Torn}
  /\ IntRange \in Nat \ {0}
  /\ DiskMayFill \in BOOLEAN

ASSUME TreeAssumption ==
  /\ \A s \in Sources : SourceTree(s)
  /\ \A r \in Roots : IsTree(r.dst, r.disk)

VARIABLES
  src,      \* the extracted data tree
  dst,      \* the prefix: inode of every path
  disk,     \* inode table of the prefix's file system
  pos,      \* the path fts_read() returns next
  in_list,  \* the static list of copied inodes (in_list.c)
  log,      \* what the callback has been given: the install log
  stuck     \* copy_file() stands in a read loop or an open(2) without an end

vars == <<src, dst, disk, pos, in_list, log, stuck>>

TypeOK ==
  /\ SourceTree(src)
  /\ disk \in Seq(DstObject)
  /\ dst \in [Paths -> 0 .. Len(disk)]
  /\ pos \in 1 .. N + 1
  /\ in_list \in Seq([old_ino : Int, hlink : Paths])
  /\ log \in Seq(Paths)
  /\ stuck \in BOOLEAN

(***************************************************************************)
(* The system calls, on the prefix.                                         *)
(***************************************************************************)
ObjAt(p)  == IF dst[p] = 0 THEN Nothing ELSE disk[dst[p]]
TypeAt(p) == ObjAt(p).type

(***************************************************************************)
(* stat(2) follows symbolic links.  The chain from p is the least set that  *)
(* holds p and whatever a link of it leads to; file_exist() finds the file, *)
(* directory, fifo, ... it ends in, if it ends in one.                      *)
(***************************************************************************)
Chain(p) ==
  {t \in Paths : \A C \in SUBSET Paths :
     /\ p \in C
     /\ \A x \in C : TypeAt(x) = "link" => ObjAt(x).to \in C \cup {0}
     => t \in C}
Found(p)  == {t \in Chain(p) : TypeAt(t) \in {"file", "dir", "other"}}
Exists(p) == Found(p) # {}      \* file_exist(p) == 0

(* A new name can be made at p: it is free, and the parent is a directory. *)
Free(p) == dst[p] = 0 /\ (Parent[p] # 0 => TypeAt(Parent[p]) = "dir")

(* creat, mkdir, symlink: a new inode; the call fails where it must. *)
Create(p, obj) ==
  \/ /\ Free(p)
     /\ disk' = Append(disk, obj)
     /\ dst' = [dst EXCEPT ![p] = Len(disk) + 1]
  \/ /\ ~Free(p) \/ DiskMayFill
     /\ UNCHANGED <<dst, disk>>

(* What write(2) leaves of a file: its return value is never looked at. *)
Written(bytes) == IF DiskMayFill THEN {bytes, Torn} ELSE {bytes}
(* Mutant: the file is written anew and renamed over the old name. *)
CopyFileRenames(p, bytes) ==
  /\ TypeAt(p) # "dir"
  /\ disk' = Append(disk, File(bytes))
  /\ dst' = [dst EXCEPT ![p] = Len(disk) + 1]

(***************************************************************************)
(* copy_file(): an existing destination is truncated and rewritten through  *)
(* whatever symbolic link stands there, a missing one is created.  open(2)  *)
(* fails on a directory or a socket, and a device takes the bytes; Block is *)
(* the open(2) of a fifo.                                                   *)
(***************************************************************************)
CopyFile(p, bytes) ==
  \/ \E t \in Found(p) :
       /\ TypeAt(t) = "file"
       /\ disk' = [disk EXCEPT ![dst[t]] = File(bytes)]
       /\ UNCHANGED dst
  \/ \E t \in Found(p) :
       /\ TypeAt(t) \in {"dir", "other"}
       /\ UNCHANGED <<dst, disk>>
  \/ /\ ~Exists(p)
     /\ Create(p, File(bytes))

(* Mutant: the old link is not removed first. *)
CopyLinkKeeps(p) == Create(p, src[p].obj)

(***************************************************************************)
(* copy_link(): what stat(2) finds is unlinked first; a dangling link is    *)
(* not found, and symlink(2) then fails with a warning.                     *)
(***************************************************************************)
CopyLink(p) ==
  \/ /\ Exists(p)
     /\ TypeAt(p) # "dir"
     /\ \/ /\ disk' = Append(disk, src[p].obj)
           /\ dst' = [dst EXCEPT ![p] = Len(disk) + 1]
        \/ /\ DiskMayFill
           /\ dst' = [dst EXCEPT ![p] = 0]
           /\ UNCHANGED disk
  \/ /\ Exists(p)
     /\ TypeAt(p) = "dir"                 \* unlink(2) fails, then symlink(2)
     /\ UNCHANGED <<dst, disk>>
  \/ /\ ~Exists(p)
     /\ Create(p, src[p].obj)

CopyNode(p) ==
  \/ /\ src[p].obj.type = "file"
     /\ \E bytes \in Written(src[p].obj.data) : CopyFile(p, bytes)
  \/ /\ src[p].obj.type = "link"
     /\ CopyLink(p)

(***************************************************************************)
(* The inode table.  An inode number is stored in an int; in_search()       *)
(* returns the path of the first entry that matches, or NULL (0).           *)
(***************************************************************************)
AsInt(ino) == ino % IntRange

(* Mutant: the search begins at the second entry. *)
in_searchSkipsFirst(ino) ==
  LET hits == {j \in DOMAIN in_list : j > 1 /\ in_list[j].old_ino = AsInt(ino)}
  IN  IF hits = {} THEN 0
      ELSE in_list[CHOOSE j \in hits : \A k \in hits : j <= k].hlink

in_search(ino) ==
  LET hits == {j \in DOMAIN in_list : in_list[j].old_ino = AsInt(ino)}
  IN  IF hits = {} THEN 0
      ELSE in_list[CHOOSE j \in hits : \A k \in hits : j <= k].hlink

(* Mutant: the inode is not remembered. *)
in_appendDrops(ino, p) == UNCHANGED in_list

in_append(ino, p) ==
  in_list' = Append(in_list, [old_ino |-> AsInt(ino), hlink |-> p])

(* st_nlink > 1: tar re-created every name of the inode in the tree. *)
HardLinked(p) ==
  \E q \in Paths \ {p} : src[q].obj # Nothing /\ src[q].ino = src[p].ino

(* Mutant: link(dest, x), the arguments swapped. *)
HardlinkSwapped(x, p) ==
  \/ /\ TypeAt(p) \in {"file", "link", "other"}
     /\ Free(x)
     /\ dst' = [dst EXCEPT ![x] = dst[p]]
     /\ UNCHANGED disk
  \/ /\ ~(TypeAt(p) \in {"file", "link", "other"} /\ Free(x)) \/ DiskMayFill
     /\ UNCHANGED <<dst, disk>>

(* link(2): a second name for the inode at x, which is no directory. *)
Hardlink(x, p) ==
  \/ /\ TypeAt(x) \in {"file", "link", "other"}
     /\ Free(p)
     /\ dst' = [dst EXCEPT ![p] = dst[x]]
     /\ UNCHANGED disk
  \/ /\ ~(TypeAt(x) \in {"file", "link", "other"} /\ Free(p)) \/ DiskMayFill
     /\ UNCHANGED <<dst, disk>>

-----------------------------------------------------------------------------
Init ==
  /\ src \in Sources
  /\ \E r \in Roots : dst = r.dst /\ disk = r.disk
  \* Bound: where the package has a directory the prefix has no symbolic
  \* link to one, so no path of the walk leads through a symbolic link.
  /\ \A p \in Paths :
       src[p].obj = Dir /\ TypeAt(p) = "link" => ObjAt(p) = Symlink(0)
  /\ pos = 1
  /\ in_list = <<>>
  /\ log = <<>>
  /\ stuck = FALSE

(* Mutant: an entry is read and passed over. *)
VisitPassesOver(p) ==
  /\ pos = p
  /\ ~stuck
  /\ pos' = p + 2
  /\ UNCHANGED <<src, stuck>>

(* fts_read() returns path p, and the switch on fts_info takes it. *)
Visit(p) ==
  /\ pos = p
  /\ ~stuck
  /\ pos' = p + 1
  /\ UNCHANGED <<src, stuck>>

(* The callback of copy(): copy_log_() writes the path to the install log. *)
Callback(p) == log' = Append(log, p)

VisitDir(p) ==
  /\ Visit(p)
  /\ src[p].obj = Dir
  /\ \/ /\ Exists(p)
        /\ UNCHANGED <<dst, disk>>
     \/ /\ ~Exists(p)
        /\ Create(p, Dir)
  /\ Callback(p)
  /\ UNCHANGED in_list

Readable(p) == src[p].obj # File(Unreadable)

VisitNode(p) ==
  /\ Visit(p)
  /\ src[p].obj.type \in {"file", "link"}
  /\ ~HardLinked(p)
  /\ Readable(p)
  /\ CopyNode(p)
  /\ Callback(p)
  /\ UNCHANGED in_list

(* copy_hlink() on an inode met for the first time: copied and remembered. *)
VisitFirstName(p) ==
  /\ Visit(p)
  /\ src[p].obj.type \in {"file", "link"}
  /\ HardLinked(p)
  /\ in_search(src[p].ino) = 0
  /\ Readable(p)
  /\ CopyNode(p)
  /\ in_append(src[p].ino, p)
  /\ Callback(p)

(* copy_hlink() on an inode the table knows: link(x, dest), unchecked. *)
VisitLaterName(p) ==
  /\ Visit(p)
  /\ src[p].obj.type \in {"file", "link"}
  /\ HardLinked(p)
  /\ in_search(src[p].ino) # 0
  /\ Hardlink(in_search(src[p].ino), p)
  /\ Callback(p)
  /\ UNCHANGED in_list

(* Mutant: the loop goes round without reading the next entry. *)
SkipStays(p) ==
  /\ pos = p
  /\ ~stuck
  /\ src[p].obj \in {Other, Nothing}
  /\ UNCHANGED vars

(* No case of the switch: FTS_DEFAULT; and numbers the tree does not use. *)
Skip(p) ==
  /\ Visit(p)
  /\ src[p].obj \in {Other, Nothing}
  /\ UNCHANGED <<dst, disk, in_list, log>>

(***************************************************************************)
(* copy_file() on a source that cannot be opened: the destination is        *)
(* opened, then read(2) returns -1 for ever and the loop, which only stops  *)
(* at 0, never ends.                                                        *)
(***************************************************************************)
Spin(p) ==
  /\ pos = p
  /\ ~stuck
  /\ ~Readable(p)
  /\ HardLinked(p) => in_search(src[p].ino) = 0
  /\ CopyFile(p, Torn)
  /\ stuck' = TRUE
  /\ UNCHANGED <<src, pos, in_list, log>>

(***************************************************************************)
(* copy_file() where a fifo stands: open(2) for writing waits for a reader  *)
(* that never comes, whether or not the source could be opened.             *)
(***************************************************************************)
Block(p) ==
  /\ pos = p
  /\ ~stuck
  /\ src[p].obj.type = "file"
  /\ HardLinked(p) => in_search(src[p].ino) = 0
  /\ \E t \in Found(p) : TypeAt(t) = "other"
  /\ stuck' = TRUE
  /\ UNCHANGED <<src, dst, disk, pos, in_list, log>>

Next ==
  \E p \in Paths :
    \/ VisitDir(p)
    \/ VisitNode(p)
    \/ VisitFirstName(p)
    \/ VisitLaterName(p)
    \/ Skip(p)
    \/ Spin(p)
    \/ Block(p)

(* The loop runs in one thread that nothing in the program suspends. *)
Spec     == Init /\ [][Next]_vars
FairSpec == Spec /\ WF_vars(Next)

-----------------------------------------------------------------------------
(***************************************************************************)
(* Properties.                                                              *)
(***************************************************************************)
Packaged(p) == src[p].obj \notin {Other, Nothing}
Copied == {p \in Paths : p < pos /\ Packaged(p)}

(* On a full disk a copy may be missing or torn; never another file. *)
Faithful(p) ==
  \/ ObjAt(p) = src[p].obj
  \/ DiskMayFill /\ ObjAt(p) \in {Nothing, File(Torn)}

(* Inode numbers that an int holds: no two of the tree are cut to the same. *)
InodesFitInt == \A p, q \in Paths :
                  AsInt(src[p].ino) = AsInt(src[q].ino) => src[p].ino = src[q].ino

(***************************************************************************)
(* A prefix the package can be laid over: what is there already is of the   *)
(* same type as in the package; a link there leads to a file or directory,  *)
(* so that stat(2) finds it; files there share inodes as they do in the     *)
(* package; and of a package's hard links the first is not the missing one. *)
(* A prefix that holds none of the paths is the simplest case.              *)
(***************************************************************************)
LeadsToFileOrDir(p) ==
  ObjAt(p).to # 0 /\ TypeAt(ObjAt(p).to) \in {"file", "dir"}

Compatible(p) ==
  /\ TypeAt(p) = src[p].obj.type
  /\ TypeAt(p) = "link" => ~HardLinked(p) /\ LeadsToFileOrDir(p)
  /\ TypeAt(p) = "file" => \A q \in Paths : Packaged(q) =>
       /\ dst[q] # 0 => (dst[p] = dst[q] <=> src[p].ino = src[q].ino)
       /\ q < p /\ src[p].ino = src[q].ino => dst[q] # 0

Upgradable == \A p \in Paths : Packaged(p) /\ dst[p] # 0 => Compatible(p)

UpgradeInit == Init /\ Upgradable /\ InodesFitInt
UpgradeSpec == UpgradeInit /\ [][Next]_vars

(***************************************************************************)
(* Over such a prefix, every path walked so far shows the package's file,   *)
(* link or directory, whatever the order of links and of shared inodes and  *)
(* whatever the links of the prefix lead to.                                *)
(***************************************************************************)
ContentFaithful == \A p \in Copied : Faithful(p)

(***************************************************************************)
(* Over such a prefix, two copied names share an inode exactly when they do *)
(* in the package: copy_hlink() neither splits nor merges hard links.       *)
(***************************************************************************)
HardLinksPreserved ==
  \A p, q \in Copied :
    dst[p] # 0 /\ dst[q] # 0 => (dst[p] = dst[q] <=> src[p].ino = src[q].ino)

(***************************************************************************)
(* The walk does not disturb what it has yet to visit: what stands ahead of *)
(* it in such a prefix stays something the package can be laid over.        *)
(***************************************************************************)
AheadCompatible ==
  ~stuck => \A p \in Paths :
              p >= pos /\ Packaged(p) /\ dst[p] # 0 => Compatible(p)

(***************************************************************************)
(* in_list.c: the table has one entry for every inode number met, and the   *)
(* entry names a path already copied from an inode with that number.        *)
(***************************************************************************)
TableSound ==
  /\ \A j \in DOMAIN in_list :
       /\ in_list[j].hlink \in Copied
       /\ AsInt(src[in_list[j].hlink].ino) = in_list[j].old_ino
  /\ \A j, k \in DOMAIN in_list :
       in_list[j].old_ino = in_list[k].old_ino => j = k
  /\ \A p \in Copied :
       HardLinked(p) => \E j \in DOMAIN in_list : in_list[j].old_ino = AsInt(src[p].ino)

(***************************************************************************)
(* Whatever the prefix held, one iteration of the loop changes what a path  *)
(* shows only if it is the path visited, or another name of the inode the   *)
(* visited path leads to.                                                   *)
(***************************************************************************)
BystandersKept ==
  [][\A q \in Paths :
       ObjAt(q)' # ObjAt(q) =>
         q = pos \/ \E t \in Found(pos) : dst[q] = dst[t]]_vars

(***************************************************************************)
(* The walk ends if it can read every source file and the prefix begins     *)
(* with no fifo, socket or device below it: whatever else stands there, no  *)
(* chain of links and no failing call keeps it from its end.                *)
(***************************************************************************)
Terminates ==
  (\A p \in Paths : Readable(p) /\ TypeAt(p) # "other") => <>(pos = N + 1)
=============================================================================
