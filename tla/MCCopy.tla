------------------------------- MODULE MCCopy -------------------------------
(* Instances of Copy: the trees and prefixes TLC starts the walk from. *)
EXTENDS Copy

CONSTANTS c1, c2    \* two different file contents

(* d/, d/a, d/b, e: a directory with two entries, and an entry beside it. *)
TreeParent == <<0, 1, 1, 0>>
(* d/, d/a, e. *)
SmallParent == <<0, 1, 0>>
(* a, b, c side by side. *)
FlatParent == [p \in Paths |-> 0]

(***************************************************************************)
(* Which names share an inode is what matters, not its number: an inode is  *)
(* numbered by its first name, and 0 stands for a name that is not there.   *)
(***************************************************************************)
Numberings ==
  {f \in [Paths -> 0 .. N] :
     \A p \in Paths : f[p] <= p /\ (f[p] # 0 => f[f[p]] = f[p])}

TreesOver(objects) ==
  {s \in {[p \in Paths |-> IF f[p] = 0 THEN [ino |-> p, obj |-> Nothing]
                                       ELSE [ino |-> f[p], obj |-> o[f[p]]]] :
            f \in Numberings, o \in [Paths -> objects]} : SourceTree(s)}

PrefixesOver(objects) ==
  {r \in {[dst |-> f, disk |-> [i \in Paths |-> IF f[i] = i THEN o[i] ELSE Dir]] :
            f \in Numberings, o \in [Paths -> objects]} : IsTree(r.dst, r.disk)}

(* Packages that open(2) can read, and prefixes they may be laid over. *)
CleanSources    == TreesOver({File(c1), File(c2), Symlink(1), Dir})
UpgradePrefixes == PrefixesOver({File(c1), Symlink(3), Dir})

(* Packages of every kind of entry, and prefixes of every kind. *)
AnySources  == TreesOver({File(c1), File(c2), File(Unreadable), Symlink(2), Dir, Other})
AnyPrefixes ==
  PrefixesOver({File(c1), File(c2), Symlink(1), Symlink(3), Symlink(0), Dir, Other})

(* Packages and prefixes that only hold files. *)
FileSources  == TreesOver({File(c1), File(c2)})
FilePrefixes == PrefixesOver({File(c1)})
=============================================================================
