------------------------------ MODULE Registry ------------------------------
(***************************************************************************)
(* sqlfrms.c: packages and their numbers in the database.  Several          *)
(* processes use it; every SQL statement is one transaction of sqlite, and  *)
(* no time-out is set, so that a statement that meets the lock of a writer  *)
(* fails at once (SQLITE_BUSY) and looks like one that finds nothing.       *)
(*                                                                         *)
(* The tables are those of doc/mpkg_diagrams/mpkg_database.uxf: all_pkgs,   *)
(* which OS maintainers add to, one table of releases for each branch, and  *)
(* installed, with a row for each update_db().                              *)
(***************************************************************************)
EXTENDS Integers, Sequences

CONSTANTS
  Names,        \* names of packages
  pkgID,        \* pkgID[x]: the number of x in all_pkgs, its primary key
  pkgBranch,    \* pkgBranch[x]: its branch
  Releases,     \* Releases[b]: the rows of the table of branch b, if there is one
  SYS_ARCH,     \* the architecture that archive_name() asks for
  Callers,      \* processes
  HalfInt,      \* an int goes from 0 - HalfInt to HalfInt - 1
  Digits,       \* the numbers whose text pkg_id[10] holds
  MaxRows,      \* bound: how many rows there are in table installed
  NoName, NULL, Garbage

ASSUME NumberAssumption ==
  /\ pkgID \in [Names -> Nat]
  /\ \A x, y \in Names : x # y => pkgID[x] # pkgID[y]
  /\ HalfInt \in Nat \ {0}
  /\ MaxRows \in Nat
  /\ NoName \notin Names

(* The tables hold no text that stands for one never set. *)
ASSUME ReleaseAssumption ==
  \A b \in DOMAIN Releases : \A i \in 1 .. Len(Releases[b]) : Releases[b][i].ver # Garbage

NoCaller == "nobody"
ASSUME CallerAssumption == NoCaller \notin Callers

VARIABLES
  all_pkgs,    \* the names that the table all_pkgs has
  installed,   \* the rows of table installed, by rowid; of: history, whose it is
  writer,      \* who holds the lock of a writer
  pc,          \* what each caller is doing
  str,         \* the name it has been given
  pkg_id,      \* the number it has found
  reply,       \* what it is told
  missed,      \* history: why its number is -1: "no", "unknown" or "busy"
  before       \* history: the rows there were when it was called

vars == <<all_pkgs, installed, writer, pc, str, pkg_id, reply, missed, before>>

Ops      == {"is_installed", "update_db", "archive_name"}

Init ==
  /\ all_pkgs \in SUBSET Names
  /\ installed = <<>>
  /\ writer = NoCaller
  /\ pc = [c \in Callers |-> "idle"]
  /\ str = [c \in Callers |-> NoName]
  /\ pkg_id = [c \in Callers |-> -1]
  /\ reply = [c \in Callers |-> NULL]
  /\ missed = [c \in Callers |-> "no"]
  /\ before = [c \in Callers |-> 0]

-----------------------------------------------------------------------------
(* sqlite3_column_int(): the low 32 bits, as an int. *)
AsInt(n) == ((n + HalfInt) % (2 * HalfInt)) - HalfInt

(* The maintainers add a package. *)
Publish ==
  /\ \E x \in Names \ all_pkgs : all_pkgs' = all_pkgs \cup {x}
  /\ UNCHANGED <<installed, writer, pc, str, pkg_id, reply, missed, before>>

Goto(c, place) == pc' = [pc EXCEPT ![c] = place]
(* The call returns; what the caller knew is gone. *)
Return(c) ==
  /\ Goto(c, "idle")
  /\ str' = [str EXCEPT ![c] = NoName]
  /\ pkg_id' = [pkg_id EXCEPT ![c] = -1]
  /\ reply' = [reply EXCEPT ![c] = NULL]
  /\ missed' = [missed EXCEPT ![c] = "no"]
  /\ before' = [before EXCEPT ![c] = 0]

Call(c) ==
  /\ pc[c] = "idle"
  /\ \E x \in Names, op \in Ops : str' = [str EXCEPT ![c] = x] /\ Goto(c, op)
  /\ before' = [before EXCEPT ![c] = Len(installed)]
  /\ UNCHANGED <<all_pkgs, installed, writer, pkg_id, reply, missed>>

Locked(c) == writer \notin {c, NoCaller}
Then(c)   == Goto(c, IF pc[c] = "is_installed" THEN "select" ELSE "insert")

(* get_pkgID() *)
FindID(c) ==
  /\ pc[c] \in {"is_installed", "update_db"}
  /\ str[c] \in all_pkgs
  /\ pkg_id' = [pkg_id EXCEPT ![c] = AsInt(pkgID[str[c]])]
  /\ Then(c)
  /\ UNCHANGED <<all_pkgs, installed, writer, str, reply, missed, before>>

(* -1: no such row, or no answer from a database that is locked. *)
MissID(c) ==
  /\ pc[c] \in {"is_installed", "update_db"}
  /\ str[c] \notin all_pkgs \/ Locked(c)
  /\ missed' = [missed EXCEPT ![c] = IF str[c] \in all_pkgs THEN "busy" ELSE "unknown"]
  /\ Then(c)
  /\ UNCHANGED <<all_pkgs, installed, writer, str, pkg_id, reply, before>>

-----------------------------------------------------------------------------
(* Mutant: the latest row. *)
RowOfLast(id) == CHOOSE i \in 0 .. Len(installed) :
               /\ i > 0 => installed[i].pkgID = id
               /\ \A j \in i + 1 .. Len(installed) : installed[j].pkgID # id
(* Mutant: the first row is passed over. *)
RowOfNext(id) == CHOOSE i \in 0 .. Len(installed) :
               /\ i > 0 => i > 1 /\ installed[i].pkgID = id
               /\ \A j \in 2 .. IF i = 0 THEN Len(installed) ELSE i - 1 : installed[j].pkgID # id
(* The first row that a scan of the table meets; 0 if there is none. *)
RowOf(id) == CHOOSE i \in 0 .. Len(installed) :
               /\ i > 0 => installed[i].pkgID = id
               /\ \A j \in 1 .. IF i = 0 THEN Len(installed) ELSE i - 1 : installed[j].pkgID # id

(* is_installed(): its second statement. *)
is_installed(c) ==
  /\ pc[c] = "select"
  /\ \/ /\ reply' = [reply EXCEPT ![c] = IF RowOf(pkg_id[c]) = 0 THEN -1 ELSE RowOf(pkg_id[c])]
        /\ UNCHANGED missed
     \/ /\ Locked(c)
        /\ reply' = [reply EXCEPT ![c] = -1]
        /\ missed' = [missed EXCEPT ![c] = "busy"]
  /\ Goto(c, "told")
  /\ UNCHANGED <<all_pkgs, installed, writer, str, pkg_id, before>>

(* update_db(): sprintf() of the number writes past pkg_id[10]. *)
Overflows(c) ==
  /\ pc[c] = "insert"
  /\ pkg_id[c] \notin Digits
  /\ Return(c)
  /\ UNCHANGED <<all_pkgs, installed, writer>>

(* The INSERT takes the lock of a writer and writes its row with the commit. *)
BeginInsert(c) ==
  /\ pc[c] = "insert"
  /\ writer = NoCaller /\ Len(installed) < MaxRows
  /\ writer' = c
  /\ Goto(c, "commit")
  /\ UNCHANGED <<all_pkgs, installed, str, pkg_id, reply, missed, before>>

(* Mutant: a statement that is refused is not finalized, and keeps its lock. *)
RefuseInsertHolds(c) ==
  /\ pc[c] \in {"insert", "commit"}
  /\ Return(c)
  /\ UNCHANGED <<all_pkgs, installed, writer>>
(***************************************************************************)
(* A warning: the database is locked, by a reader at the commit too, or the *)
(* statement is none: a value has an apostrophe, the table is not there.    *)
(***************************************************************************)
RefuseInsert(c) ==
  /\ pc[c] \in {"insert", "commit"}
  /\ Return(c)
  /\ writer' = IF writer = c THEN NoCaller ELSE writer
  /\ UNCHANGED <<all_pkgs, installed>>

(* Mutant: the number is looked up again at the time of the INSERT. *)
CommitAnew(c) ==
  /\ pc[c] = "commit"
  /\ installed' = Append(installed, [pkgID |-> IF str[c] \in all_pkgs THEN AsInt(pkgID[str[c]]) ELSE -1,
                                     of |-> str[c], missed |-> missed[c]])
  /\ writer' = NoCaller
  /\ Return(c)
  /\ UNCHANGED all_pkgs
Commit(c) ==
  /\ pc[c] = "commit"
  /\ installed' = Append(installed, [pkgID |-> pkg_id[c], of |-> str[c], missed |-> missed[c]])
  /\ writer' = NoCaller
  /\ Return(c)
  /\ UNCHANGED all_pkgs

-----------------------------------------------------------------------------
(* Mutant: the architecture is not asked for. *)
ReleaseAny(x) ==
  LET table == Releases[pkgBranch[x]]
  IN  {table[i].ver : i \in {j \in 1 .. Len(table) : table[j].pkgID = AsInt(pkgID[x])}}
(* The second SELECT of archive_name(). *)
Release(x) ==
  LET table == Releases[pkgBranch[x]]
  IN  {table[i].ver : i \in {j \in 1 .. Len(table) : table[j].pkgID = AsInt(pkgID[x])
                                                     /\ table[j].pkgArch = SYS_ARCH}}

(***************************************************************************)
(* archive_name(): both statements see one state of the database.  Where    *)
(* the second finds no row, version and release are never set.              *)
(***************************************************************************)
archive_name(c) ==
  /\ pc[c] = "archive_name"
  /\ LET x == str[c]
     IN  \/ /\ x \notin all_pkgs \/ Locked(c) \/ pkgBranch[x] \notin DOMAIN Releases
            /\ reply' = [reply EXCEPT ![c] = NULL]
         \/ /\ x \in all_pkgs /\ pkgBranch[x] \in DOMAIN Releases
            /\ \E ver \in IF Release(x) = {} THEN {Garbage} ELSE Release(x) :
                 reply' = [reply EXCEPT ![c] = [name |-> x, ver |-> ver]]
  /\ Goto(c, "named")
  /\ UNCHANGED <<all_pkgs, installed, writer, str, pkg_id, missed, before>>

NameCrashes(c) ==
  /\ pc[c] = "archive_name" /\ str[c] \in all_pkgs
  /\ pkgBranch[str[c]] \in DOMAIN Releases /\ Release(str[c]) = {}
  /\ Return(c)
  /\ UNCHANGED <<all_pkgs, installed, writer>>

Done(c) ==
  /\ pc[c] \in {"told", "named"}
  /\ Return(c)
  /\ UNCHANGED <<all_pkgs, installed, writer>>

(* A process that is killed: sqlite takes back what it had not committed. *)
Kill(c) ==
  /\ pc[c] # "idle"
  /\ Return(c)
  /\ writer' = IF writer = c THEN NoCaller ELSE writer
  /\ UNCHANGED <<all_pkgs, installed>>

Next ==
  \/ Publish
  \/ \E c \in Callers :
       \/ Call(c) \/ FindID(c) \/ MissID(c) \/ is_installed(c)
       \/ Overflows(c) \/ BeginInsert(c) \/ RefuseInsert(c) \/ Commit(c)
       \/ archive_name(c) \/ NameCrashes(c) \/ Done(c) \/ Kill(c)

Spec == Init /\ [][Next]_vars
-----------------------------------------------------------------------------
(* The types, and the lock: its holder is a caller that commits. *)
TypeOK ==
  /\ all_pkgs \subseteq Names
  /\ installed \in Seq([pkgID : Int, of : Names, missed : {"no", "unknown", "busy"}])
  /\ pc \in [Callers -> Ops \cup {"idle", "select", "insert", "commit", "told", "named"}]
  /\ \A c \in Callers : pc[c] = "commit" <=> writer = c
  /\ writer \in Callers \cup {NoCaller}
  /\ str \in [Callers -> Names \cup {NoName}]
  /\ \A c \in Callers : str[c] = NoName <=> pc[c] = "idle"
  /\ pkg_id \in [Callers -> Int]
  /\ DOMAIN reply = Callers
  /\ missed \in [Callers -> {"no", "unknown", "busy"}]
  /\ before \in [Callers -> Nat]

(* A number that an int holds as it is. *)
InInt(x) == pkgID[x] < HalfInt

(***************************************************************************)
(* A row says which package it is of, or has the number -1, and that only   *)
(* if update_db() found the package unknown or the database locked,         *)
(* whatever the maintainers and other callers did meanwhile.                *)
(***************************************************************************)
RowNamed ==
  \A i \in 1 .. Len(installed) :
    installed[i].pkgID = IF installed[i].missed = "no" THEN AsInt(pkgID[installed[i].of]) ELSE -1

(***************************************************************************)
(* If is_installed() found the number of its package, and that fits an int, *)
(* then the row it tells of was made under that number, is older than every *)
(* other such row of the package, and is the package's own unless its       *)
(* number, too, was cut.                                                    *)
(***************************************************************************)
AnswerRight ==
  \A c \in Callers : pc[c] = "told" /\ reply[c] # -1 /\ missed[c] = "no" /\ InInt(str[c]) =>
    LET row == installed[reply[c]]
    IN  /\ row.missed = "no" /\ AsInt(pkgID[row.of]) = pkgID[str[c]]
        /\ InInt(row.of) => row.of = str[c]
        /\ \A j \in 1 .. reply[c] - 1 :
             ~(installed[j].of = str[c] /\ installed[j].missed = "no")

(***************************************************************************)
(* What the comment of is_installed() says: it checks whether the package   *)
(* named str is installed, and returns -1 on errors.  An unknown name has   *)
(* the number -1, which is looked for like any other, and so finds the row  *)
(* that update_db() made for another unknown name.                          *)
(***************************************************************************)
AnswerIsAsked ==
  \A c \in Callers : pc[c] = "told" /\ reply[c] # -1 => installed[reply[c]].of = str[c]

(***************************************************************************)
(* is_installed() tells of every package that was recorded under its number *)
(* before the call, unless the database was locked at one of the two        *)
(* statements or the package is unknown.                                    *)
(***************************************************************************)
KnownIsTold ==
  \A c \in Callers : pc[c] = "told" /\ reply[c] = -1 /\ missed[c] = "no" =>
    \A i \in 1 .. before[c] : ~(installed[i].of = str[c] /\ installed[i].missed = "no")

(***************************************************************************)
(* An archive name has a version that the branch of the package has for its *)
(* number and this architecture; it is garbage only if there is none.       *)
(***************************************************************************)
ArchiveNameRight ==
  \A c \in Callers : pc[c] = "named" /\ reply[c] # NULL /\ InInt(str[c]) =>
    LET table == Releases[pkgBranch[str[c]]]
        Right == {i \in 1 .. Len(table) : table[i].pkgID = pkgID[str[c]]
                                           /\ table[i].pkgArch = SYS_ARCH}
    IN  IF reply[c].ver = Garbage THEN Right = {} ELSE \E i \in Right : table[i].ver = reply[c].ver
=============================================================================
