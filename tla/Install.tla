------------------------------- MODULE Install -------------------------------
(***************************************************************************)
(* mpkg() of mpkg.c: what one invocation does with TMP_DIR, the prefix, the *)
(* install logs and the database, all of which it shares with every other   *)
(* invocation, earlier ones and ones that run beside it; any of them may be *)
(* killed between two steps, and any call on a Frail file may fail.         *)
(*                                                                         *)
(* Copy and Archive hold the detail of copy() and of ar.c; here a file is   *)
(* known by the package it comes from.  The paths of TMP_DATA_DIR are those *)
(* of Copy: 1 .. N in the order of fts_read().                              *)
(***************************************************************************)
EXTENDS Integers, FiniteSets

CONSTANTS
  N,           \* number of paths
  Parent,      \* Parent[p]: the directory that holds p; 0 is TMP_DATA_DIR
  Kind,        \* Kind[p]: "file", "dir", or "other", what fts(3) calls FTS_DEFAULT
  Packages,    \* archives, each with a package of its own name in it
  Contents,    \* Contents[k]: the paths in data.tar.gz of package k
  MaxRuns,     \* bound: how many invocations there are
  NoPackage,   \* a file that is not an archive
  Together,    \* how many invocations there may be at one time
  Frail        \* where a call may fail that nothing in TMP_DIR stands in the way of

Paths == 1 .. N

(* The invocations, numbered in the order in which they start. *)
Runs  == 1 .. MaxRuns
NoRun == 0

(* What TMP_DIR holds that a later step looks at; it is a node itself.      *)
TmpDir  == 0 - 2
DataTar == 0 - 1
DataDir == 0
Nodes   == {TmpDir, DataTar} \cup 0 .. N
Up(n)   == IF n \in Paths THEN Parent[n] ELSE TmpDir
KindOf(n) == IF n \in Paths THEN Kind[n]
             ELSE IF n = DataTar THEN "file" ELSE "dir"

(***************************************************************************)
(* What stands at a path: nothing of a package, a directory, a file of a    *)
(* package as tar(1) left it, or one that lost bytes when it was copied.    *)
(***************************************************************************)
Absent == "absent"
Made   == "made"
Torn   == "torn"
Shape(n, k) == IF KindOf(n) = "dir" THEN Made ELSE k

ASSUME PathAssumption ==
  /\ N \in Nat
  /\ Parent \in [Paths -> 0 .. N]
  /\ Kind \in [Paths -> {"file", "dir", "other"}]
  /\ \A p \in Paths : Parent[p] < p /\ (Parent[p] # 0 => Kind[Parent[p]] = "dir")

ASSUME PackageAssumption ==
  /\ Packages \cap {Absent, Made, Torn, NoPackage} = {}
  /\ Contents \in [Packages -> SUBSET Paths]
  /\ \A k \in Packages : \A p \in Contents[k] : Parent[p] # 0 => Parent[p] \in Contents[k]

ASSUME RunAssumption ==
  /\ MaxRuns \in Nat
  /\ Together \in Nat
  /\ Frail \subseteq Nodes

VARIABLES
  pc,      \* where each invocation is
  arg,     \* its arguments: archive, iflag, clean_temps
  tmp,     \* what stands at every node of TMP_DIR
  whole,   \* all bytes of data.tar.gz have been written
  writer,  \* who has data.tar.gz open for writing under its name
  listed,  \* the entries a walk or tar(1) has still to come to
  from,    \* the package whose data.tar.gz an invocation's tar(1) reads
  ok,      \* what tar_extract() returned
  root,    \* the prefix
  fd,      \* whether the open(2) of the install log gave a descriptor
  logs,    \* the install logs: who made each and the paths in it
  db,      \* the rows of table installed
  met,     \* history: another invocation, or its tar(1), ran at the same time
  stale,   \* history: prepare_tempds() failed to remove what can be removed
  lost     \* history: paths on which copy(), or its callback, had a call fail

history == <<met, stale, lost>>
vars == <<pc, arg, tmp, whole, writer, listed, from, ok, root, fd, logs, db, history>>

Args  == [archive : Packages \cup {NoPackage}, install : BOOLEAN, clean : BOOLEAN]
NoArg == [archive |-> NoPackage, install |-> FALSE, clean |-> TRUE]

Running == {"prepare", "mktmp", "mkdata", "open", "extract", "write", "tar",
            "untar", "orphan", "log", "copy", "spin", "record", "windup"}
Ended   == {"done", "killed", "crashed"}
Active  == {r \in Runs : pc[r] \in Running}

Init ==
  /\ pc = [r \in Runs |-> "idle"]
  /\ arg = [r \in Runs |-> NoArg]
  /\ tmp = [n \in Nodes |-> Absent]
  /\ whole = FALSE
  /\ writer = NoRun
  /\ listed = [r \in Runs |-> {}]
  /\ from = [r \in Runs |-> NoPackage]
  /\ ok = [r \in Runs |-> TRUE]
  /\ root = [p \in Paths |-> Absent]
  /\ fd = [r \in Runs |-> FALSE]
  /\ logs = [k \in Packages |-> [by |-> NoRun, lines |-> {}]]
  /\ db = {}
  /\ met = [r \in Runs |-> FALSE]
  /\ stale = [r \in Runs |-> FALSE]
  /\ lost = [r \in Runs |-> {}]

PlacesTyped ==
  /\ pc \in [Runs -> Running \cup Ended \cup {"idle"}]
  /\ arg \in [Runs -> Args]
  /\ listed \in [Runs -> SUBSET Nodes]
  /\ from \in [Runs -> Packages \cup {NoPackage}]
  /\ ok \in [Runs -> BOOLEAN]
  /\ fd \in [Runs -> BOOLEAN]
  /\ met \in [Runs -> BOOLEAN]
  /\ stale \in [Runs -> BOOLEAN]
  /\ lost \in [Runs -> SUBSET Paths]
SharedTyped ==
  /\ tmp \in [Nodes -> Packages \cup {Absent, Made}]
  /\ whole \in BOOLEAN
  /\ writer \in Runs \cup {NoRun}
  /\ root \in [Paths -> Packages \cup {Absent, Made, Torn}]
  /\ logs \in [Packages -> [by : Runs \cup {NoRun}, lines : SUBSET Paths]]
  /\ db \subseteq [run : Runs, pkg : Packages]
TmpIsTree == \A n \in Nodes : tmp[n] # Absent => tmp[Up(n)] # Absent
DataTarOK ==
  /\ tmp[DataTar] # Made
  /\ whole => tmp[DataTar] \in Packages
  /\ writer # NoRun => pc[writer] = "write" /\ tmp[DataTar] \in Packages /\ ~whole

(* TMP_DIR stays a tree, and only one invocation writes data.tar.gz. *)
TypeOK == PlacesTyped /\ SharedTyped /\ TmpIsTree /\ DataTarOK

-----------------------------------------------------------------------------
Goto(r, place)  == pc' = [pc EXCEPT ![r] = place]
ListOf(r, some) == listed' = [listed EXCEPT ![r] = some]
(* The memory and the descriptors of a process end with it. *)
End(r, how) ==
  /\ Goto(r, how)
  /\ ListOf(r, {})
  /\ arg'    = [arg EXCEPT ![r] = NoArg]
  /\ from'   = [from EXCEPT ![r] = NoPackage]
  /\ fd'     = [fd EXCEPT ![r] = FALSE]
  /\ writer' = IF writer = r THEN NoRun ELSE writer

Least(S) == CHOOSE x \in S : \A y \in S : x <= y

Present     == {n \in Nodes : tmp[n] # Absent}
Children(d) == {n \in Present \cap Paths : Up(n) = d}

(***************************************************************************)
(* prepare_tempds() and the first part of mpkg().  A walk of remove_tmpdir()*)
(* begins with what is there.                                               *)
(***************************************************************************)
(* Mutant: what an earlier invocation left is not removed. *)
PrepareKeeps(r) == Goto(r, "mktmp") /\ UNCHANGED listed
Prepare(r)      == Goto(r, "prepare") /\ ListOf(r, Present)

Start(r) ==
  /\ pc[r] = "idle" /\ \A q \in 1 .. r - 1 : pc[q] # "idle"
  /\ Cardinality(Active) < Together
  /\ \E a \in Args : arg' = [arg EXCEPT ![r] = a]
  /\ Prepare(r)
  /\ met' = [q \in Runs |-> met[q] \/ (Active # {} /\ q \in Active \cup {r})]
  /\ UNCHANGED <<tmp, whole, writer, from, ok, root, fd, logs, db, stale, lost>>

(* remove(3) is called on all but FTS_DEFAULT, and fails on a full directory. *)
Removable(n) ==
  /\ tmp[n] # Absent /\ KindOf(n) # "other"
  /\ \A m \in Present : m # TmpDir => Up(m) # n

(***************************************************************************)
(* One remove(3) of remove_tmpdir().  A directory comes after what it holds;*)
(* an entry that appears during the walk may be met or not.  A remove(3)    *)
(* may fail, which is a warning: a file below a read-only directory, or the *)
(* TMP_DIR of another user.  What a directory holds that cannot be read is  *)
(* not come to, which is the same as failing on all of it.                  *)
(***************************************************************************)
RemoveOne(r) ==
  /\ pc[r] \in {"prepare", "windup"}
  /\ TmpDir \in listed[r]
  /\ \E n \in listed[r] \cup {m \in Nodes : Removable(m) /\ m # TmpDir} :
       /\ \A m \in listed[r] \ {n, TmpDir} : Up(m) # n
       /\ n = TmpDir => listed[r] = {TmpDir}
       /\ ListOf(r, listed[r] \ {n})
       /\ \/ /\ Removable(n)
             /\ tmp' = [tmp EXCEPT ![n] = Absent]
             /\ whole' = (whole /\ n # DataTar)
             /\ writer' = IF n = DataTar THEN NoRun ELSE writer
             /\ UNCHANGED stale
          \/ /\ Removable(n) => n \in Frail
             /\ stale' = [stale EXCEPT ![r] = @ \/ (pc[r] = "prepare" /\ Removable(n))]
             /\ UNCHANGED <<tmp, whole, writer>>
  /\ UNCHANGED <<pc, arg, from, ok, root, fd, logs, db, met, lost>>

RemoveEnds(r) ==
  /\ listed[r] = {}
  /\ \/ pc[r] = "prepare" /\ Goto(r, "mktmp") /\ UNCHANGED <<arg, writer, listed, from, fd>>
     \/ pc[r] = "windup" /\ End(r, "done")
  /\ UNCHANGED <<tmp, whole, ok, root, logs, db, history>>

(* mkdir(2), which fails where the name is there or its directory is not. *)
Mkdir(n) ==
  \/ /\ n # TmpDir => tmp[TmpDir] # Absent
     /\ tmp' = [tmp EXCEPT ![n] = Made]
  \/ /\ n \in Frail \/ tmp[n] # Absent \/ tmp[TmpDir] = Absent
     /\ UNCHANGED tmp

MakeTmp(r) ==
  /\ pc[r] = "mktmp"
  /\ Mkdir(TmpDir)
  /\ Goto(r, "mkdata")
  /\ UNCHANGED <<arg, whole, writer, listed, from, ok, root, fd, logs, db, history>>

MakeData(r) ==
  /\ pc[r] = "mkdata"
  /\ Mkdir(DataDir)
  /\ Goto(r, "open")
  /\ UNCHANGED <<arg, whole, writer, listed, from, ok, root, fd, logs, db, history>>

(* wind_up: remove_tmpdir() unless --keep-temp. *)
WindUp(r) ==
  /\ Goto(r, "windup")
  /\ ListOf(r, IF arg[r].clean THEN Present ELSE {})

(* ar_open(), the info member, and --info, which touches no shared state. *)
OpenArchive(r) ==
  /\ pc[r] = "open"
  /\ arg[r].archive # NoPackage
  /\ \/ arg[r].install /\ Goto(r, "extract") /\ UNCHANGED listed
     \/ ~arg[r].install /\ WindUp(r)
  /\ UNCHANGED <<arg, tmp, whole, writer, from, ok, root, fd, logs, db, history>>

(* goto wind_up: info_unload() is given an uninitialized pointer. *)
OpenFails(r) ==
  /\ pc[r] = "open"
  /\ arg[r].archive = NoPackage
  /\ \/ End(r, "crashed")
     \/ WindUp(r) /\ UNCHANGED <<arg, writer, from, fd>>
  /\ UNCHANGED <<tmp, whole, ok, root, logs, db, history>>

-----------------------------------------------------------------------------
(***************************************************************************)
(* if (iflag): ar_extract_all(), tar(1), copy(), update_db().               *)
(***************************************************************************)
(* Mutant: the file is opened with O_TRUNC. *)
ExtractTruncates(r) ==
  /\ pc[r] = "extract" /\ tmp[TmpDir] # Absent
  /\ tmp' = [tmp EXCEPT ![DataTar] = arg[r].archive]
  /\ writer' = r
  /\ Goto(r, "write")
  /\ UNCHANGED <<arg, whole, listed, from, ok, root, fd, logs, db, history>>
(* open(2) of TMP_DIR/data.tar.gz with O_EXCL; it fails if it is there. *)
Extract(r) ==
  /\ pc[r] = "extract"
  /\ \/ /\ tmp[TmpDir] # Absent /\ tmp[DataTar] = Absent
        /\ tmp' = [tmp EXCEPT ![DataTar] = arg[r].archive]
        /\ writer' = r
        /\ Goto(r, "write")
     \/ /\ DataTar \in Frail \/ tmp[TmpDir] = Absent \/ tmp[DataTar] # Absent
        /\ Goto(r, "tar")
        /\ UNCHANGED <<tmp, writer>>
  /\ UNCHANGED <<arg, whole, listed, from, ok, root, fd, logs, db, history>>

(* The writes go to the file that was opened, removed since; one may fail. *)
Write(r) ==
  /\ pc[r] = "write"
  /\ \E all \in {TRUE, DataTar \notin Frail} : whole' = (whole \/ (writer = r /\ all))
  /\ writer' = IF writer = r THEN NoRun ELSE writer
  /\ Goto(r, "tar")
  /\ UNCHANGED <<arg, tmp, listed, from, ok, root, fd, logs, db, history>>

(* tar -xf TMP_DIR/data.tar.gz -C TMP_DATA_DIR: whatever archive is there. *)
Tar(r) ==
  /\ pc[r] = "tar"
  /\ \/ /\ tmp[DataTar] # Absent /\ tmp[DataDir] # Absent
        /\ from' = [from EXCEPT ![r] = tmp[DataTar]]
        /\ \E part \in SUBSET Contents[tmp[DataTar]] :
             /\ whole => part = Contents[tmp[DataTar]]
             /\ ListOf(r, part)
        /\ ok' = [ok EXCEPT ![r] = whole]
        /\ Goto(r, "untar")
     \/ /\ tmp[DataTar] = Absent \/ tmp[DataDir] = Absent
        /\ ok' = [ok EXCEPT ![r] = FALSE]
        /\ Goto(r, "log")
        /\ UNCHANGED <<from, listed>>
  /\ UNCHANGED <<arg, tmp, whole, writer, root, fd, logs, db, history>>

(* A path and every directory above it, TMP_DATA_DIR at the top. *)
Above == [p \in Paths |->
  {n \in 0 .. N : \A S \in SUBSET (0 .. N) :
     p \in S /\ (\A q \in S \ {0} : Parent[q] \in S) => n \in S}]

(***************************************************************************)
(* tar(1) replaces what is there and makes the directories that are         *)
(* missing.  It is a process of its own, and may outlive the one it is for. *)
(***************************************************************************)
TarRuns(r) == pc[r] \in {"untar", "orphan"}

TarOne(r) ==
  /\ TarRuns(r) /\ listed[r] # {}
  /\ tmp[DataDir] # Absent
  /\ LET p == Least(listed[r])
     IN  /\ tmp' = [n \in Nodes |-> IF n = p THEN Shape(p, from[r])
                                    ELSE IF n \in Above[p] THEN Made ELSE tmp[n]]
         /\ ListOf(r, listed[r] \ {p})
  /\ UNCHANGED <<pc, arg, whole, writer, from, ok, root, fd, logs, db, history>>

TarFails(r) ==
  /\ TarRuns(r) /\ listed[r] # {}
  /\ Least(listed[r]) \in Frail \/ tmp[DataDir] = Absent
  /\ ListOf(r, {})
  /\ ok' = [ok EXCEPT ![r] = FALSE]
  /\ UNCHANGED <<pc, arg, tmp, whole, writer, from, root, fd, logs, db, history>>

(* The result of tar_extract() is not looked at. *)
TarEnds(r) ==
  /\ pc[r] = "untar" /\ listed[r] = {}
  /\ Goto(r, "log")
  /\ UNCHANGED <<arg, tmp, whole, writer, listed, from, ok, root, fd, logs, db, history>>

OrphanEnds(r) ==
  /\ pc[r] = "orphan" /\ listed[r] = {}
  /\ End(r, "killed")
  /\ UNCHANGED <<tmp, whole, ok, root, logs, db, history>>

(* Mutant: the log is opened with O_TRUNC. *)
NewLogTruncates(r, k) ==
  /\ logs' = [logs EXCEPT ![k] = [by |-> r, lines |-> {}]]
  /\ fd' = [fd EXCEPT ![r] = TRUE]
(* open(2) with O_EXCL in ADMINISTRATIVE_DIR: fails where a log is there. *)
NewLog(r, k) ==
  \/ /\ logs[k].by = NoRun
     /\ logs' = [logs EXCEPT ![k] = [by |-> r, lines |-> {}]]
     /\ fd' = [fd EXCEPT ![r] = TRUE]
  \/ logs[k].by # NoRun /\ UNCHANGED <<logs, fd>>

OpenLog(r) ==
  /\ pc[r] = "log"
  /\ NewLog(r, arg[r].archive)
  /\ ListOf(r, Children(DataDir))
  /\ Goto(r, "copy")
  /\ UNCHANGED <<arg, tmp, whole, writer, from, ok, root, db, history>>

(* copy_log_(): the write(2) to a bad descriptor, or any other, fails unseen. *)
copy_log_(r, p, written) ==
  logs' = IF fd[r] /\ written
          THEN [logs EXCEPT ![arg[r].archive].lines = @ \cup {p}] ELSE logs

(***************************************************************************)
(* What mkdir(2), or open(2) and write(2), make of path p, and the callback *)
(* after them: none of these calls is asked whether it failed.  "unread" is *)
(* what the walk will not come to.                                          *)
(***************************************************************************)
Reached(p) == Parent[p] # 0 => root[Parent[p]] = Made
Lay(r, p, ideal, partial, unread) ==
  \E what \in {ideal, partial, root[p]}, line \in BOOLEAN :
    /\ what # root[p] => Reached(p)
    /\ what # ideal => p \in Frail \/ ~Reached(p)
    /\ ~line => p \in Frail /\ fd[r]
    /\ root' = [root EXCEPT ![p] = what]
    /\ copy_log_(r, p, line)
    /\ lost' = [lost EXCEPT ![r] =
                  @ \cup unread \cup (IF what = ideal /\ line THEN {} ELSE {p})]

(***************************************************************************)
(* One entry of copy(), the next in the walk's order.  fts(3) has listed it *)
(* when it read the directory; it may be gone since.  A directory is given  *)
(* before it is read, which may fail (FTS_DNR).                             *)
(***************************************************************************)
CopyDir(r, p) ==
  /\ Kind[p] = "dir"
  /\ \E some \in {Children(p), {}} :
       /\ some # Children(p) => p \in Frail
       /\ Lay(r, p, Made, Made, IF some = Children(p) THEN {}
                               ELSE {q \in Paths \ {p} : p \in Above[q]})
       /\ ListOf(r, (listed[r] \ {p}) \cup some)
  /\ UNCHANGED pc

(* Mutant: copy_file() is left before the log is written. *)
CopyFileQuiet(r, p) ==
  /\ Kind[p] = "file" /\ tmp[p] # Absent
  /\ root' = [root EXCEPT ![p] = tmp[p]]
  /\ ListOf(r, listed[r] \ {p})
  /\ UNCHANGED <<pc, logs, lost>>
CopyFile(r, p) ==
  /\ Kind[p] = "file" /\ tmp[p] # Absent
  /\ Lay(r, p, tmp[p], Torn, {})
  /\ ListOf(r, listed[r] \ {p})
  /\ UNCHANGED pc

(***************************************************************************)
(* copy_file() on a file that open(2) cannot read, or that is gone: its     *)
(* loop reads from descriptor -1 for ever, the destination already made or  *)
(* truncated; or a fifo stands there, and open(2) of it never returns.      *)
(***************************************************************************)
CopySpins(r, p) ==
  /\ Kind[p] = "file" /\ (p \in Frail \/ tmp[p] = Absent)
  /\ \/ Reached(p) /\ root' = [root EXCEPT ![p] = Torn]
     \/ UNCHANGED root
  /\ ListOf(r, {})
  /\ Goto(r, "spin")
  /\ UNCHANGED <<logs, lost>>

(* A file that was gone when the walk came to it (FTS_NS) is passed over. *)
CopyGoneLogged(r, p) ==   \* Mutant: the path is logged all the same
  /\ Kind[p] = "file" /\ tmp[p] = Absent
  /\ ListOf(r, listed[r] \ {p})
  /\ copy_log_(r, p, TRUE)
  /\ UNCHANGED <<pc, root, lost>>
CopyGone(r, p) ==
  /\ Kind[p] = "file" /\ tmp[p] = Absent
  /\ ListOf(r, listed[r] \ {p})
  /\ UNCHANGED <<pc, root, logs, lost>>

CopyOther(r, p) ==
  /\ Kind[p] = "other"
  /\ ListOf(r, listed[r] \ {p})
  /\ UNCHANGED <<pc, root, logs, lost>>

CopyOne(r) ==
  /\ pc[r] = "copy" /\ listed[r] # {}
  /\ LET p == Least(listed[r])
     IN  \/ CopyDir(r, p) \/ CopyFile(r, p) \/ CopySpins(r, p)
         \/ CopyGone(r, p) \/ CopyOther(r, p)
  /\ UNCHANGED <<arg, tmp, whole, writer, from, ok, fd, db, met, stale>>

(* Mutant: the loop stops one entry early. *)
CopyEndsEarly(r) ==
  /\ pc[r] = "copy" /\ Cardinality(listed[r]) <= 1
  /\ Goto(r, "record")
  /\ UNCHANGED <<arg, tmp, whole, writer, listed, from, ok, root, fd, logs, db, history>>
CopyEnds(r) ==
  /\ pc[r] = "copy" /\ listed[r] = {}
  /\ Goto(r, "record")
  /\ UNCHANGED <<arg, tmp, whole, writer, listed, from, ok, root, fd, logs, db, history>>

(* open_main_db() and update_db(): an SQL error is a warning. *)
Record(r) ==
  /\ pc[r] = "record"
  /\ \/ db' = db \cup {[run |-> r, pkg |-> arg[r].archive]}
     \/ UNCHANGED db
  /\ WindUp(r)
  /\ UNCHANGED <<arg, tmp, whole, writer, from, ok, root, fd, logs, history>>

(***************************************************************************)
(* A signal, or the crash on a field that the info member does not have     *)
(* (info_get_fld() returns NULL).  tar(1) is a child of system(), and goes  *)
(* on if the signal was not for it as well.                                 *)
(***************************************************************************)
Kill(r) ==
  /\ r \in Active
  /\ \/ End(r, "killed")
     \/ /\ pc[r] = "untar"
        /\ Goto(r, "orphan")
        /\ arg' = [arg EXCEPT ![r] = NoArg]
        /\ UNCHANGED <<listed, from, fd, writer>>
  /\ UNCHANGED <<tmp, whole, ok, root, logs, db, history>>

Step(r) ==
  \/ RemoveOne(r) \/ RemoveEnds(r) \/ MakeTmp(r) \/ MakeData(r)
  \/ OpenArchive(r) \/ OpenFails(r)
  \/ Extract(r) \/ Write(r) \/ Tar(r) \/ TarOne(r) \/ TarFails(r) \/ TarEnds(r)
  \/ OrphanEnds(r) \/ OpenLog(r) \/ CopyOne(r) \/ CopyEnds(r) \/ Record(r)

Next == \E r \in Runs : Start(r) \/ Step(r) \/ Kill(r)

Spec     == Init /\ [][Next]_vars
(* Every process that runs is scheduled; nobody need start or kill one. *)
FairSpec == Spec /\ \A r \in Runs : WF_vars(Step(r))

-----------------------------------------------------------------------------
(***************************************************************************)
(* Properties.  "Alone" is an invocation that no other one ran beside, nor  *)
(* the tar(1) of one that was killed; "Fresh", one that moreover failed to  *)
(* remove nothing that can be removed before it began.                      *)
(***************************************************************************)
Alone(r)   == ~met[r]
Fresh(r)   == Alone(r) /\ ~stale[r]
Pkg(r)     == arg[r].archive
Carried(k) == {p \in Contents[k] : Kind[p] # "other"}   \* what copy() copies

(***************************************************************************)
(* What an invocation alone starts from, after prepare_tempds() has removed *)
(* what killed or --keep-temp invocations left, holds no file: only what    *)
(* remove_tmpdir() does not try to remove, and the directories that lead to *)
(* it, unless a remove(3) failed.                                           *)
(***************************************************************************)
CleanSlate ==
  \A r \in Runs : pc[r] = "mktmp" /\ Fresh(r) =>
    \A n \in Present : \E q \in Present : KindOf(q) = "other" /\ (n = q \/ KindOf(n) = "dir")

(***************************************************************************)
(* When copy() has returned, an invocation alone whose tar(1) went well has *)
(* put the whole package of its archive in the prefix, but for the paths on *)
(* which a call of its own failed, whatever those before it left in TMP_DIR.*)
(***************************************************************************)
InstallWhole ==
  \A r \in Runs : pc[r] = "record" /\ Fresh(r) /\ ok[r] =>
    \A p \in Carried(Pkg(r)) \ lost[r] : root[p] = Shape(p, Pkg(r))

(***************************************************************************)
(* Only copy() changes the prefix, and an invocation alone never puts there *)
(* a file of another package, nor anything at a path its package does not   *)
(* carry but a directory that was left in TMP_DIR.                          *)
(***************************************************************************)
NothingForeign ==
  [][\A p \in Paths : root'[p] # root[p] =>
       \E r \in Active :
         /\ pc[r] = "copy"
         /\ Fresh(r) => /\ root'[p] \in {Shape(p, Pkg(r)), Torn}
                        /\ p \in Carried(Pkg(r)) \/ Kind[p] = "dir"]_vars

(***************************************************************************)
(* A row of an invocation that was alone and whose tar(1) went well: but    *)
(* for the paths on which a call of that invocation failed, its package is  *)
(* still in the prefix, its files perhaps replaced by those of another, and *)
(* the log it made lists every path.                                        *)
(***************************************************************************)
RowBacked ==
  \A row \in db : Fresh(row.run) /\ ok[row.run] =>
    \A p \in Carried(row.pkg) \ lost[row.run] :
      /\ root[p] # Absent
      /\ logs[row.pkg].by = row.run => p \in logs[row.pkg].lines

(***************************************************************************)
(* The log of an invocation is not touched by any other, before or after it *)
(* has ended; O_EXCL is all that keeps them apart.                          *)
(***************************************************************************)
LogsApart ==
  [][\A k \in Packages : logs'[k] # logs[k] =>
       \/ logs[k].by = NoRun
       \/ /\ logs'[k].by = logs[k].by
          /\ pc[logs[k].by] = "copy"
          /\ logs[k].lines \subseteq logs'[k].lines]_vars

(***************************************************************************)
(* A path that a log names is in the prefix, or a call of the invocation    *)
(* that made the log has failed on it: files of TMP_DIR that vanish under   *)
(* the walk, by the hand of another, do not make a log say more.            *)
(***************************************************************************)
LogsTruthful ==
  \A k \in Packages : \A p \in logs[k].lines :
    root[p] # Absent \/ p \in lost[logs[k].by]

(***************************************************************************)
(* Invocations that run one after another, each killed at any point, do     *)
(* what Installer promises: the installation begins when tar(1) is through, *)
(* and what went on in TMP_DIR before does not show unless it could not be  *)
(* removed.                                                                 *)
(***************************************************************************)
Jobs     == {r \in Runs : pc[r] \in {"copy", "spin", "record"}}
NoJob    == [run |-> NoRun, pkg |-> NoPackage, clean |-> FALSE, sound |-> FALSE, lost |-> {}]
JobOf(r) == [run |-> r, pkg |-> Pkg(r), clean |-> ~stale[r],
             sound |-> ok[r] /\ ~stale[r], lost |-> lost[r]]
Promised == INSTANCE Installer WITH
  job <- IF Jobs = {} THEN NoJob ELSE JobOf(CHOOSE r \in Jobs : TRUE)
ImplementsInstaller == Promised!Spec


(***************************************************************************)
(* "-i, --install  install given package" (the usage text): what a run has  *)
(* copied is the given package, when tar(1) went well and no call failed.   *)
(***************************************************************************)
GivenIsInstalled ==
  \A r \in Runs : pc[r] = "record" /\ ok[r] /\ ~stale[r] /\ lost[r] = {} =>
    \A p \in Carried(Pkg(r)) : root[p] = Shape(p, Pkg(r))

(***************************************************************************)
(* is_installed(): "Checks whether package named 'str' is installed", which *)
(* is told from the rows; a call of copy() that failed is not meant here.   *)
(***************************************************************************)
ToldIsInstalled ==
  \A row \in db : \A p \in Carried(row.pkg) \ lost[row.run] : root[p] # Absent
=============================================================================
