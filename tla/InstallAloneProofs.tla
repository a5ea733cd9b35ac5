-------------------------- MODULE InstallAloneProofs --------------------------
(***************************************************************************)
(* Proofs about Install: what an invocation does that no other one runs     *)
(* beside, after any number of earlier ones that were killed anywhere, and  *)
(* that invocations which run one after another implement Installer.        *)
(*                                                                         *)
(* The invariant says, for an invocation that is alone and whose walk of    *)
(* prepare_tempds() failed to remove nothing, what is in TMP_DIR and in the *)
(* prefix at each place of its program, wherever its calls may fail.        *)
(***************************************************************************)
EXTENDS InstallProofs, FiniteSetTheorems

(* An invocation that runs and that no other one has run beside. *)
Only(r) == r \in Active /\ Alone(r)
Lonely  == \A r \in Runs : Only(r) => Active = {r}

(* prepare_tempds(): what the walk is through with, or has left. *)
Leftover(S) ==
  \A n \in S : \E q \in Present : KindOf(q) = "other" /\ (n = q \/ KindOf(n) = "dir")
Cleaning(r) ==
  /\ pc[r] = "prepare" => Leftover(Present \ listed[r])
  /\ pc[r] = "mktmp" => Leftover(Present)

(* No file is in TMP_DIR until one is extracted. *)
Cleared(r) ==
  pc[r] \in {"mkdata", "open", "extract"} => \A n \in Present : KindOf(n) # "file"

(* data.tar.gz and what tar(1) makes of it are of the given package. *)
OwnTar(r) ==
  /\ pc[r] \in {"write", "tar"} => tmp[DataTar] \in {Absent, Pkg(r)}
  /\ pc[r] = "untar" => from[r] = Pkg(r)
OwnFiles(r) ==
  pc[r] \in {"write", "tar", "untar", "log", "copy"} =>
    \A p \in Paths : Kind[p] = "file" /\ tmp[p] # Absent =>
      tmp[p] = Pkg(r) /\ p \in Contents[Pkg(r)]

(* How far tar(1) is: a path is still to come to, or it is there. *)
Untarred(r) ==
  /\ pc[r] = "untar" /\ ok[r] => \A p \in Contents[Pkg(r)] : p \in listed[r] \/ tmp[p] # Absent
  /\ pc[r] \in {"log", "copy"} /\ ok[r] => \A p \in Contents[Pkg(r)] : tmp[p] # Absent

(***************************************************************************)
(* How far copy() is: a path is done, or a call failed on it, or one above  *)
(* it is listed; what is listed is there, since nobody else removes it.     *)
(***************************************************************************)
Copied(r, p) ==
  p \in lost[r] \/ (root[p] = Shape(p, Pkg(r)) /\ (fd[r] => p \in logs[Pkg(r)].lines))
Copying(r) ==
  /\ pc[r] = "copy" => listed[r] \subseteq Present
  /\ pc[r] = "copy" /\ ok[r] =>
       \A p \in Carried(Pkg(r)) : Copied(r, p) \/ \E a \in listed[r] : a \in Above[p]
  /\ pc[r] = "record" /\ ok[r] => \A p \in Carried(Pkg(r)) : Copied(r, p)

Phase(r) ==
  Cleaning(r) /\ Cleared(r) /\ OwnTar(r) /\ OwnFiles(r) /\ Untarred(r) /\ Copying(r)

(* Whose logs there are while their makers run, and who has a row. *)
LogsOwned ==
  \A r \in Runs : \A k \in Packages :
    logs[k].by = r /\ pc[r] \notin Ended =>
      fd[r] /\ k = Pkg(r) /\ pc[r] \in {"copy", "spin", "record", "windup"}
RowsLate == \A row \in db : pc[row.run] \in Ended \cup {"windup"}
LostLate == \A r \in Runs : pc[r] \notin Ended \cup {"copy", "spin", "record", "windup"}
              => lost[r] = {}

LoneInv ==
  /\ Lonely
  /\ \A r \in Runs : Only(r) /\ ~stale[r] => Phase(r)
  /\ LogsOwned /\ RowsLate /\ LostLate /\ RowBacked

-----------------------------------------------------------------------------
(* The path from a directory above p down to p goes on below it. *)
LEMMA AboveStep ==
  ASSUME NEW p \in Paths, NEW a \in Above[p], a # p
  PROVE  \E c \in Above[p] : c \in Paths /\ Parent[c] = a
<1> DEFINE T == Above[p] \ {a}
<1>1. /\ N \in Nat /\ Parent \in [Paths -> 0 .. N] /\ Paths = (0 .. N) \ {0}
  BY PathAssumption DEF Paths
<1>2. Above[p] = {n \in 0 .. N : \A S \in SUBSET (0 .. N) :
                    p \in S /\ (\A q \in S \ {0} : Parent[q] \in S) => n \in S}
  BY DEF Above
<1> SUFFICES ASSUME \A c \in Above[p] : c \in Paths => Parent[c] # a PROVE FALSE
  OBVIOUS
<1>3. p \in T /\ T \in SUBSET (0 .. N)
  BY <1>2, AboveIsUp
<1>4. \A q \in T \ {0} : Parent[q] \in T
  <2> SUFFICES ASSUME NEW q \in T \ {0} PROVE Parent[q] \in T
    OBVIOUS
  <2>1. q \in Paths /\ q \in Above[p]
    BY <1>1, <1>2
  <2>2. Parent[q] \in Above[p]
    BY <2>1, AboveIsUp, UpIsNode DEF DataDir
  <2> QED
    BY <2>1, <2>2
<1>5. a \in T
  <2> HIDE DEF T
  <2> QED
    BY <1>2, <1>3, <1>4
<1> QED
  BY <1>5

(* What is above a path of a package is of the package, and a directory. *)
LEMMA AbovePackage ==
  ASSUME NEW k \in Packages, NEW p \in Contents[k], NEW a \in Above[p], a # DataDir
  PROVE  p \in Paths /\ a \in Paths /\ a \in Contents[k] /\ (a # p => Kind[a] = "dir")
<1> DEFINE T == Contents[k] \cup {0}
<1>1. /\ N \in Nat /\ Parent \in [Paths -> 0 .. N] /\ Paths = (0 .. N) \ {0}
      /\ \A q \in Paths : Parent[q] # 0 => Kind[Parent[q]] = "dir"
  BY PathAssumption DEF Paths
<1>2. p \in Paths /\ Contents[k] \subseteq Paths
  BY UpIsNode
<1>3. Above[p] = {n \in 0 .. N : \A S \in SUBSET (0 .. N) :
                    p \in S /\ (\A q \in S \ {0} : Parent[q] \in S) => n \in S}
  BY <1>2 DEF Above
<1>4. p \in T /\ T \in SUBSET (0 .. N)
  BY <1>1, <1>2
<1>5. \A q \in T \ {0} : Parent[q] \in T
  BY <1>2, PackageAssumption
<1>6. a \in T
  <2> HIDE DEF T
  <2> QED
    BY <1>3, <1>4, <1>5
<1>7. a # p => Kind[a] = "dir"
  BY <1>1, <1>2, AboveStep DEF DataDir
<1> QED
  BY <1>2, <1>6, <1>7 DEF DataDir

(* The kinds of the nodes that are no paths. *)
LEMMA KindsOf ==
  /\ KindOf(TmpDir) = "dir" /\ KindOf(DataDir) = "dir" /\ KindOf(DataTar) = "file"
  /\ \A p \in Paths : KindOf(p) = Kind[p]
  /\ \A n \in Nodes : n # TmpDir => KindOf(Up(n)) = "dir"
<1>1. /\ N \in Nat /\ Parent \in [Paths -> 0 .. N] /\ Paths = (0 .. N) \ {0}
      /\ \A q \in Paths : Parent[q] # 0 => Kind[Parent[q]] = "dir"
  BY PathAssumption DEF Paths
<1>2. \A n \in Paths : n # TmpDir /\ n # DataDir /\ n # DataTar
  BY Constants
<1>3. TmpDir # DataTar /\ DataDir # DataTar
  BY Constants
<1>4. \A p \in Paths : KindOf(p) = Kind[p]
  BY DEF KindOf
<1>5. KindOf(TmpDir) = "dir" /\ KindOf(DataDir) = "dir" /\ KindOf(DataTar) = "file"
  BY <1>2, <1>3 DEF KindOf
<1>6. \A n \in Nodes : n # TmpDir => KindOf(Up(n)) = "dir"
  BY <1>1, <1>4, <1>5 DEF Up, DataDir
<1> QED
  BY <1>4, <1>5, <1>6

-----------------------------------------------------------------------------
(***************************************************************************)
(* Who is alone: a step of an invocation that is alone is its own.          *)
(***************************************************************************)
LEMMA StepFrame ==
  ASSUME IInv, NEW q \in Runs, Step(q)
  PROVE  /\ q \in Active /\ met' = met
         /\ \A r \in Runs : r # q => pc'[r] = pc[r]
         /\ \A r \in Runs : stale[r] => stale'[r]
<1>1. q \in Active
  BY DEF Step, Active, Running, TarRuns, RemoveOne, RemoveEnds, MakeTmp, MakeData, OpenArchive, OpenFails,
     Extract, Write, Tar, TarOne, TarFails, TarEnds, OrphanEnds, OpenLog, CopyOne, CopyEnds, Record
<1>2. met' = met
  BY Zenon DEF Step, RemoveOne, RemoveEnds, MakeTmp, MakeData, OpenArchive, OpenFails, history,
     Extract, Write, Tar, TarOne, TarFails, TarEnds, OrphanEnds, OpenLog, CopyOne, CopyEnds, Record
<1>4. \A r \in Runs : stale[r] => stale'[r]
  <2>1. CASE RemoveOne(q)
    <3>1. UNCHANGED stale \/ \E b : stale' = [stale EXCEPT ![q] = stale[q] \/ b]
      BY <2>1 DEF RemoveOne
    <3> QED
      BY <3>1 DEF IInv, TypeOK, PlacesTyped
  <2>2. CASE ~RemoveOne(q)
    <3>1. stale' = stale
      BY <2>2, Zenon DEF Step, RemoveEnds, MakeTmp, MakeData, OpenArchive, OpenFails, history,
         Extract, Write, Tar, TarOne, TarFails, TarEnds, OrphanEnds, OpenLog, CopyOne, CopyEnds, Record
    <3> QED
      BY <3>1
  <2> QED
    BY <2>1, <2>2
<1>3. pc' = pc \/ \E place : pc' = [pc EXCEPT ![q] = place]
  <2>1. ASSUME CopyOne(q) PROVE pc' = pc \/ \E place : pc' = [pc EXCEPT ![q] = place]
    BY <2>1, CopyOneEffect
  <2> QED
    BY <2>1 DEF Step, Goto, End, WindUp, RemoveOne, RemoveEnds, MakeTmp, MakeData, OpenArchive,
       OpenFails, Extract, Write, Tar, TarOne, TarFails, TarEnds, OrphanEnds, OpenLog, CopyEnds, Record
<1> QED
  BY <1>1, <1>2, <1>3, <1>4 DEF IInv, TypeOK, PlacesTyped

LEMMA KillFrame ==
  ASSUME IInv, NEW q \in Runs, Kill(q)
  PROVE  /\ q \in Active /\ UNCHANGED <<tmp, whole, ok, root, logs, db, met, stale, lost>>
         /\ \/ pc' = [pc EXCEPT ![q] = "killed"]
            \/ pc[q] = "untar" /\ pc' = [pc EXCEPT ![q] = "orphan"] /\ UNCHANGED fd
         /\ \A r \in Runs : r # q => /\ pc'[r] = pc[r] /\ arg'[r] = arg[r] /\ fd'[r] = fd[r]
BY DEF Kill, End, Goto, history, IInv, TypeOK, PlacesTyped

LEMMA OnlyOne ==
  ASSUME IInv, Lonely, NEW q \in Runs, Step(q) \/ Kill(q), NEW r \in Runs, Only(r)'
  PROVE  /\ q = r /\ Only(r) /\ Active' \subseteq {r} /\ (stale[r] => stale'[r])
         /\ Step(r) \/ pc'[r] = "orphan"
<1>1. CASE Step(q)
  <2>1. /\ q \in Active /\ met' = met /\ \A s \in Runs : s # q => pc'[s] = pc[s]
        /\ \A s \in Runs : stale[s] => stale'[s]
    BY <1>1, StepFrame
  <2>2. Active' \subseteq Active
    BY <2>1 DEF Active
  <2>3. Only(r) /\ Active = {r}
    BY <2>1, <2>2 DEF Only, Alone, Lonely
  <2> QED
    BY <1>1, <2>1, <2>2, <2>3
<1>2. CASE Kill(q)
  <2>1. /\ met' = met /\ q \in Active /\ stale' = stale
        /\ \/ pc' = [pc EXCEPT ![q] = "killed"]
           \/ pc' = [pc EXCEPT ![q] = "orphan"]
    BY <1>2, KillFrame
  <2>2. Active' \subseteq Active /\ (pc'[q] = "orphan" \/ q \notin Active')
    BY <2>1 DEF Active, Running, IInv, TypeOK, PlacesTyped
  <2>3. Only(r)
    BY <2>1, <2>2 DEF Only, Alone
  <2>4. Active = {r}
    BY <2>3 DEF Lonely
  <2> QED
    BY <2>1, <2>2, <2>3, <2>4 DEF Only
<1> QED
  BY <1>1, <1>2

LEMMA OnlyStart ==
  ASSUME IInv, NEW q \in Runs, Start(q), NEW r \in Runs, Only(r)'
  PROVE  q = r /\ Active' = {r}
<1>1. /\ pc' = [pc EXCEPT ![q] = "prepare"] /\ pc[q] = "idle"
      /\ met' = [s \in Runs |-> met[s] \/ (Active # {} /\ s \in Active \cup {q})]
  BY DEF Start, Prepare, Goto
<1>2. Active' = Active \cup {q}
  BY <1>1 DEF Active, Running, IInv, TypeOK, PlacesTyped
<1>3. ~met'[r] /\ r \in Active \cup {q}
  BY <1>2 DEF Only, Alone
<1>4. Active = {}
  BY <1>1, <1>3
<1> QED
  BY <1>2, <1>3, <1>4

LEMMA LonelyKeeps == ASSUME IInv, Lonely, Next PROVE Lonely'
<1> SUFFICES ASSUME NEW r \in Runs, Only(r)' PROVE Active' = {r}
  BY DEF Lonely
<1>1. r \in Active'
  BY DEF Only
<1>2. PICK q \in Runs : Start(q) \/ Step(q) \/ Kill(q)
  BY DEF Next
<1> QED
  BY <1>1, <1>2, OnlyOne, OnlyStart

-----------------------------------------------------------------------------
(***************************************************************************)
(* One lemma for each step: what is known of an invocation that is alone    *)
(* stays known.  Where nothing is, at the end, there is nothing to show.    *)
(***************************************************************************)
LEMMA Elsewhere ==
  ASSUME NEW r \in Runs, pc[r] \in Ended \cup {"idle", "orphan", "spin", "windup"}
  PROVE  Phase(r)
BY DEF Ended, Phase, Cleaning, Cleared, OwnTar, OwnFiles, Untarred, Copying

LEMMA ElsewhereNext ==
  ASSUME NEW r \in Runs, pc'[r] \in Ended \cup {"idle", "orphan", "spin", "windup"}
  PROVE  Phase(r)'
BY DEF Ended, Phase, Cleaning, Cleared, OwnTar, OwnFiles, Untarred, Copying

LEMMA StartPhase == ASSUME IInv, NEW r \in Runs, Start(r) PROVE Phase(r)'
<1>1. /\ pc'[r] = "prepare" /\ listed'[r] = Present /\ tmp' = tmp
  BY DEF Start, Prepare, Goto, ListOf, IInv, TypeOK, PlacesTyped
<1>2. Present' = Present
  BY <1>1 DEF Present
<1>3. Cleaning(r)'
  BY <1>1, <1>2 DEF Cleaning, Leftover
<1> QED
  BY <1>1, <1>3 DEF Phase, Cleared, OwnTar, OwnFiles, Untarred, Copying

(* What the walk of prepare_tempds() cannot remove leads to an "other". *)
LEMMA RemoveOnePhase ==
  ASSUME IInv, NEW r \in Runs, Phase(r), RemoveOne(r), ~stale'[r]
  PROVE  Phase(r)'
<1>1. /\ pc[r] \in {"prepare", "windup"} /\ pc' = pc
  BY DEF RemoveOne
<1>2. CASE pc[r] = "windup"
  BY <1>1, <1>2, ElsewhereNext
<1>3. CASE pc[r] = "prepare"
  <2>1. PICK n \in listed[r] \cup {m \in Nodes : Removable(m) /\ m # TmpDir} :
          /\ \A m \in listed[r] \ {n, TmpDir} : Up(m) # n
          /\ n = TmpDir => listed[r] = {TmpDir}
          /\ listed' = [listed EXCEPT ![r] = listed[r] \ {n}]
          /\ \/ Removable(n) /\ tmp' = [tmp EXCEPT ![n] = Absent]
             \/ /\ stale' = [stale EXCEPT ![r] = stale[r] \/ (pc[r] = "prepare" /\ Removable(n))]
                /\ tmp' = tmp
    BY Zenon DEF RemoveOne, ListOf
  <2>2. n \in Nodes /\ listed'[r] = listed[r] \ {n} /\ tmp \in [Nodes -> Packages \cup {Absent, Made}]
    BY <2>1 DEF IInv, TypeOK, PlacesTyped, SharedTyped
  <2>3. Leftover(Present \ listed[r])
    BY <1>3 DEF Phase, Cleaning
  <2>4. CASE Removable(n) /\ tmp' = [tmp EXCEPT ![n] = Absent]
    <3>1. Present' = Present \ {n} /\ KindOf(n) # "other"
      BY <2>2, <2>4 DEF Present, Removable
    <3> QED
      BY <1>1, <1>3, <2>2, <2>3, <3>1 DEF Leftover, Phase, Cleaning, Cleared, OwnTar, OwnFiles, Untarred, Copying
  <2>5. CASE /\ stale' = [stale EXCEPT ![r] = stale[r] \/ (pc[r] = "prepare" /\ Removable(n))]
             /\ tmp' = tmp
    <3>0. ~Removable(n)
      BY <1>3, <2>5 DEF IInv, TypeOK, PlacesTyped
    <3>1. Present' = Present
      BY <2>5 DEF Present
    <3>2. n \in Present => \E q \in Present : KindOf(q) = "other" /\ (n = q \/ KindOf(n) = "dir")
      <4> SUFFICES ASSUME n \in Present, KindOf(n) # "other"
                   PROVE  \E q \in Present : KindOf(q) = "other" /\ KindOf(n) = "dir"
        OBVIOUS
      <4>1. PICK m \in Present : m # TmpDir /\ Up(m) = n
        BY <3>0 DEF Removable, Present
      <4>2. m # n
        BY <4>1, UpIsNode, Constants DEF Present, Up
      <4>3. m \in Present \ listed[r]
        BY <2>1, <4>1, <4>2
      <4>4. KindOf(n) = "dir"
        BY <4>1, KindsOf DEF Present
      <4> QED
        BY <2>3, <4>3, <4>4 DEF Leftover
    <3> QED
      BY <1>1, <1>3, <2>2, <2>3, <3>1, <3>2 DEF Leftover, Phase, Cleaning, Cleared, OwnTar, OwnFiles, Untarred, Copying
  <2> QED
    BY <2>1, <2>4, <2>5
<1> QED
  BY <1>1, <1>2, <1>3

LEMMA RemoveEndsPhase == ASSUME IInv, NEW r \in Runs, Phase(r), RemoveEnds(r) PROVE Phase(r)'
<1>1. CASE pc[r] = "prepare"
  <2>1. pc'[r] = "mktmp" /\ listed[r] = {} /\ tmp' = tmp
    BY <1>1 DEF RemoveEnds, Goto, IInv, TypeOK, PlacesTyped
  <2>2. Present' = Present /\ Leftover(Present)
    BY <1>1, <2>1 DEF Present, Phase, Cleaning, Leftover
  <2> QED
    BY <2>1, <2>2 DEF Leftover, Phase, Cleaning, Cleared, OwnTar, OwnFiles, Untarred, Copying
<1>2. CASE pc[r] = "windup"
  <2>1. pc'[r] = "done"
    BY <1>2 DEF RemoveEnds, End, Goto, IInv, TypeOK, PlacesTyped
  <2> QED
    BY <2>1, ElsewhereNext DEF Ended
<1> QED
  BY <1>1, <1>2 DEF RemoveEnds

LEMMA MakeTmpPhase == ASSUME IInv, NEW r \in Runs, Phase(r), MakeTmp(r) PROVE Phase(r)'
<1>1. /\ pc[r] = "mktmp" /\ pc'[r] = "mkdata"
      /\ tmp' = [tmp EXCEPT ![TmpDir] = Made] \/ tmp' = tmp
  BY DEF MakeTmp, Mkdir, Goto, IInv, TypeOK, PlacesTyped
<1>2. Present' \subseteq Present \cup {TmpDir}
  BY <1>1, Constants DEF Present, IInv, TypeOK, SharedTyped
<1>3. Leftover(Present)
  BY <1>1 DEF Phase, Cleaning
<1>4. \A n \in Present' : KindOf(n) # "file"
  BY <1>2, <1>3, KindsOf DEF Leftover
<1> QED
  BY <1>1, <1>4 DEF Phase, Cleaning, Cleared, OwnTar, OwnFiles, Untarred, Copying

LEMMA MakeDataPhase == ASSUME IInv, NEW r \in Runs, Phase(r), MakeData(r) PROVE Phase(r)'
<1>1. /\ pc[r] = "mkdata" /\ pc'[r] = "open"
      /\ \A n \in Present : KindOf(n) # "file"
  BY DEF MakeData, Goto, IInv, TypeOK, PlacesTyped, Phase, Cleared
<1>2. tmp' = [tmp EXCEPT ![DataDir] = Made] \/ tmp' = tmp
  BY DEF MakeData, Mkdir
<1>3. Present' \subseteq Present \cup {DataDir}
  BY <1>2, Constants DEF Present, IInv, TypeOK, SharedTyped
<1> QED
  BY <1>1, <1>3, KindsOf DEF Phase, Cleaning, Cleared, OwnTar, OwnFiles, Untarred, Copying

LEMMA OpenPhase ==
  ASSUME IInv, NEW r \in Runs, Phase(r), OpenArchive(r) \/ OpenFails(r)
  PROVE  Phase(r)'
<1>1. /\ pc[r] = "open" /\ tmp' = tmp /\ pc'[r] \in {"extract", "windup", "crashed"}
  BY DEF OpenArchive, OpenFails, WindUp, End, Goto, IInv, TypeOK, PlacesTyped
<1>2. CASE pc'[r] = "extract"
  BY <1>1, <1>2 DEF Present, Phase, Cleaning, Cleared, OwnTar, OwnFiles, Untarred, Copying
<1> QED
  BY <1>1, <1>2, ElsewhereNext DEF Ended

LEMMA GivenPackage ==
  ASSUME IInv, NEW r \in Runs,
         pc[r] \in {"extract", "write", "tar", "untar", "log", "copy", "spin", "record"}
  PROVE  /\ Pkg(r) \in Packages /\ Pkg(r) # Absent /\ Pkg(r) # Made /\ Pkg(r) # Torn
         /\ Contents[Pkg(r)] \subseteq Paths /\ Carried(Pkg(r)) \subseteq Paths
<1>1. Pkg(r) \in Packages
  BY DEF IInv, PlaceInv, Pkg
<1> QED
  BY <1>1, Constants, UpIsNode DEF Carried

LEMMA ExtractPhase == ASSUME IInv, NEW r \in Runs, Phase(r), Extract(r) PROVE Phase(r)'
<1>1. /\ pc[r] = "extract" /\ arg' = arg /\ \A n \in Present : KindOf(n) # "file"
  BY DEF Extract, Phase, Cleared
<1>2. tmp[DataTar] = Absent /\ \A p \in Paths : Kind[p] = "file" => tmp[p] = Absent
  BY <1>1, KindsOf, Constants DEF Present
<1>3. /\ pc'[r] \in {"write", "tar"}
      /\ tmp' = [tmp EXCEPT ![DataTar] = Pkg(r)] \/ tmp' = tmp
  BY <1>1, <1>2 DEF Extract, Goto, Pkg, IInv, TypeOK, PlacesTyped
<1>4. /\ tmp'[DataTar] \in {Absent, Pkg(r)} /\ \A n \in Nodes : n # DataTar => tmp'[n] = tmp[n]
      /\ Pkg(r)' = Pkg(r)
  BY <1>1, <1>2, <1>3, Constants DEF IInv, TypeOK, SharedTyped, Pkg
<1> QED
  BY <1>1, <1>2, <1>3, <1>4, Constants DEF Phase, Cleaning, Cleared, OwnTar, OwnFiles, Untarred, Copying

LEMMA WritePhase == ASSUME IInv, NEW r \in Runs, Phase(r), Write(r) PROVE Phase(r)'
<1>1. /\ pc[r] = "write" /\ pc'[r] = "tar" /\ tmp' = tmp /\ arg' = arg
  BY DEF Write, Goto, IInv, TypeOK, PlacesTyped
<1> QED
  BY <1>1 DEF Pkg, Present, Phase, Cleaning, Cleared, OwnTar, OwnFiles, Untarred, Copying

(* tar(1) reads the archive of the given package, the whole of it or not. *)
LEMMA TarPhase == ASSUME IInv, NEW r \in Runs, Phase(r), Tar(r) PROVE Phase(r)'
<1>1. /\ pc[r] = "tar" /\ tmp[DataTar] \in {Absent, Pkg(r)}
      /\ tmp' = tmp /\ arg' = arg /\ Pkg(r)' = Pkg(r)
  BY DEF Tar, Phase, OwnTar, Pkg
<1>2. CASE pc'[r] = "untar"
  <2>1. /\ from'[r] = Pkg(r) /\ ok'[r] = whole
        /\ whole => listed'[r] = Contents[Pkg(r)]
    BY <1>1, <1>2 DEF Tar, Goto, ListOf, IInv, TypeOK, PlacesTyped
  <2> QED
    BY <1>1, <1>2, <2>1 DEF Present, Phase, Cleaning, Cleared, OwnTar, OwnFiles, Untarred, Copying
<1>3. CASE pc'[r] = "log" /\ ~ok'[r]
  BY <1>1, <1>3 DEF Present, Phase, Cleaning, Cleared, OwnTar, OwnFiles, Untarred, Copying
<1> QED
  BY <1>2, <1>3 DEF Tar, Goto, IInv, TypeOK, PlacesTyped

LEMMA TarOnePhase ==
  ASSUME IInv, NEW r \in Runs, Phase(r), TarOne(r), pc[r] = "untar"
  PROVE  Phase(r)'
<1> DEFINE p == Least(listed[r])
<1>1. /\ pc[r] = "untar" /\ pc' = pc /\ arg' = arg /\ from' = from /\ ok' = ok /\ from[r] = Pkg(r)
      /\ listed' = [listed EXCEPT ![r] = listed[r] \ {p}]
      /\ tmp' = [n \in Nodes |-> IF n = p THEN Shape(p, from[r])
                                 ELSE IF n \in Above[p] THEN Made ELSE tmp[n]]
  BY DEF TarOne, ListOf, Phase, OwnTar
<1>2. p \in Contents[Pkg(r)] /\ p \in Paths
  <2>1. listed[r] \subseteq Contents[Pkg(r)] /\ listed[r] # {}
    BY <1>1 DEF IInv, PlaceInv, TarRuns, TarOne
  <2>2. listed[r] \subseteq Paths
    BY <1>1, <2>1, GivenPackage
  <2> QED
    BY <2>1, <2>2, LeastIn
<1> HIDE DEF p
<1>3. Pkg(r) \in Packages /\ Pkg(r) # Absent /\ Made # Absent
  BY <1>1, GivenPackage, Constants
<1>4. \A n \in Nodes : tmp[n] # Absent => tmp'[n] # Absent
  BY <1>1, <1>3 DEF Shape
<1>5. tmp'[p] # Absent /\ listed'[r] = listed[r] \ {p}
  BY <1>1, <1>2, <1>3, Constants DEF Shape, IInv, TypeOK, PlacesTyped
<1>6. \A f \in Paths : Kind[f] = "file" /\ tmp'[f] # Absent =>
        tmp'[f] = Pkg(r) /\ f \in Contents[Pkg(r)]
  <2> SUFFICES ASSUME NEW f \in Paths, Kind[f] = "file", tmp'[f] # Absent
               PROVE  tmp'[f] = Pkg(r) /\ f \in Contents[Pkg(r)]
    OBVIOUS
  <2>1. CASE f = p
    BY <1>1, <1>2, <2>1, Constants, KindsOf DEF Shape
  <2>2. CASE f # p
    <3>1. f \notin Above[p]
      BY <1>2, <1>3, <2>2, AbovePackage, Constants
    <3>2. tmp'[f] = tmp[f]
      BY <1>1, <2>2, <3>1, Constants
    <3> QED
      BY <1>1, <3>2 DEF Phase, OwnFiles
  <2> QED
    BY <2>1, <2>2
<1>7. Pkg(r)' = Pkg(r) /\ Contents[Pkg(r)] \subseteq Nodes
  BY <1>1, GivenPackage, Constants DEF Pkg
<1>8. Untarred(r)'
  <2>1. ok[r] => \A f \in Contents[Pkg(r)] : f \in listed[r] \/ tmp[f] # Absent
    BY <1>1 DEF Phase, Untarred
  <2> QED
    BY <1>1, <1>4, <1>5, <1>7, <2>1 DEF Untarred
<1> QED
  BY <1>1, <1>6, <1>7, <1>8 DEF Phase, Cleaning, Cleared, OwnTar, OwnFiles, Copying

LEMMA TarFailsPhase ==
  ASSUME IInv, NEW r \in Runs, Phase(r), TarFails(r), pc[r] = "untar"
  PROVE  Phase(r)'
<1>1. /\ pc[r] = "untar" /\ pc' = pc /\ arg' = arg /\ from' = from /\ tmp' = tmp /\ ~ok'[r]
  BY DEF TarFails, IInv, TypeOK, PlacesTyped
<1> QED
  BY <1>1 DEF Pkg, Present, Phase, Cleaning, Cleared, OwnTar, OwnFiles, Untarred, Copying

LEMMA TarEndsPhase == ASSUME IInv, NEW r \in Runs, Phase(r), TarEnds(r) PROVE Phase(r)'
<1>1. /\ pc[r] = "untar" /\ pc'[r] = "log" /\ arg' = arg /\ tmp' = tmp /\ ok' = ok /\ listed[r] = {}
  BY DEF TarEnds, Goto, IInv, TypeOK, PlacesTyped
<1> QED
  BY <1>1 DEF Pkg, Present, Phase, Cleaning, Cleared, OwnTar, OwnFiles, Untarred, Copying

-----------------------------------------------------------------------------
(* TMP_DATA_DIR is above every path: the least of what is above it. *)
LEMMA RootAbove == ASSUME NEW p \in Paths PROVE DataDir \in Above[p]
<1> SUFFICES ASSUME DataDir \notin Above[p] PROVE FALSE
  OBVIOUS
<1>1. Above[p] \subseteq Paths /\ Above[p] # {} /\ Paths \subseteq Nat
  BY AboveIsUp, PathAssumption DEF Paths
<1>2. PICK x \in Above[p] : \A y \in Above[p] : ~(<<y, x>> \in OpToRel(<, Nat))
  BY <1>1, WFMin, NatLessThanWellFounded
<1>3. \A y \in Above[p] : ~(y < x)
  BY <1>1, <1>2 DEF OpToRel
<1>4. Up(x) \in Above[p] /\ Up(x) = Parent[x] /\ Parent[x] < x
  BY <1>1, AboveIsUp, UpIsNode, PathAssumption
<1> QED
  BY <1>3, <1>4

LEMMA OpenLogPhase == ASSUME IInv, NEW r \in Runs, Phase(r), OpenLog(r) PROVE Phase(r)'
<1>1. /\ pc[r] = "log" /\ pc'[r] = "copy" /\ arg' = arg /\ tmp' = tmp /\ ok' = ok
      /\ listed'[r] = Children(DataDir)
  BY DEF OpenLog, Goto, ListOf, IInv, TypeOK, PlacesTyped
<1>2. ok[r] => \A f \in Contents[Pkg(r)] : tmp[f] # Absent
  BY <1>1 DEF Phase, Untarred
<1>3. ok[r] => \A f \in Carried(Pkg(r)) : \E a \in listed'[r] : a \in Above[f]
  <2> SUFFICES ASSUME ok[r], NEW f \in Carried(Pkg(r))
               PROVE  \E a \in Children(DataDir) : a \in Above[f]
    BY <1>1
  <2>1. f \in Contents[Pkg(r)] /\ f \in Paths /\ Pkg(r) \in Packages
    BY <1>1, GivenPackage DEF Carried
  <2>2. PICK c \in Above[f] : c \in Paths /\ Parent[c] = DataDir
    BY <2>1, RootAbove, AboveStep, Constants
  <2>3. tmp[c] # Absent
    BY <1>2, <2>1, <2>2, AbovePackage, Constants
  <2> QED
    BY <2>2, <2>3, UpIsNode, Constants DEF Children, Present
<1>4. Pkg(r)' = Pkg(r)
  BY <1>1 DEF Pkg
<1>5. Copying(r)'
  BY <1>1, <1>3, <1>4 DEF Copying, Children, Present
<1> QED
  BY <1>1, <1>4, <1>5 DEF Pkg, Present, Phase, Cleaning, Cleared, OwnTar, OwnFiles, Untarred

(***************************************************************************)
(* What one entry of copy() puts in the prefix, and what it notes as lost.  *)
(***************************************************************************)
LEMMA CopyEntry ==
  ASSUME IInv, NEW r \in Runs, CopyOne(r)
  PROVE  \E p \in Paths \cap listed[r] :
           CopyDir(r, p) \/ CopyFile(r, p) \/ CopySpins(r, p) \/ CopyGone(r, p) \/ CopyOther(r, p)
<1>1. listed[r] \subseteq Paths /\ listed[r] # {}
  BY DEF IInv, PlaceInv, CopyOne
<1> QED
  BY <1>1, LeastIn DEF CopyOne

LEMMA LayMakes ==
  ASSUME IInv, NEW r \in Runs, NEW p \in Paths, NEW unread \in SUBSET Paths, NEW ideal, NEW partial,
         Lay(r, p, ideal, partial, unread)
  PROVE  /\ root' \in {root, [root EXCEPT ![p] = ideal], [root EXCEPT ![p] = partial]}
         /\ unread \subseteq lost'[r]
         /\ \/ p \in lost'[r]
            \/ /\ root' = [root EXCEPT ![p] = ideal]
               /\ fd[r] => logs' = [logs EXCEPT ![Pkg(r)].lines = @ \cup {p}]
         /\ logs' \in {logs, [logs EXCEPT ![Pkg(r)].lines = @ \cup {p}]}
<1>1. PICK what \in {ideal, partial, root[p]} : \E line \in BOOLEAN :
        /\ root' = [root EXCEPT ![p] = what]
        /\ copy_log_(r, p, line)
        /\ lost' = [lost EXCEPT ![r] =
                      @ \cup unread \cup (IF what = ideal /\ line THEN {} ELSE {p})]
  BY DEF Lay
<1>2. PICK line \in BOOLEAN :
        /\ root' = [root EXCEPT ![p] = what]
        /\ copy_log_(r, p, line)
        /\ lost' = [lost EXCEPT ![r] =
                      @ \cup unread \cup (IF what = ideal /\ line THEN {} ELSE {p})]
  BY <1>1
<1>3. lost'[r] = lost[r] \cup unread \cup (IF what = ideal /\ line THEN {} ELSE {p})
  BY <1>2 DEF IInv, TypeOK, PlacesTyped
<1>4. [root EXCEPT ![p] = root[p]] = root
  BY DEF IInv, TypeOK, SharedTyped
<1>5. logs' \in {logs, [logs EXCEPT ![Pkg(r)].lines = @ \cup {p}]}
  BY <1>2 DEF copy_log_, Pkg
<1>6. what = ideal /\ line /\ fd[r] => logs' = [logs EXCEPT ![Pkg(r)].lines = @ \cup {p}]
  BY <1>2 DEF copy_log_, Pkg
<1> QED
  BY <1>1, <1>2, <1>3, <1>4, <1>5, <1>6

LEMMA CopyPuts ==
  ASSUME IInv, NEW r \in Runs, CopyOne(r), UNCHANGED <<root, lost>> => FALSE
  PROVE  \E p \in Paths \cap listed[r] :
           \/ Kind[p] = "dir" /\ root' \in {root, [root EXCEPT ![p] = Made]}
           \/ /\ Kind[p] = "file" /\ tmp[p] # Absent
              /\ root' \in {root, [root EXCEPT ![p] = tmp[p]], [root EXCEPT ![p] = Torn]}
           \/ Kind[p] = "file" /\ root' = [root EXCEPT ![p] = Torn] /\ UNCHANGED lost
<1>1. PICK p \in Paths \cap listed[r] :
        CopyDir(r, p) \/ CopyFile(r, p) \/ CopySpins(r, p) \/ CopyGone(r, p) \/ CopyOther(r, p)
  BY CopyEntry
<1>2. CASE CopyDir(r, p)
  <2> DEFINE below == {q \in Paths \ {p} : p \in Above[q]}
  <2>1. PICK unread \in {{}, below} : Lay(r, p, Made, Made, unread)
    BY <1>2 DEF CopyDir
  <2>2. unread \in SUBSET Paths
    OBVIOUS
  <2> HIDE DEF below
  <2>3. root' \in {root, [root EXCEPT ![p] = Made], [root EXCEPT ![p] = Made]}
    BY <2>1, <2>2, LayMakes, Zenon
  <2> QED
    BY <1>2, <2>3 DEF CopyDir
<1>3. CASE CopyFile(r, p)
  <2>1. root' \in {root, [root EXCEPT ![p] = tmp[p]], [root EXCEPT ![p] = Torn]}
    BY <1>3, LayMakes DEF CopyFile
  <2> QED
    BY <1>3, <2>1 DEF CopyFile
<1>4. CASE CopySpins(r, p)
  BY <1>4 DEF CopySpins
<1>5. CASE CopyGone(r, p) \/ CopyOther(r, p)
  BY <1>5 DEF CopyGone, CopyOther
<1> QED
  BY <1>1, <1>2, <1>3, <1>4, <1>5

(***************************************************************************)
(* copy() is done with an entry, or goes on to what a directory holds: no   *)
(* path of the package is dropped from the list before it is copied, or     *)
(* noted as lost.                                                           *)
(***************************************************************************)
LEMMA CopyOnePhase == ASSUME IInv, NEW r \in Runs, Phase(r), CopyOne(r) PROVE Phase(r)'
<1> DEFINE k == Pkg(r)
<1>1. /\ pc[r] = "copy" /\ arg' = arg /\ tmp' = tmp /\ ok' = ok /\ fd' = fd
      /\ pc' \in {pc, [pc EXCEPT ![r] = "spin"]}
      /\ lost[r] \subseteq lost'[r]
  BY CopyOneEffect DEF CopyOne
<1>2. PICK p \in Paths \cap listed[r] :
        CopyDir(r, p) \/ CopyFile(r, p) \/ CopySpins(r, p) \/ CopyGone(r, p) \/ CopyOther(r, p)
  BY CopyEntry
<1>3. k \in Packages /\ k # Absent /\ Contents[k] \subseteq Paths /\ Carried(k) \subseteq Contents[k]
  BY <1>1, GivenPackage DEF Carried
<1>4. CASE pc'[r] = "spin"
  BY <1>4, ElsewhereNext
<1>5. CASE ~CopySpins(r, p)
  <2>1. /\ listed[r] \subseteq Present /\ Present' = Present
        /\ \A f \in Paths : Kind[f] = "file" /\ tmp[f] # Absent => tmp[f] = k /\ f \in Contents[k]
    BY <1>1 DEF Phase, OwnFiles, Copying, Present
  <2>2. k' = k
    BY <1>1 DEF Pkg
  <2>3. \/ /\ CopyDir(r, p) /\ Kind[p] = "dir"
           /\ \E some \in {Children(p), {}} :
                /\ Lay(r, p, Made, Made, IF some = Children(p) THEN {}
                                         ELSE {q \in Paths \ {p} : p \in Above[q]})
                /\ listed'[r] = (listed[r] \ {p}) \cup some
        \/ /\ CopyFile(r, p) /\ Kind[p] = "file" /\ tmp[p] # Absent
           /\ listed'[r] = listed[r] \ {p} /\ Lay(r, p, tmp[p], Torn, {})
        \/ /\ CopyGone(r, p) \/ CopyOther(r, p)
           /\ listed'[r] = listed[r] \ {p} /\ UNCHANGED <<root, logs, lost>>
           /\ Kind[p] = "other" \/ (Kind[p] = "file" /\ tmp[p] = Absent)
    BY <1>2, <1>5 DEF CopyDir, CopyFile, CopyGone, CopyOther, ListOf, IInv, TypeOK, PlacesTyped
  <2>4. pc' = pc
    BY <1>2, <1>5 DEF CopyDir, CopyFile, CopyGone, CopyOther
  <2>5. listed'[r] \subseteq Present
    BY <2>1, <2>3 DEF Children
  <2>6. ASSUME ok[r]
        PROVE  \A f \in Carried(k) : Copied(r, f)' \/ \E a \in listed'[r] : a \in Above[f]
    <3> SUFFICES ASSUME NEW f \in Carried(k), ~Copied(r, f)'
                 PROVE  \E a \in listed'[r] : a \in Above[f]
      OBVIOUS
    <3>1. /\ f \in Paths /\ f \in Contents[k] /\ Kind[f] # "other"
          /\ \A g \in Contents[k] : tmp[g] # Absent
          /\ Copied(r, f) \/ \E a \in listed[r] : a \in Above[f]
      BY <1>1, <1>3, <2>6 DEF Carried, Phase, Untarred, Copying
    <3>2. f # p /\ p \in Above[f] => Kind[p] = "dir"
      BY <1>2, <1>3, <3>1, AbovePackage, Constants
    <3>3. CASE CopyGone(r, p) \/ CopyOther(r, p)
      <4>1. /\ listed'[r] = listed[r] \ {p} /\ UNCHANGED <<root, logs, lost>>
            /\ Kind[p] = "other" \/ (Kind[p] = "file" /\ tmp[p] = Absent)
        BY <2>3, <3>3 DEF CopyDir, CopyFile, CopyGone, CopyOther
      <4>2. ~Copied(r, f)
        BY <1>1, <2>2, <4>1 DEF Copied
      <4>3. PICK a \in listed[r] : a \in Above[f]
        BY <3>1, <4>2
      <4>4. a # p
        BY <3>1, <3>2, <4>1, <4>3
      <4> QED
        BY <4>1, <4>3, <4>4
    <3>4. ASSUME NEW ideal, NEW partial, NEW unread \in SUBSET Paths,
                 Lay(r, p, ideal, partial, unread), ideal = Shape(p, k)
          PROVE  f # p /\ f \notin unread /\ ~Copied(r, f)
      <4>0. p \in Paths
        OBVIOUS
      <4>1. /\ root' \in {root, [root EXCEPT ![p] = ideal], [root EXCEPT ![p] = partial]}
            /\ unread \subseteq lost'[r]
            /\ \/ p \in lost'[r]
               \/ /\ root' = [root EXCEPT ![p] = ideal]
                  /\ fd[r] => logs' = [logs EXCEPT ![Pkg(r)].lines = @ \cup {p}]
            /\ logs' \in {logs, [logs EXCEPT ![Pkg(r)].lines = @ \cup {p}]}
        <5> HIDE DEF k
        <5>1. Lay(r, p, ideal, partial, unread)
          BY <3>4
        <5>2. unread \in SUBSET Paths
          BY <3>4
        <5> QED
          BY <4>0, <5>1, <5>2, LayMakes
      <4>2. f \notin lost'[r] /\ f \notin lost[r]
            /\ ~(root'[f] = Shape(f, k) /\ (fd[r] => f \in logs'[k].lines))
        BY <1>1, <2>2 DEF Copied
      <4>3. f # p
        <5> SUFFICES ASSUME f = p PROVE FALSE
          OBVIOUS
        <5>1. /\ root' = [root EXCEPT ![p] = ideal]
              /\ fd[r] => logs' = [logs EXCEPT ![Pkg(r)].lines = @ \cup {p}]
          BY <4>1, <4>2
        <5>2. root'[p] = Shape(p, k)
          BY <3>4, <5>1 DEF IInv, TypeOK, SharedTyped
        <5>3. fd[r] => logs' = [logs EXCEPT ![k].lines = @ \cup {p}]
          BY <5>1
        <5>4. fd[r] => p \in logs'[k].lines
          BY <1>3, <5>3 DEF IInv, TypeOK, SharedTyped
        <5> QED
          BY <4>2, <5>2, <5>4
      <4>4. root'[f] = root[f]
        BY <3>1, <4>1, <4>3 DEF IInv, TypeOK, SharedTyped
      <4>5. f \in logs[k].lines => f \in logs'[k].lines
        BY <1>3, <4>1 DEF IInv, TypeOK, SharedTyped
      <4> QED
        BY <4>1, <4>2, <4>3, <4>4, <4>5 DEF Copied
    <3>5. CASE CopyFile(r, p)
      <4>1. /\ Kind[p] = "file" /\ tmp[p] # Absent
            /\ listed'[r] = listed[r] \ {p} /\ Lay(r, p, tmp[p], Torn, {})
        BY <2>3, <3>5 DEF CopyDir, CopyFile, CopyGone, CopyOther
      <4>2. tmp[p] = Shape(p, k)
        BY <2>1, <4>1, KindsOf DEF Shape
      <4>3. f # p /\ ~Copied(r, f)
        BY <3>4, <4>1, <4>2
      <4>4. PICK a \in listed[r] : a \in Above[f]
        BY <3>1, <4>3
      <4>5. a # p
        BY <3>2, <4>1, <4>3, <4>4
      <4> QED
        BY <4>1, <4>4, <4>5
    <3>6. CASE CopyDir(r, p)
      <4>1. PICK some \in {Children(p), {}} :
              /\ Lay(r, p, Made, Made, IF some = Children(p) THEN {}
                                       ELSE {q \in Paths \ {p} : p \in Above[q]})
              /\ listed'[r] = (listed[r] \ {p}) \cup some
        BY <2>3, <3>6 DEF CopyDir, CopyFile, CopyGone, CopyOther
      <4>2. Made = Shape(p, k)
        BY <3>6, KindsOf DEF Shape, CopyDir
      <4> DEFINE unread == IF some = Children(p) THEN {} ELSE {q \in Paths \ {p} : p \in Above[q]}
      <4>3. unread \in SUBSET Paths
        OBVIOUS
      <4>4. f # p /\ f \notin unread /\ ~Copied(r, f)
        <5> HIDE DEF unread
        <5>1. Lay(r, p, Made, Made, unread)
          BY <4>1 DEF unread
        <5> QED
          BY <3>4, <4>2, <4>3, <5>1
      <4>5. PICK a \in listed[r] : a \in Above[f]
        BY <3>1, <4>4
      <4>6. CASE a = p
        <5>1. PICK c \in Above[f] : c \in Paths /\ Parent[c] = p
          BY <3>1, <4>4, <4>5, <4>6, AboveStep
        <5>2. tmp[c] # Absent
          BY <1>3, <3>1, <5>1, AbovePackage, Constants
        <5>3. c \in Children(p)
          BY <5>1, <5>2, UpIsNode, Constants DEF Children, Present
        <5>4. some = Children(p)
          BY <3>1, <4>4, <4>5, <4>6
        <5> QED
          BY <4>1, <5>1, <5>3, <5>4
      <4> QED
        BY <4>1, <4>5, <4>6
    <3> QED
      BY <1>2, <1>5, <3>3, <3>5, <3>6
  <2>7. Copying(r)'
    BY <1>1, <2>1, <2>2, <2>4, <2>5, <2>6 DEF Copying
  <2>8. Untarred(r)'
    BY <1>1, <2>2, <2>4 DEF Phase, Untarred
  <2>9. OwnFiles(r)'
    BY <1>1, <2>2, <2>4 DEF Phase, OwnFiles
  <2> QED
    BY <1>1, <2>4, <2>7, <2>8, <2>9 DEF Phase, Cleaning, Cleared, OwnTar
<1>6. CASE CopySpins(r, p)
  <2>1. pc'[r] = "spin"
    BY <1>6 DEF CopySpins, Goto, IInv, TypeOK, PlacesTyped
  <2> QED
    BY <1>4, <2>1
<1> QED
  BY <1>5, <1>6

LEMMA CopyEndsPhase == ASSUME IInv, NEW r \in Runs, Phase(r), CopyEnds(r) PROVE Phase(r)'
<1>1. /\ pc[r] = "copy" /\ pc'[r] = "record" /\ listed[r] = {}
      /\ UNCHANGED <<arg, tmp, ok, root, fd, logs, lost>>
  BY DEF CopyEnds, Goto, history, IInv, TypeOK, PlacesTyped
<1>2. ok[r] => \A f \in Carried(Pkg(r)) : Copied(r, f)
  BY <1>1 DEF Phase, Copying
<1>3. Copying(r)'
  BY <1>1, <1>2 DEF Copying, Copied, Pkg
<1> QED
  BY <1>1, <1>3 DEF Phase, Cleaning, Cleared, OwnTar, OwnFiles, Untarred

LEMMA StepPhase ==
  ASSUME IInv, NEW r \in Runs, Phase(r), Step(r), ~stale'[r]
  PROVE  Phase(r)'
<1>1. ASSUME Record(r) PROVE Phase(r)'
  <2>1. pc'[r] = "windup"
    BY <1>1 DEF Record, WindUp, Goto, IInv, TypeOK, PlacesTyped
  <2> QED
    BY <2>1, ElsewhereNext
<1>2. ASSUME OrphanEnds(r) PROVE Phase(r)'
  <2>1. pc'[r] = "killed"
    BY <1>2 DEF OrphanEnds, End, Goto, IInv, TypeOK, PlacesTyped
  <2> QED
    BY <2>1, ElsewhereNext DEF Ended
<1>3. ASSUME pc[r] = "orphan", TarOne(r) \/ TarFails(r) PROVE Phase(r)'
  BY <1>3, ElsewhereNext DEF TarOne, TarFails
<1>4. TarOne(r) \/ TarFails(r) => pc[r] \in {"untar", "orphan"}
  BY DEF TarOne, TarFails, TarRuns
<1> QED
  BY <1>1, <1>2, <1>3, <1>4, RemoveOnePhase, RemoveEndsPhase, MakeTmpPhase, MakeDataPhase, OpenPhase,
     ExtractPhase, WritePhase, TarPhase, TarOnePhase, TarFailsPhase, TarEndsPhase, OpenLogPhase,
     CopyOnePhase, CopyEndsPhase DEF Step

LEMMA PhaseKeeps ==
  ASSUME IInv, Lonely, \A r \in Runs : Only(r) /\ ~stale[r] => Phase(r), Next,
         NEW r \in Runs, Only(r)', ~stale'[r]
  PROVE  Phase(r)'
<1>1. PICK q \in Runs : Start(q) \/ Step(q) \/ Kill(q)
  BY DEF Next
<1>2. CASE Start(q)
  BY <1>2, OnlyStart, StartPhase
<1>3. CASE Step(q) \/ Kill(q)
  BY <1>3, OnlyOne, StepPhase, ElsewhereNext
<1> QED
  BY <1>1, <1>2, <1>3

-----------------------------------------------------------------------------
(***************************************************************************)
(* What one step does to the logs, the prefix and the rows, whoever runs    *)
(* beside, and what an invocation that winds up or has ended still does.    *)
(***************************************************************************)
LEMMA StepOfOne ==
  ASSUME IInv, NEW q \in Runs, Start(q) \/ Step(q) \/ Kill(q)
  PROVE  /\ \A r \in Runs : r # q => /\ pc'[r] = pc[r] /\ arg'[r] = arg[r] /\ fd'[r] = fd[r]
                                     /\ ok'[r] = ok[r] /\ lost'[r] = lost[r]
         /\ \A r \in Runs : Alone(r)' => Alone(r)
         /\ \A r \in Runs : stale[r] => stale'[r]
         /\ \A r \in Runs : lost[r] \subseteq lost'[r]
         /\ CopyOne(q) \/ lost' = lost
<1>1. CASE Start(q)
  BY <1>1 DEF Start, Prepare, Goto, Alone, IInv, TypeOK, PlacesTyped
<1>2. CASE Kill(q)
  BY <1>2, KillFrame DEF Alone
<1>3. CASE Step(q)
  <2>1. /\ met' = met /\ \A r \in Runs : r # q => pc'[r] = pc[r]
        /\ \A r \in Runs : stale[r] => stale'[r]
    BY <1>3, StepFrame, SMTT(30)
  <2>2. arg' = arg \/ arg' = [arg EXCEPT ![q] = NoArg]
    BY <1>3, SMTT(30) DEF Step, End, WindUp, RemoveOne, RemoveEnds, MakeTmp, MakeData, OpenArchive,
       OpenFails, Extract, Write, Tar, TarOne, TarFails, TarEnds, OrphanEnds, OpenLog, CopyOne, CopyEnds, Record
  <2>3. fd' = fd \/ \E b \in BOOLEAN : fd' = [fd EXCEPT ![q] = b]
    BY <1>3 DEF Step, End, WindUp, RemoveOne, RemoveEnds, MakeTmp, MakeData, OpenArchive, NewLog,
       OpenFails, Extract, Write, Tar, TarOne, TarFails, TarEnds, OrphanEnds, OpenLog, CopyOne, CopyEnds, Record
  <2>4. ok' = ok \/ \E b : ok' = [ok EXCEPT ![q] = b]
    BY <1>3 DEF Step, End, WindUp, RemoveOne, RemoveEnds, MakeTmp, MakeData, OpenArchive,
       OpenFails, Extract, Write, Tar, TarOne, TarFails, TarEnds, OrphanEnds, OpenLog, CopyOne, CopyEnds, Record
  <2>5. \A r \in Runs : r # q => arg'[r] = arg[r]
    BY <2>2 DEF IInv, TypeOK, PlacesTyped
  <2>6. \A r \in Runs : r # q => fd'[r] = fd[r]
    BY <2>3 DEF IInv, TypeOK, PlacesTyped
  <2>7. \A r \in Runs : r # q => ok'[r] = ok[r]
    BY <2>4 DEF IInv, TypeOK, PlacesTyped
  <2>8. CASE CopyOne(q)
    BY <2>1, <2>5, <2>6, <2>7, <2>8, CopyOneEffect DEF Alone
  <2>9. CASE ~CopyOne(q)
    <3>1. lost' = lost
      BY <1>3, <2>9, Zenon DEF Step, history, RemoveOne, RemoveEnds, MakeTmp, MakeData, OpenArchive, OpenFails,
         Extract, Write, Tar, TarOne, TarFails, TarEnds, OrphanEnds, OpenLog, CopyEnds, Record
    <3> QED
      BY <2>1, <2>5, <2>6, <2>7, <3>1 DEF Alone
  <2> QED
    BY <2>8, <2>9
<1> QED
  BY <1>1, <1>2, <1>3

(* No call of copy() has failed before copy() is called. *)
LEMMA LostLateKeeps ==
  ASSUME IInv, LostLate, NEW q \in Runs, Start(q) \/ Step(q) \/ Kill(q)
  PROVE  LostLate'
<1> DEFINE Late == Ended \cup {"copy", "spin", "record", "windup"}
<1> SUFFICES ASSUME NEW r \in Runs, pc'[r] \notin Late PROVE lost'[r] = {}
  BY DEF LostLate
<1>1. CASE r # q
  BY <1>1, StepOfOne DEF LostLate
<1>2. CASE r = q /\ CopyOne(q)
  BY <1>2, CopyOneEffect DEF IInv, TypeOK, PlacesTyped
<1>3. CASE r = q /\ ~CopyOne(q)
  <2>1. lost' = lost
    BY <1>3, StepOfOne
  <2>2. pc[q] \in Late => pc'[q] \in Late
    <3>1. CASE Start(q)
      BY <3>1 DEF Start, Ended
    <3>2. CASE Kill(q)
      BY <3>2, KillFrame DEF Ended, IInv, TypeOK, PlacesTyped
    <3>3. ASSUME Step(q), pc[q] \in Late PROVE pc'[q] \in Late
      <4>1. RemoveOne(q) \/ RemoveEnds(q) \/ CopyEnds(q) \/ Record(q)
        BY <1>3, <3>3 DEF Step, Ended, MakeTmp, MakeData, OpenArchive, OpenFails, Extract, Write, Tar,
           TarOne, TarFails, TarRuns, TarEnds, OrphanEnds, OpenLog
      <4> QED
        BY <3>3, <4>1 DEF RemoveOne, RemoveEnds, CopyEnds, Record, WindUp, End, Goto, Ended, IInv,
           TypeOK, PlacesTyped
    <3> QED
      BY <3>1, <3>2, <3>3
  <2> QED
    BY <1>3, <2>1, <2>2 DEF LostLate
<1> QED
  BY <1>1, <1>2, <1>3

LEMMA LateStep ==
  ASSUME IInv, NEW q \in Runs, Start(q) \/ Step(q) \/ Kill(q)
  PROVE  /\ pc[q] \notin Ended
         /\ pc[q] = "windup" => /\ pc'[q] \in Ended \cup {"windup"}
                                /\ UNCHANGED <<ok, root, logs, db>>
<1>1. CASE Start(q)
  BY <1>1 DEF Start, Ended
<1>2. CASE Kill(q)
  BY <1>2, KillFrame DEF Active, Running, Ended, IInv, TypeOK, PlacesTyped
<1>3. CASE Step(q)
  <2>1. pc[q] \notin Ended
    BY <1>3, StepFrame DEF Active, Running, Ended
  <2>2. ASSUME pc[q] = "windup" PROVE RemoveOne(q) \/ RemoveEnds(q)
    BY <1>3, <2>2 DEF Step, MakeTmp, MakeData, OpenArchive, OpenFails, Extract, Write, Tar, TarOne,
       TarFails, TarRuns, TarEnds, OrphanEnds, OpenLog, CopyOne, CopyEnds, Record
  <2> QED
    BY <2>1, <2>2 DEF RemoveOne, RemoveEnds, End, Goto, Ended, IInv, TypeOK, PlacesTyped
<1> QED
  BY <1>1, <1>2, <1>3

LEMMA PrefixAndLogs ==
  ASSUME IInv, NEW q \in Runs, Start(q) \/ Step(q) \/ Kill(q)
  PROVE  /\ \A p \in Paths : root[p] # Absent => root'[p] # Absent
         /\ \A k \in Packages :
              \/ logs'[k].by = logs[k].by /\ logs[k].lines \subseteq logs'[k].lines
              \/ /\ logs[k].by = NoRun /\ logs'[k].by = q
                 /\ OpenLog(q) /\ k = Pkg(q) /\ fd'[q]
<1>1. CASE CopyOne(q)
  <2>1. \A f \in Paths : root[f] # Absent => root'[f] # Absent
    BY <1>1, CopyOneEffect
  <2>2. logs' = logs \/ \E p \in Paths : logs' = [logs EXCEPT ![Pkg(q)].lines = @ \cup {p}]
    BY <1>1, CopyOneEffect, ZenonT(40) DEF Pkg
  <2>3. \A k \in Packages : logs'[k].by = logs[k].by /\ logs[k].lines \subseteq logs'[k].lines
    BY <2>2 DEF IInv, TypeOK, SharedTyped
  <2> QED
    BY <2>1, <2>3
<1>2. CASE OpenLog(q)
  <2>1. root' = root /\ NewLog(q, Pkg(q)) /\ fd \in [Runs -> BOOLEAN]
        /\ logs \in [Packages -> [by : Runs \cup {NoRun}, lines : SUBSET Paths]]
    BY <1>2 DEF OpenLog, Pkg, IInv, TypeOK, PlacesTyped, SharedTyped
  <2> QED
    BY <1>2, <2>1 DEF NewLog
<1>3. CASE ~CopyOne(q) /\ ~OpenLog(q)
  <2>1. root' = root /\ logs' = logs
    BY <1>3 DEF Start, Kill, Step, RemoveOne, RemoveEnds, MakeTmp, MakeData, OpenArchive,
       OpenFails, Extract, Write, Tar, TarOne, TarFails, TarEnds, OrphanEnds, CopyEnds, Record
  <2> QED
    BY <2>1
<1> QED
  BY <1>1, <1>2, <1>3

LEMMA LogsOwnedKeeps ==
  ASSUME IInv, LogsOwned, NEW q \in Runs, Start(q) \/ Step(q) \/ Kill(q)
  PROVE  LogsOwned'
<1> SUFFICES ASSUME NEW r \in Runs, NEW k \in Packages, logs'[k].by = r, pc'[r] \notin Ended
             PROVE  fd'[r] /\ k = arg'[r].archive /\ pc'[r] \in {"copy", "spin", "record", "windup"}
  BY DEF LogsOwned, Pkg
<1>1. CASE r # q
  <2>1. logs[k].by = r
    BY <1>1, PrefixAndLogs
  <2> QED
    BY <1>1, <2>1, StepOfOne DEF LogsOwned, Pkg
<1>2. CASE r = q /\ logs[k].by = q
  <2>1. fd[q] /\ k = arg[q].archive /\ pc[q] \in {"copy", "spin", "record", "windup"}
    BY <1>2, LateStep DEF LogsOwned, Pkg
  <2>2. RemoveOne(q) \/ RemoveEnds(q) \/ CopyOne(q) \/ CopyEnds(q) \/ Record(q) \/ Kill(q)
    BY <2>1 DEF Step, Start, MakeTmp, MakeData, OpenArchive, OpenFails, Extract, Write, Tar, TarOne,
       TarFails, TarRuns, TarEnds, OrphanEnds, OpenLog
  <2>3. CASE CopyOne(q)
    BY <1>2, <2>1, <2>3, CopyOneEffect DEF CopyOne, IInv, TypeOK, PlacesTyped
  <2>4. CASE RemoveEnds(q) \/ Kill(q)
    BY <1>2, <2>1, <2>4, KillFrame DEF RemoveEnds, End, Goto, Ended, IInv, TypeOK, PlacesTyped
  <2> QED
    BY <1>2, <2>1, <2>2, <2>3, <2>4 DEF RemoveOne, CopyEnds, Record, WindUp, Goto, IInv, TypeOK, PlacesTyped
<1>3. CASE r = q /\ logs[k].by # q
  <2>1. OpenLog(q) /\ k = Pkg(q) /\ fd'[q]
    BY <1>3, PrefixAndLogs
  <2> QED
    BY <1>3, <2>1 DEF OpenLog, Goto, Pkg, IInv, TypeOK, PlacesTyped
<1> QED
  BY <1>1, <1>2, <1>3

(* A row is made by one step only, and nothing is added to what it had. *)
LEMMA RowsMade ==
  ASSUME IInv, NEW q \in Runs, Start(q) \/ Step(q) \/ Kill(q)
  PROVE  \/ db' = db
         \/ /\ pc[q] = "record" /\ pc'[q] = "windup" /\ q \in Active
            /\ db' = db \cup {[run |-> q, pkg |-> Pkg(q)]}
            /\ UNCHANGED <<ok, root, logs, met, stale, lost>>
<1>1. CASE Record(q)
  BY <1>1 DEF Record, history, WindUp, Goto, Pkg, Active, Running, IInv, TypeOK, PlacesTyped
<1>2. CASE ~Record(q)
  BY <1>2 DEF Start, Kill, Step, RemoveOne, RemoveEnds, MakeTmp, MakeData, OpenArchive,
     OpenFails, Extract, Write, Tar, TarOne, TarFails, TarEnds, OrphanEnds, OpenLog, CopyOne, CopyEnds
<1> QED
  BY <1>1, <1>2

LEMMA RowsKeep ==
  ASSUME IInv, LoneInv, NEW q \in Runs, Start(q) \/ Step(q) \/ Kill(q)
  PROVE  RowsLate' /\ RowBacked'
<1>1. \A row \in db : row.run \in Runs /\ row.pkg \in Packages
  BY DEF IInv, TypeOK, SharedTyped
<1>2. ASSUME NEW row \in db
      PROVE  /\ pc'[row.run] \in Ended \cup {"windup"}
             /\ Fresh(row.run)' /\ ok'[row.run] =>
                  \A p \in Carried(row.pkg) \ lost'[row.run] :
                    /\ root'[p] # Absent
                    /\ logs'[row.pkg].by = row.run => p \in logs'[row.pkg].lines
  <2>1. row.run \in Runs /\ row.pkg \in Packages /\ pc[row.run] \in Ended \cup {"windup"}
    BY <1>1 DEF LoneInv, RowsLate
  <2>2. pc'[row.run] \in Ended \cup {"windup"} /\ ok'[row.run] = ok[row.run]
    BY <2>1, LateStep, StepOfOne
  <2>3. (Fresh(row.run)' => Fresh(row.run)) /\ lost[row.run] \subseteq lost'[row.run]
    BY <2>1, StepOfOne DEF Fresh
  <2>4. Carried(row.pkg) \subseteq Paths
    BY <2>1, UpIsNode DEF Carried
  <2>5. \A p \in Paths : root[p] # Absent => root'[p] # Absent
    BY PrefixAndLogs
  <2>6. logs'[row.pkg].by = row.run =>
          logs[row.pkg].by = row.run /\ logs[row.pkg].lines \subseteq logs'[row.pkg].lines
    <3>1. row.run = q => ~OpenLog(q)
      BY <2>1 DEF OpenLog, Ended
    <3> QED
      BY <2>1, <3>1, PrefixAndLogs
  <2>7. Fresh(row.run) /\ ok[row.run] =>
          \A p \in Carried(row.pkg) \ lost[row.run] :
            /\ root[p] # Absent
            /\ logs[row.pkg].by = row.run => p \in logs[row.pkg].lines
    BY DEF LoneInv, RowBacked
  <2> QED
    BY <2>2, <2>3, <2>4, <2>5, <2>6, <2>7
<1>3. CASE db' = db
  BY <1>2, <1>3 DEF RowsLate, RowBacked, Carried
<1>4. CASE /\ pc[q] = "record" /\ pc'[q] = "windup" /\ q \in Active
           /\ db' = db \cup {[run |-> q, pkg |-> Pkg(q)]}
           /\ UNCHANGED <<ok, root, logs, met, stale, lost>>
  <2>1. ASSUME Fresh(q), ok[q], NEW p \in Carried(Pkg(q)) \ lost[q]
        PROVE  root[p] # Absent /\ (logs[Pkg(q)].by = q => p \in logs[Pkg(q)].lines)
    <3>1. Copied(q, p)
      BY <1>4, <2>1 DEF LoneInv, Only, Fresh, Phase, Copying
    <3>2. Pkg(q) \in Packages /\ Pkg(q) # Absent /\ Made # Absent
      BY <1>4, GivenPackage, Constants
    <3>3. logs[Pkg(q)].by = q => fd[q]
      BY <1>4, <3>2 DEF LoneInv, LogsOwned, Ended
    <3> QED
      BY <2>1, <3>1, <3>2, <3>3 DEF Copied, Shape
  <2>2. Fresh(q)' => Fresh(q)
    BY StepOfOne DEF Fresh
  <2>3. \A row \in db' : row \in db \/ (row.run = q /\ row.pkg = Pkg(q))
    BY <1>4
  <2> HIDE <1>4
  <2>4. pc'[q] = "windup" /\ UNCHANGED <<ok, root, logs, met, lost>>
    BY <1>4
  <2>5. RowsLate'
    BY <1>2, <2>3, <2>4 DEF RowsLate
  <2>6. RowBacked'
    <3> SUFFICES ASSUME NEW row \in db', Fresh(row.run)', ok'[row.run],
                        NEW p \in Carried(row.pkg) \ lost'[row.run]
                 PROVE  /\ root'[p] # Absent
                        /\ logs'[row.pkg].by = row.run => p \in logs'[row.pkg].lines
      BY DEF RowBacked, Carried
    <3>1. CASE row \in db
      BY <1>2, <3>1
    <3>2. CASE row.run = q /\ row.pkg = Pkg(q)
      BY <2>1, <2>2, <2>4, <3>2
    <3> QED
      BY <2>3, <3>1, <3>2
  <2> QED
    BY <2>5, <2>6
<1> QED
  BY <1>3, <1>4, RowsMade

-----------------------------------------------------------------------------
LEMMA LoneInit == Init => LoneInv
BY Constants DEF Init, LoneInv, Lonely, Only, Active, Running, LogsOwned, RowsLate, LostLate, RowBacked

LEMMA LoneKeeps == IInv /\ LoneInv /\ [Next]_vars => LoneInv'
<1> SUFFICES ASSUME IInv, LoneInv, [Next]_vars PROVE LoneInv'
  OBVIOUS
<1>1. CASE UNCHANGED vars
  <2>1. (\A r \in Runs : Only(r) /\ ~stale[r] => Phase(r))'
    BY <1>1 DEF vars, history, LoneInv, Only, Alone, Active, Phase, Cleaning, Leftover, Present, Cleared,
       OwnTar, OwnFiles, Untarred, Copying, Copied, Pkg
  <2> QED
    BY <1>1, <2>1 DEF vars, history, LoneInv, Lonely, Only, Alone, Fresh, Active, LogsOwned, RowsLate,
       LostLate, RowBacked, Pkg
<1>2. CASE Next
  <2>1. PICK q \in Runs : Start(q) \/ Step(q) \/ Kill(q)
    BY <1>2 DEF Next
  <2>2. LogsOwned' /\ RowsLate' /\ LostLate' /\ RowBacked'
    BY <2>1, LogsOwnedKeeps, LostLateKeeps, RowsKeep DEF LoneInv
  <2>3. Lonely'
    BY <1>2, LonelyKeeps DEF LoneInv
  <2>4. (\A r \in Runs : Only(r) /\ ~stale[r] => Phase(r))'
    BY <1>2, PhaseKeeps DEF LoneInv
  <2> QED
    BY <2>2, <2>3, <2>4 DEF LoneInv
<1> QED
  BY <1>1, <1>2

LEMMA LoneInvariance == Spec => []LoneInv
<1> QED
  BY LoneInit, LoneKeeps, Invariance, PTL DEF Spec

LEMMA MayBeActive == ASSUME NEW r \in Runs, pc[r] \in Running PROVE r \in Active
BY DEF Active

(***************************************************************************)
(* When prepare_tempds() of an invocation that is alone has failed to       *)
(* remove nothing, no file is left, whatever killed and --keep-temp         *)
(* invocations before it left in TMP_DIR.                                   *)
(***************************************************************************)
THEOREM SlateIsClean == Spec => []CleanSlate
<1>1. LoneInv => CleanSlate
  BY MayBeActive DEF LoneInv, CleanSlate, Only, Fresh, Phase, Cleaning, Leftover, Running
<1> QED
  BY <1>1, LoneInvariance, PTL

(***************************************************************************)
(* What is in the prefix when copy() of such an invocation has returned is  *)
(* the whole package of its archive, but for the paths on which a call of   *)
(* it failed: no path is forgotten in the walk of copy().                   *)
(***************************************************************************)
THEOREM WholeIsInstalled == Spec => []InstallWhole
<1>1. LoneInv => InstallWhole
  BY MayBeActive DEF LoneInv, InstallWhole, Only, Fresh, Phase, Copying, Copied, Running
<1> QED
  BY <1>1, LoneInvariance, PTL

(***************************************************************************)
(* A row of such an invocation stays backed by the prefix and by its log,   *)
(* but for the same paths, whoever runs after it or beside those.           *)
(***************************************************************************)
THEOREM RowsStayBacked == Spec => []RowBacked
<1>1. LoneInv => RowBacked
  BY DEF LoneInv
<1> QED
  BY <1>1, LoneInvariance, PTL

LEMMA ForeignStep ==
  ASSUME IInv, LoneInv, [Next]_vars, NEW p \in Paths, root'[p] # root[p]
  PROVE  \E r \in Active :
           /\ pc[r] = "copy"
           /\ Fresh(r) => /\ root'[p] \in {Shape(p, Pkg(r)), Torn}
                          /\ p \in Carried(Pkg(r)) \/ Kind[p] = "dir"
<1>1. PICK r \in Runs : CopyOne(r)
  <2>1. root' # root
    OBVIOUS
  <2> QED
    BY <2>1, Zenon DEF Next, vars, Start, Kill, Step, RemoveOne, RemoveEnds, MakeTmp, MakeData,
       OpenArchive, OpenFails, Extract, Write, Tar, TarOne, TarFails, TarEnds, OrphanEnds, OpenLog,
       CopyEnds, Record
<1>2. pc[r] = "copy" /\ r \in Active
  BY <1>1, MayBeActive DEF CopyOne, Running
<1>3. ASSUME Fresh(r)
      PROVE  /\ root'[p] \in {Shape(p, Pkg(r)), Torn}
             /\ p \in Carried(Pkg(r)) \/ Kind[p] = "dir"
  <2>1. /\ \A f \in Paths : Kind[f] = "file" /\ tmp[f] # Absent =>
             tmp[f] = Pkg(r) /\ f \in Contents[Pkg(r)]
        /\ listed[r] \subseteq Present
    BY <1>2, <1>3 DEF LoneInv, Only, Fresh, Phase, OwnFiles, Copying
  <2>2. PICK f \in Paths \cap listed[r] :
          \/ Kind[f] = "dir" /\ root' \in {root, [root EXCEPT ![f] = Made]}
          \/ /\ Kind[f] = "file" /\ tmp[f] # Absent
             /\ root' \in {root, [root EXCEPT ![f] = tmp[f]], [root EXCEPT ![f] = Torn]}
          \/ Kind[f] = "file" /\ root' = [root EXCEPT ![f] = Torn] /\ UNCHANGED lost
    BY <1>1, CopyPuts
  <2>3. f = p
    BY <2>2 DEF IInv, TypeOK, SharedTyped
  <2>4. tmp[p] # Absent
    BY <2>1, <2>2, <2>3 DEF Present
  <2> QED
    BY <2>1, <2>2, <2>3, <2>4, KindsOf DEF Shape, Carried, IInv, TypeOK, SharedTyped
<1> QED
  BY <1>2, <1>3

(***************************************************************************)
(* Such an invocation puts no file of another package in the prefix, and    *)
(* nothing at a path that its package does not carry but a directory.       *)
(***************************************************************************)
THEOREM NothingForeignComes == Spec => NothingForeign
<1>1. IInv /\ LoneInv /\ [Next]_vars =>
        [\A p \in Paths : root'[p] # root[p] =>
           \E r \in Active :
             /\ pc[r] = "copy"
             /\ Fresh(r) => /\ root'[p] \in {Shape(p, Pkg(r)), Torn}
                            /\ p \in Carried(Pkg(r)) \/ Kind[p] = "dir"]_vars
  BY ForeignStep
<1> QED
  BY <1>1, Invariance, LoneInvariance, PTL DEF Spec, NothingForeign

-----------------------------------------------------------------------------
(***************************************************************************)
(* Invocations one after another implement Installer: OpenLog is Begin, an  *)
(* entry of copy() Put, Record Finish, Kill during these Abandon; what is   *)
(* done in TMP_DIR, before and after, is a step of none of them.            *)
(***************************************************************************)
JobPlaces == {"copy", "spin", "record"}
TheJob    == IF Jobs = {} THEN NoJob ELSE JobOf(CHOOSE r \in Jobs : TRUE)
JobAt(r)  == IF pc[r] \in JobPlaces THEN JobOf(r) ELSE NoJob

(* Nobody was ever met, where one invocation runs at a time. *)
Serial == \A r \in Runs : Alone(r)

LEMMA NobodyActive == Together = 1 /\ Cardinality(Active) < Together => Active = {}
<1> SUFFICES ASSUME Cardinality(Active) < 1 PROVE Active = {}
  OBVIOUS
<1>1. IsFiniteSet(Runs)
  BY FS_Interval, RunAssumption DEF Runs
<1>2. IsFiniteSet(Active)
  BY <1>1, FS_Subset DEF Active
<1>3. Cardinality(Active) \in Nat
  BY <1>2, FS_CardinalityType
<1>4. Cardinality(Active) = 0
  BY <1>3
<1> QED
  BY <1>2, <1>4, FS_EmptySet

LEMMA SerialKeeps == Together = 1 /\ IInv /\ Serial /\ [Next]_vars => Serial'
<1> SUFFICES ASSUME Together = 1, IInv, Serial, [Next]_vars PROVE Serial'
  OBVIOUS
<1>1. CASE UNCHANGED vars
  BY <1>1 DEF vars, history, Serial, Alone
<1>2. ASSUME NEW q \in Runs, Start(q) PROVE Serial'
  <2>1. Active = {}
    BY <1>2, NobodyActive DEF Start
  <2> QED
    BY <1>2, <2>1 DEF Start, Serial, Alone
<1>3. ASSUME NEW q \in Runs, Step(q) \/ Kill(q) PROVE Serial'
  <2>1. met' = met
    BY <1>3, StepFrame, KillFrame
  <2> QED
    BY <2>1 DEF Serial, Alone
<1> QED
  BY <1>1, <1>2, <1>3 DEF Next

LEMMA JobNow ==
  ASSUME NEW r \in Runs, Jobs \subseteq {r}
  PROVE  TheJob = JobAt(r)
<1>1. CASE pc[r] \in JobPlaces
  <2>1. Jobs = {r}
    BY <1>1 DEF Jobs, JobPlaces
  <2>2. (CHOOSE x \in {r} : TRUE) = r
    OBVIOUS
  <2> QED
    BY <1>1, <2>1, <2>2 DEF TheJob, JobAt
<1>2. CASE pc[r] \notin JobPlaces
  <2>1. Jobs = {}
    BY <1>2 DEF Jobs, JobPlaces
  <2> QED
    BY <1>2, <2>1 DEF TheJob, JobAt
<1> QED
  BY <1>1, <1>2

LEMMA JobNext ==
  ASSUME NEW r \in Runs, Jobs' \subseteq {r}
  PROVE  TheJob' = JobAt(r)'
<1>1. CASE pc'[r] \in JobPlaces
  <2>1. Jobs' = {r}
    BY <1>1 DEF Jobs, JobPlaces
  <2>2. (CHOOSE x \in {r} : TRUE) = r
    OBVIOUS
  <2> QED
    BY <1>1, <2>1, <2>2 DEF TheJob, JobAt, JobPlaces, JobOf, Pkg
<1>2. CASE pc'[r] \notin JobPlaces
  <2>1. Jobs' = {}
    BY <1>2 DEF Jobs, JobPlaces
  <2> QED
    BY <1>2, <2>1 DEF TheJob, JobAt, JobPlaces
<1> QED
  BY <1>1, <1>2

(* Only the one that takes the step has a job, before it and after it. *)
LEMMA OneJob ==
  ASSUME Together = 1, IInv, LoneInv, Serial,
         NEW q \in Runs, Start(q) \/ Step(q) \/ Kill(q)
  PROVE  /\ TheJob = JobAt(q) /\ TheJob' = JobAt(q)'
         /\ pc[q] \in JobPlaces /\ ~stale[q] => Phase(q)
<1>1. Jobs \subseteq Active
  BY DEF Jobs, Active, Running
<1>2. Active \subseteq {q}
  <2>1. CASE Start(q)
    BY <2>1, NobodyActive DEF Start
  <2>2. CASE Step(q) \/ Kill(q)
    <3>1. q \in Active
      BY <2>2, StepFrame, KillFrame
    <3> QED
      BY <3>1 DEF LoneInv, Lonely, Only, Serial
  <2> QED
    BY <2>1, <2>2
<1>3. Jobs' \subseteq {q}
  <2>1. \A r \in Runs : r # q => pc'[r] = pc[r]
    BY StepOfOne
  <2> QED
    BY <1>1, <1>2, <2>1 DEF Jobs
<1>4. pc[q] \in JobPlaces /\ ~stale[q] => Phase(q)
  BY MayBeActive DEF JobPlaces, Running, LoneInv, Only, Serial
<1> QED
  BY <1>1, <1>2, <1>3, <1>4, JobNow, JobNext

LEMMA JobIsNone == ASSUME NEW r \in Runs, pc[r] \in JobPlaces PROVE JobAt(r) # NoJob
BY Constants DEF JobAt, JobOf, NoJob

(* What one step of copy() is of the job at work. *)
OwnPut(j, p, what) ==
  /\ what \in {Shape(p, j.pkg), Torn}
  /\ p \in Carried(j.pkg) \/ Kind[p] = "dir"

LEMMA CopyIsPut ==
  ASSUME IInv, NEW q \in Runs, CopyOne(q), ~stale[q] => Phase(q)
  PROVE  \/ UNCHANGED <<root, lost>>
         \/ \E p \in Paths : \E what \in Packages \cup {Made, Torn} :
              /\ JobOf(q).clean => OwnPut(JobOf(q), p, what)
              /\ root' \in {root, [root EXCEPT ![p] = what]}
<1> SUFFICES ASSUME UNCHANGED <<root, lost>> => FALSE
             PROVE  \E p \in Paths : \E what \in Packages \cup {Made, Torn} :
                      /\ JobOf(q).clean => OwnPut(JobOf(q), p, what)
                      /\ root' \in {root, [root EXCEPT ![p] = what]}
  OBVIOUS
<1>1. PICK p \in Paths \cap listed[q] :
        \/ Kind[p] = "dir" /\ root' \in {root, [root EXCEPT ![p] = Made]}
        \/ /\ Kind[p] = "file" /\ tmp[p] # Absent
           /\ root' \in {root, [root EXCEPT ![p] = tmp[p]], [root EXCEPT ![p] = Torn]}
        \/ Kind[p] = "file" /\ root' = [root EXCEPT ![p] = Torn] /\ UNCHANGED lost
  BY CopyPuts
<1>2. JobOf(q).pkg = Pkg(q) /\ (JobOf(q).clean <=> ~stale[q]) /\ pc[q] = "copy"
  BY DEF JobOf, CopyOne
<1>3. ~stale[q] /\ Kind[p] = "file" => tmp[p] = Pkg(q) /\ p \in Carried(Pkg(q))
  BY <1>2 DEF Phase, OwnFiles, Copying, Present, Carried
<1>4. tmp[p] \in Packages \cup {Absent, Made}
  BY Constants DEF IInv, TypeOK, SharedTyped
<1>5. CASE Kind[p] = "dir" /\ root' \in {root, [root EXCEPT ![p] = Made]}
  <2>1. JobOf(q).clean => OwnPut(JobOf(q), p, Made)
    BY <1>5, KindsOf DEF OwnPut, Shape
  <2> QED
    BY <1>5, <2>1
<1>6. CASE Kind[p] = "file" /\ tmp[p] # Absent /\ root' \in {root, [root EXCEPT ![p] = tmp[p]]}
  <2>1. JobOf(q).clean => OwnPut(JobOf(q), p, tmp[p])
    BY <1>2, <1>3, <1>6, KindsOf DEF OwnPut, Shape
  <2> QED
    BY <1>4, <1>6, <2>1
<1>7. CASE Kind[p] = "file" /\ root' = [root EXCEPT ![p] = Torn]
  <2>1. JobOf(q).clean => OwnPut(JobOf(q), p, Torn)
    BY <1>2, <1>3, <1>7 DEF OwnPut
  <2> QED
    BY <1>7, <2>1
<1> QED
  BY <1>1, <1>5, <1>6, <1>7

JobsOpen == {j \in [run : Runs, pkg : Packages, clean : BOOLEAN, sound : BOOLEAN,
                    lost : SUBSET Paths] : (j.sound => j.clean) /\ j.lost = {}}

(* What one step does to the prefix, the rows and the job. *)
LEMMA JobStep ==
  ASSUME Together = 1, IInv, LoneInv, Serial,
         NEW q \in Runs, Start(q) \/ Step(q) \/ Kill(q)
  PROVE  \/ UNCHANGED <<root, db>> /\ JobAt(q)' = JobAt(q)
         \/ JobAt(q) = NoJob /\ UNCHANGED <<root, db>> /\ JobAt(q)' \in JobsOpen
         \/ /\ JobAt(q) # NoJob /\ UNCHANGED db
            /\ \E p \in Paths : \E what \in Packages \cup {Made, Torn} :
                 /\ JobAt(q).clean => OwnPut(JobAt(q), p, what)
                 /\ root' \in {root, [root EXCEPT ![p] = what]}
            /\ \E failed \in SUBSET Paths :
                 JobAt(q)' = [JobAt(q) EXCEPT !.lost = @ \cup failed]
         \/ /\ JobAt(q) # NoJob /\ JobAt(q)' = NoJob /\ UNCHANGED root
            /\ JobAt(q).sound =>
                 \A p \in Carried(JobAt(q).pkg) \ JobAt(q).lost : root[p] = Shape(p, JobAt(q).pkg)
            /\ db' \in {db, db \cup {[run |-> JobAt(q).run, pkg |-> JobAt(q).pkg]}}
         \/ JobAt(q) # NoJob /\ JobAt(q)' = NoJob /\ UNCHANGED <<root, db>>
<1>1. CASE OpenLog(q)
  <2>1. /\ pc[q] = "log" /\ pc'[q] = "copy" /\ UNCHANGED <<arg, ok, stale, lost, root, db>>
    BY <1>1 DEF OpenLog, Goto, history, IInv, TypeOK, PlacesTyped
  <2>2. /\ JobAt(q) = NoJob
        /\ JobAt(q)' = [run |-> q, pkg |-> Pkg(q), clean |-> ~stale[q],
                        sound |-> ok[q] /\ ~stale[q], lost |-> lost[q]]
    BY <2>1 DEF JobAt, JobOf, JobPlaces, Pkg
  <2>3. Pkg(q) \in Packages /\ lost[q] = {}
    BY <2>1, GivenPackage DEF LoneInv, LostLate, Ended
  <2>4. PICK clean \in BOOLEAN : clean = ~stale[q]
    OBVIOUS
  <2>5. PICK sound \in BOOLEAN : sound = (ok[q] /\ ~stale[q])
    OBVIOUS
  <2>6. sound => clean
    BY <2>4, <2>5
  <2>7. JobAt(q)' = [run |-> q, pkg |-> Pkg(q), clean |-> clean, sound |-> sound, lost |-> {}]
    BY <2>2, <2>3, <2>4, <2>5, Zenon
  <2>8. JobAt(q)' \in JobsOpen
    BY <2>3, <2>6, <2>7 DEF JobsOpen
  <2> QED
    BY <2>1, <2>2, <2>8
<1>2. CASE CopyOne(q)
  <2>1. /\ pc[q] = "copy" /\ pc'[q] \in JobPlaces /\ UNCHANGED <<arg, ok, stale, db>>
        /\ lost[q] \subseteq lost'[q] /\ lost'[q] \in SUBSET Paths
    BY <1>2, CopyOneEffect DEF JobPlaces, IInv, TypeOK, PlacesTyped
  <2>2. /\ JobAt(q) = JobOf(q) /\ JobAt(q) # NoJob
        /\ JobAt(q)' = [JobOf(q) EXCEPT !.lost = lost'[q]]
    BY <2>1, JobIsNone DEF JobAt, JobOf, JobPlaces, Pkg
  <2>3. JobAt(q)' = [JobAt(q) EXCEPT !.lost = @ \cup lost'[q]]
    <3>1. JobOf(q).lost \cup lost'[q] = lost'[q]
      BY <2>1 DEF JobOf
    <3> QED
      BY <2>2, <3>1
  <2>4. lost' = lost => JobAt(q)' = JobAt(q)
    BY <2>2 DEF JobOf
  <2>5. ~stale[q] => Phase(q)
    BY <2>1, OneJob DEF JobPlaces
  <2>6. CASE UNCHANGED <<root, lost>>
    BY <2>1, <2>4, <2>6
  <2>7. CASE \E p \in Paths : \E what \in Packages \cup {Made, Torn} :
               /\ JobOf(q).clean => OwnPut(JobOf(q), p, what)
               /\ root' \in {root, [root EXCEPT ![p] = what]}
    BY <2>1, <2>2, <2>3, <2>7, Zenon
  <2> QED
    BY <1>2, <2>5, <2>6, <2>7, CopyIsPut
<1>3. CASE CopyEnds(q)
  <2>1. pc[q] = "copy" /\ pc'[q] = "record" /\ UNCHANGED <<arg, ok, stale, lost, root, db>>
    BY <1>3 DEF CopyEnds, Goto, history, IInv, TypeOK, PlacesTyped
  <2> QED
    BY <2>1 DEF JobAt, JobOf, JobPlaces, Pkg
<1>4. CASE Record(q)
  <2>1. /\ pc[q] = "record" /\ pc'[q] = "windup" /\ UNCHANGED root
        /\ db' \in {db, db \cup {[run |-> q, pkg |-> Pkg(q)]}}
    BY <1>4 DEF Record, WindUp, Goto, Pkg, IInv, TypeOK, PlacesTyped
  <2>2. /\ JobAt(q) = [run |-> q, pkg |-> Pkg(q), clean |-> ~stale[q],
                       sound |-> ok[q] /\ ~stale[q], lost |-> lost[q]]
        /\ JobAt(q) # NoJob /\ JobAt(q)' = NoJob
    BY <2>1, JobIsNone DEF JobAt, JobOf, JobPlaces
  <2>3. ok[q] /\ ~stale[q] => \A p \in Carried(Pkg(q)) \ lost[q] : root[p] = Shape(p, Pkg(q))
    BY <2>1, OneJob DEF JobPlaces, Phase, Copying, Copied
  <2>4. /\ JobAt(q).run = q /\ JobAt(q).pkg = Pkg(q) /\ JobAt(q).lost = lost[q]
        /\ JobAt(q).sound = (ok[q] /\ ~stale[q])
    BY <2>2
  <2>5. JobAt(q).sound =>
          \A p \in Carried(JobAt(q).pkg) \ JobAt(q).lost : root[p] = Shape(p, JobAt(q).pkg)
    BY <2>3, <2>4
  <2>6. db' \in {db, db \cup {[run |-> JobAt(q).run, pkg |-> JobAt(q).pkg]}}
    BY <2>1, <2>4
  <2> QED
    BY <2>1, <2>2, <2>5, <2>6
<1>5. CASE Kill(q)
  <2>1. pc'[q] \in {"killed", "orphan"} /\ UNCHANGED <<root, db>>
    BY <1>5, KillFrame DEF IInv, TypeOK, PlacesTyped, Kill
  <2>2. JobAt(q)' = NoJob
    BY <2>1 DEF JobAt, JobPlaces
  <2> QED
    BY <2>1, <2>2
<1>6. CASE Start(q) \/ RemoveOne(q) \/ RemoveEnds(q) \/ MakeTmp(q) \/ MakeData(q)
           \/ OpenArchive(q) \/ OpenFails(q) \/ Extract(q) \/ Write(q) \/ Tar(q)
           \/ TarOne(q) \/ TarFails(q) \/ TarEnds(q) \/ OrphanEnds(q)
  <2>1. UNCHANGED <<root, db>>
    BY <1>6 DEF Start, RemoveOne, RemoveEnds, MakeTmp, MakeData, OpenArchive, OpenFails, Extract,
       Write, Tar, TarOne, TarFails, TarEnds, OrphanEnds
  <2>2. pc[q] \notin JobPlaces
    BY <1>6 DEF JobPlaces, Start, RemoveOne, RemoveEnds, MakeTmp, MakeData, OpenArchive,
       OpenFails, Extract, Write, Tar, TarOne, TarFails, TarRuns, TarEnds, OrphanEnds
  <2>3. pc' = pc \/ \E place \in {"prepare", "mktmp", "mkdata", "open", "extract", "write", "tar",
                                  "untar", "log", "windup", "done", "crashed", "killed"} :
                       pc' = [pc EXCEPT ![q] = place]
    BY <1>6 DEF Start, Prepare, RemoveOne, RemoveEnds, MakeTmp, MakeData, OpenArchive, OpenFails,
       Extract, Write, Tar, TarOne, TarFails, TarEnds, OrphanEnds, WindUp, End, Goto
  <2>4. pc'[q] \notin JobPlaces
    BY <2>2, <2>3 DEF JobPlaces, IInv, TypeOK, PlacesTyped
  <2> QED
    BY <2>1, <2>2, <2>4 DEF JobAt, JobPlaces
<1> QED
  BY <1>1, <1>2, <1>3, <1>4, <1>5, <1>6 DEF Step

LEMMA PromisedInit == Init => Promised!Init
<1> SUFFICES ASSUME Init PROVE Promised!Init
  OBVIOUS
<1>1. Jobs = {}
  BY DEF Init, Jobs
<1> QED
  BY <1>1 DEF Init, Promised!Init

LEMMA PromisedStep ==
  Together = 1 /\ IInv /\ LoneInv /\ Serial /\ [Next]_vars => [Promised!Next]_(Promised!vars)
<1> SUFFICES ASSUME Together = 1, IInv, LoneInv, Serial, [Next]_vars
             PROVE  [Promised!Next]_(Promised!vars)
  OBVIOUS
<1>1. CASE UNCHANGED vars
  BY <1>1 DEF vars, history, Promised!vars, Jobs, JobOf, Pkg
<1>2. ASSUME NEW q \in Runs, Start(q) \/ Step(q) \/ Kill(q)
      PROVE  [Promised!Next]_(Promised!vars)
  <2>1. TheJob = JobAt(q) /\ TheJob' = JobAt(q)'
    BY <1>2, OneJob
  <2>2. PICK j : j = JobAt(q)
    OBVIOUS
  <2>3. PICK k : k = JobAt(q)'
    OBVIOUS
  <2>4. /\ (IF Jobs = {} THEN NoJob ELSE JobOf(CHOOSE r \in Jobs : TRUE)) = j
        /\ (IF Jobs = {} THEN NoJob ELSE JobOf(CHOOSE r \in Jobs : TRUE))' = k
    BY <2>1, <2>2, <2>3 DEF TheJob
  <2>5. /\ \A x : Promised!Carried(x) = Carried(x)
        /\ \A p \in Paths : \A x : Promised!Shape(p, x) = Shape(p, x)
    BY KindsOf DEF Shape, Carried, Promised!Shape, Promised!Carried
  <2>6. CASE UNCHANGED <<root, db>> /\ k = j
    BY <2>4, <2>6 DEF Promised!vars
  <2>7. CASE j = NoJob /\ UNCHANGED <<root, db>> /\ k \in JobsOpen
    <3>1. Promised!Begin
      BY <2>4, <2>7 DEF Promised!Begin, Promised!Job, JobsOpen
    <3> QED
      BY <3>1 DEF Promised!Next
  <2>8. CASE /\ j # NoJob /\ UNCHANGED db
             /\ \E p \in Paths : \E what \in Packages \cup {Made, Torn} :
                  /\ j.clean => OwnPut(j, p, what)
                  /\ root' \in {root, [root EXCEPT ![p] = what]}
             /\ \E failed \in SUBSET Paths : k = [j EXCEPT !.lost = @ \cup failed]
    <3>1. \E p \in Paths : \E what \in Packages \cup {Made, Torn} :
            /\ j.clean => /\ what \in {Promised!Shape(p, j.pkg), Torn}
                          /\ p \in Promised!Carried(j.pkg) \/ Kind[p] = "dir"
            /\ root' \in {root, [root EXCEPT ![p] = what]}
      BY <2>5, <2>8 DEF OwnPut
    <3>2. Promised!Put
      BY <2>4, <2>8, <3>1 DEF Promised!Put, Promised!Own
    <3> QED
      BY <3>2 DEF Promised!Next
  <2>9. CASE /\ j # NoJob /\ k = NoJob /\ UNCHANGED root
             /\ j.sound => \A p \in Carried(j.pkg) \ j.lost : root[p] = Shape(p, j.pkg)
             /\ db' \in {db, db \cup {[run |-> j.run, pkg |-> j.pkg]}}
    <3>1. Carried(j.pkg) \subseteq Paths
      BY <2>2, <2>9, GivenPackage DEF JobAt, JobOf, JobPlaces
    <3>2. j.sound => \A p \in Promised!Carried(j.pkg) \ j.lost : root[p] = Promised!Shape(p, j.pkg)
      BY <2>5, <2>9, <3>1
    <3>3. Promised!Finish
      BY <2>4, <2>9, <3>2 DEF Promised!Finish
    <3> QED
      BY <3>3 DEF Promised!Next
  <2>10. CASE j # NoJob /\ k = NoJob /\ UNCHANGED <<root, db>>
    <3>1. Promised!Abandon
      BY <2>4, <2>10 DEF Promised!Abandon
    <3> QED
      BY <3>1 DEF Promised!Next
  <2> QED
    BY <1>2, <2>2, <2>3, <2>6, <2>7, <2>8, <2>9, <2>10, JobStep
<1> QED
  BY <1>1, <1>2 DEF Next

(***************************************************************************)
(* What the refinement says, for any number of invocations and packages:    *)
(* mpkg() as it is, with TMP_DIR, tar(1) and one that outlives its mpkg,    *)
(* leftovers, kills and calls that fail anywhere, does nothing but what     *)
(* Installer promises, where one invocation runs at a time.                 *)
(***************************************************************************)
THEOREM RefinesInstaller == ASSUME Together = 1 PROVE Spec => ImplementsInstaller
<1>1. Init => Serial
  BY DEF Init, Serial, Alone
<1>2. IInv /\ Serial /\ [Next]_vars => Serial'
  BY SerialKeeps
<1>3. Spec => []Serial
  BY <1>1, <1>2, Invariance, PTL DEF Spec
<1>4. IInv /\ LoneInv /\ Serial /\ [Next]_vars => [Promised!Next]_(Promised!vars)
  BY PromisedStep
<1> QED
  BY <1>3, <1>4, PromisedInit, Invariance, LoneInvariance, PTL
  DEF Spec, ImplementsInstaller, Promised!Spec
=============================================================================
