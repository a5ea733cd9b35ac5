---------------------------- MODULE InstallProofs ----------------------------
(***************************************************************************)
(* Proofs about Install, for any number of invocations, side by side or one *)
(* after another, each killed at any point.                                 *)
(*                                                                         *)
(* Three invariants that need each other are kept by every action: TypeOK,  *)
(* PlaceInv (what an invocation knows at each place of its program, and     *)
(* whose log its descriptor is), LogsBacked.                              *)
(***************************************************************************)
EXTENDS Install, WellFoundedInduction, TLAPS

PlaceInv ==
  \A r \in Runs :
    /\ pc[r] \in {"extract", "write", "tar", "untar", "log", "copy", "spin", "record"}
         => arg[r].archive \in Packages
    /\ TarRuns(r) => from[r] \in Packages /\ listed[r] \subseteq Contents[from[r]]
    /\ pc[r] = "copy" => listed[r] \subseteq Paths
    /\ fd[r] => /\ pc[r] \in {"copy", "spin", "record", "windup"}
                /\ arg[r].archive \in Packages
                /\ logs[arg[r].archive].by = r

LogsBacked ==
  \A k \in Packages : \A p \in logs[k].lines :
    logs[k].by \in Runs /\ (root[p] # Absent \/ p \in lost[logs[k].by])

IInv == TypeOK /\ PlaceInv /\ LogsBacked

(* What the assumptions say of runs, packages and nodes. *)
LEMMA Constants ==
  /\ NoRun \notin Runs /\ Runs \subseteq Nat
  /\ Absent \notin Packages /\ Made \notin Packages /\ Torn \notin Packages
  /\ NoPackage \notin Packages /\ Absent # Made /\ Absent # Torn /\ Made # Torn
  /\ Paths \subseteq Nodes /\ {TmpDir, DataTar, DataDir} \subseteq Nodes
  /\ TmpDir \notin Paths /\ DataTar \notin Paths /\ DataDir \notin Paths
  /\ TmpDir # DataTar /\ TmpDir # DataDir /\ DataTar # DataDir
  /\ Nodes \subseteq Int
<1>1. N \in Nat /\ MaxRuns \in Nat
  BY PathAssumption, RunAssumption
<1>2. Packages \cap {Absent, Made, Torn, NoPackage} = {}
  BY PackageAssumption
<1> QED
  BY <1>1, <1>2 DEF Runs, NoRun, Paths, Nodes, TmpDir, DataTar, DataDir, Absent, Made, Torn

LEMMA UpIsNode ==
  /\ \A n \in Nodes : Up(n) \in Nodes
  /\ Up(TmpDir) = TmpDir /\ Up(DataTar) = TmpDir /\ Up(DataDir) = TmpDir
  /\ \A p \in Paths : Up(p) = Parent[p] /\ Parent[p] \in {DataDir} \cup Paths /\ Parent[p] # p
  /\ \A k \in Packages : Contents[k] \subseteq Paths
<1>1. N \in Nat /\ Parent \in [Paths -> 0 .. N] /\ \A p \in Paths : Parent[p] < p
  BY PathAssumption
<1>2. Contents \in [Packages -> SUBSET Paths]
  BY PackageAssumption
<1> QED
  BY <1>1, <1>2 DEF Up, Nodes, Paths, TmpDir, DataTar, DataDir

LEMMA InitInv == Init => IInv
<1> SUFFICES ASSUME Init PROVE IInv
  OBVIOUS
<1>1. PlacesTyped
  BY DEF Init, PlacesTyped, Args, NoArg
<1>2. SharedTyped
  BY Constants DEF Init, SharedTyped
<1>3. TmpIsTree /\ DataTarOK
  BY UpIsNode, Constants DEF Init, TmpIsTree, DataTarOK
<1>4. PlaceInv /\ LogsBacked
  BY DEF Init, PlaceInv, TarRuns, LogsBacked
<1> QED
  BY <1>1, <1>2, <1>3, <1>4 DEF IInv, TypeOK

LEMMA StartKeeps ==
  ASSUME IInv, NEW r \in Runs, Start(r)
  PROVE  IInv'
<1>1. PlacesTyped'
  BY Constants, UpIsNode DEF IInv, TypeOK, PlacesTyped, SharedTyped, PlaceInv, TarRuns, Running, Ended, Args, Start, Prepare, Goto, ListOf, Active, Present, history
<1>2. SharedTyped'
  BY Constants, UpIsNode DEF IInv, TypeOK, PlacesTyped, SharedTyped, PlaceInv, TarRuns, Args, Start, Prepare, Goto, ListOf, Active, Present, history
<1>3. TmpIsTree'
  BY Constants, UpIsNode DEF IInv, TypeOK, SharedTyped, TmpIsTree, PlaceInv, TarRuns, Start, Prepare, Goto, ListOf, Active, Present, history
<1>4. DataTarOK'
  BY Constants, UpIsNode DEF IInv, TypeOK, PlacesTyped, SharedTyped, DataTarOK, PlaceInv, TarRuns, Start, Prepare, Goto, ListOf, Active, Present, history
<1>5. PlaceInv'
  BY Constants, UpIsNode DEF IInv, TypeOK, PlacesTyped, SharedTyped, PlaceInv, TarRuns, Start, Prepare, Goto, ListOf, Active, Present, history
<1>6. LogsBacked'
  BY Constants, UpIsNode DEF IInv, TypeOK, PlacesTyped, SharedTyped, PlaceInv, TarRuns, LogsBacked, Start, Prepare, Goto, ListOf, Active, Present, history
<1> QED
  BY <1>1, <1>2, <1>3, <1>4, <1>5, <1>6 DEF IInv, TypeOK

LEMMA RemoveOneKeeps ==
  ASSUME IInv, NEW r \in Runs, RemoveOne(r)
  PROVE  IInv'
<1>1. /\ UNCHANGED <<pc, arg, from, ok, root, fd, logs, db, met, lost>>
      /\ stale' \in [Runs -> BOOLEAN]
  <2>1. \/ UNCHANGED stale
        \/ \E n \in Nodes : stale' = [stale EXCEPT ![r] = @ \/ (pc[r] = "prepare" /\ Removable(n))]
    BY DEF RemoveOne, IInv, TypeOK, PlacesTyped
  <2>2. \A b \in BOOLEAN : [stale EXCEPT ![r] = stale[r] \/ b] \in [Runs -> BOOLEAN]
    BY DEF IInv, TypeOK, PlacesTyped
  <2> QED
    BY <2>1, <2>2 DEF RemoveOne, IInv, TypeOK, PlacesTyped
<1>2. PICK n \in Nodes :
        /\ listed' = [listed EXCEPT ![r] = listed[r] \ {n}]
        /\ \/ /\ Removable(n)
              /\ tmp' = [tmp EXCEPT ![n] = Absent]
              /\ whole' = (whole /\ n # DataTar)
              /\ writer' = IF n = DataTar THEN NoRun ELSE writer
           \/ UNCHANGED <<tmp, whole, writer>>
  BY DEF RemoveOne, ListOf, IInv, TypeOK, PlacesTyped, history
<1>3. PlacesTyped'
  BY <1>1, <1>2 DEF IInv, TypeOK, PlacesTyped
<1>4. SharedTyped'
  <2>1. tmp' \in [Nodes -> Packages \cup {Absent, Made}]
    BY <1>2 DEF IInv, TypeOK, SharedTyped
  <2>2. whole' \in BOOLEAN
    BY <1>2, Zenon DEF IInv, TypeOK, SharedTyped
  <2>3. writer' \in Runs \cup {NoRun}
    BY <1>2 DEF IInv, TypeOK, SharedTyped
  <2> QED
    BY <1>1, <2>1, <2>2, <2>3 DEF IInv, TypeOK, SharedTyped
<1>5. TmpIsTree'
  <2>1. CASE UNCHANGED tmp
    BY <2>1 DEF IInv, TypeOK, TmpIsTree
  <2>2. CASE Removable(n) /\ tmp' = [tmp EXCEPT ![n] = Absent]
    <3> SUFFICES ASSUME NEW m \in Nodes, tmp'[m] # Absent PROVE tmp'[Up(m)] # Absent
      BY DEF TmpIsTree
    <3>1. m # n /\ tmp[m] # Absent
      BY <2>2 DEF IInv, TypeOK, SharedTyped
    <3>2. Up(m) \in Nodes /\ tmp[Up(m)] # Absent
      BY <3>1, UpIsNode DEF IInv, TypeOK, TmpIsTree
    <3>3. Up(m) # n
      BY <2>2, <3>1, UpIsNode DEF Removable, Present
    <3> QED
      BY <2>2, <3>2, <3>3 DEF IInv, TypeOK, SharedTyped
  <2> QED
    BY <1>2, <2>1, <2>2
<1>6. DataTarOK'
  <2>1. CASE UNCHANGED <<tmp, whole, writer>>
    BY <1>1, <2>1 DEF IInv, TypeOK, DataTarOK
  <2>2. CASE /\ tmp' = [tmp EXCEPT ![n] = Absent]
             /\ whole' = (whole /\ n # DataTar)
             /\ writer' = IF n = DataTar THEN NoRun ELSE writer
    <3>1. n # DataTar => tmp'[DataTar] = tmp[DataTar] /\ writer' = writer
      BY <2>2, Constants DEF IInv, TypeOK, SharedTyped
    <3>2. whole' => whole /\ n # DataTar
      BY <2>2
    <3>3. writer' # NoRun => n # DataTar
      BY <2>2
    <3> QED
      BY <1>1, <2>2, <3>1, <3>2, <3>3, Constants DEF IInv, TypeOK, SharedTyped, DataTarOK
  <2> QED
    BY <1>2, <2>1, <2>2
<1>7. PlaceInv'
  BY <1>1, <1>2 DEF IInv, TypeOK, PlacesTyped, PlaceInv, TarRuns
<1>8. LogsBacked'
  BY <1>1 DEF IInv, LogsBacked
<1> QED
  BY <1>3, <1>4, <1>5, <1>6, <1>7, <1>8 DEF IInv, TypeOK

LEMMA NoArgTyped == NoArg \in Args
BY DEF NoArg, Args

(* The end of a process leaves what it shares with the others. *)
LEMMA EndKeeps ==
  ASSUME IInv, NEW r \in Runs, NEW how \in Ended, End(r, how),
         UNCHANGED <<tmp, whole, ok, root, logs, db, history>>
  PROVE  IInv'
<1>1. PlacesTyped'
  BY NoArgTyped DEF IInv, TypeOK, PlacesTyped, Ended, Goto, End, ListOf, history
<1>2. SharedTyped' /\ TmpIsTree' /\ LogsBacked'
  BY DEF IInv, TypeOK, SharedTyped, TmpIsTree, LogsBacked, End, history
<1>3. DataTarOK'
  BY Constants DEF IInv, TypeOK, PlacesTyped, SharedTyped, DataTarOK, End, Goto
<1>4. PlaceInv'
  BY DEF IInv, TypeOK, PlacesTyped, PlaceInv, TarRuns, End, Ended, Goto, ListOf
<1> QED
  BY <1>1, <1>2, <1>3, <1>4 DEF IInv, TypeOK

LEMMA RemoveEndsKeeps ==
  ASSUME IInv, NEW r \in Runs, RemoveEnds(r)
  PROVE  IInv'
<1>1. PlacesTyped'
  <2>1. CASE End(r, "done")
    BY <2>1, NoArgTyped DEF IInv, TypeOK, PlacesTyped, Running, Ended, RemoveEnds, Goto, End, ListOf, history
  <2>2. CASE Goto(r, "mktmp") /\ UNCHANGED <<arg, writer, listed, from, fd>>
    BY <2>2 DEF IInv, TypeOK, PlacesTyped, Running, RemoveEnds, Goto, history
  <2> QED
    BY <2>1, <2>2 DEF RemoveEnds, history
<1>2. SharedTyped'
  BY Constants, UpIsNode DEF IInv, TypeOK, PlacesTyped, SharedTyped, PlaceInv, TarRuns, Args, RemoveEnds, Goto, End, ListOf, NoArg, history
<1>3. TmpIsTree'
  BY Constants, UpIsNode DEF IInv, TypeOK, SharedTyped, TmpIsTree, PlaceInv, TarRuns, RemoveEnds, Goto, End, ListOf, NoArg, history
<1>4. DataTarOK'
  BY Constants, UpIsNode DEF IInv, TypeOK, PlacesTyped, SharedTyped, DataTarOK, PlaceInv, TarRuns, RemoveEnds, Goto, End, ListOf, NoArg, history
<1>5. PlaceInv'
  BY Constants, UpIsNode DEF IInv, TypeOK, PlacesTyped, SharedTyped, PlaceInv, TarRuns, RemoveEnds, Goto, End, ListOf, NoArg, history
<1>6. LogsBacked'
  BY Constants, UpIsNode DEF IInv, TypeOK, PlacesTyped, SharedTyped, PlaceInv, TarRuns, LogsBacked, RemoveEnds, Goto, End, ListOf, NoArg, history
<1> QED
  BY <1>1, <1>2, <1>3, <1>4, <1>5, <1>6 DEF IInv, TypeOK

LEMMA MakeTmpKeeps ==
  ASSUME IInv, NEW r \in Runs, MakeTmp(r)
  PROVE  IInv'
<1>1. /\ UNCHANGED <<arg, whole, writer, listed, from, ok, root, fd, logs, db, history>>
      /\ \E place \in {"mkdata", "open"} : pc' = [pc EXCEPT ![r] = place]
      /\ pc[r] \in {"mktmp", "mkdata"}
  BY DEF MakeTmp, Goto
<1>2. \/ tmp' = [tmp EXCEPT ![TmpDir] = Made]
      \/ UNCHANGED tmp
  BY Constants DEF MakeTmp, Mkdir
<1>3. PlacesTyped'
  BY <1>1 DEF IInv, TypeOK, PlacesTyped, Running, history
<1>4. SharedTyped'
  BY <1>1, <1>2 DEF IInv, TypeOK, SharedTyped
<1>5. TmpIsTree'
  BY <1>2, Constants, UpIsNode DEF IInv, TypeOK, SharedTyped, TmpIsTree
<1>6. DataTarOK'
  <2>1. tmp'[DataTar] = tmp[DataTar]
    BY <1>2, Constants DEF IInv, TypeOK, SharedTyped
  <2>2. \A q \in Runs : pc[q] = "write" => pc'[q] = "write"
    BY <1>1 DEF IInv, TypeOK, PlacesTyped
  <2> QED
    BY <1>1, <2>1, <2>2 DEF IInv, TypeOK, SharedTyped, DataTarOK
<1>7. PlaceInv' /\ LogsBacked'
  BY <1>1 DEF IInv, TypeOK, PlacesTyped, PlaceInv, TarRuns, LogsBacked, history
<1> QED
  BY <1>3, <1>4, <1>5, <1>6, <1>7 DEF IInv, TypeOK

LEMMA MakeDataKeeps ==
  ASSUME IInv, NEW r \in Runs, MakeData(r)
  PROVE  IInv'
<1>1. /\ UNCHANGED <<arg, whole, writer, listed, from, ok, root, fd, logs, db, history>>
      /\ \E place \in {"mkdata", "open"} : pc' = [pc EXCEPT ![r] = place]
      /\ pc[r] \in {"mktmp", "mkdata"}
  BY DEF MakeData, Goto
<1>2. \/ tmp' = [tmp EXCEPT ![DataDir] = Made] /\ tmp[TmpDir] # Absent
      \/ UNCHANGED tmp
  BY Constants DEF MakeData, Mkdir
<1>3. PlacesTyped'
  BY <1>1 DEF IInv, TypeOK, PlacesTyped, Running, history
<1>4. SharedTyped'
  BY <1>1, <1>2 DEF IInv, TypeOK, SharedTyped
<1>5. TmpIsTree'
  <2> SUFFICES ASSUME NEW n \in Nodes, tmp'[n] # Absent PROVE tmp'[Up(n)] # Absent
    BY DEF TmpIsTree
  <2>1. \A m \in Nodes : m # DataDir => tmp'[m] = tmp[m]
    BY <1>2 DEF IInv, TypeOK, SharedTyped
  <2>2. \A m \in Nodes : tmp[m] # Absent => tmp'[m] # Absent
    BY <1>2, Constants DEF IInv, TypeOK, SharedTyped
  <2>3. n = DataDir => tmp[n] # Absent \/ tmp[TmpDir] # Absent
    BY <1>2, Constants
  <2> QED
    BY <2>1, <2>2, <2>3, Constants, UpIsNode DEF IInv, TypeOK, TmpIsTree
<1>6. DataTarOK'
  <2>1. tmp'[DataTar] = tmp[DataTar]
    BY <1>2, Constants DEF IInv, TypeOK, SharedTyped
  <2>2. \A q \in Runs : pc[q] = "write" => pc'[q] = "write"
    BY <1>1 DEF IInv, TypeOK, PlacesTyped
  <2> QED
    BY <1>1, <2>1, <2>2 DEF IInv, TypeOK, SharedTyped, DataTarOK
<1>7. PlaceInv' /\ LogsBacked'
  BY <1>1 DEF IInv, TypeOK, PlacesTyped, PlaceInv, TarRuns, LogsBacked, history
<1> QED
  BY <1>3, <1>4, <1>5, <1>6, <1>7 DEF IInv, TypeOK

LEMMA OpenArchiveKeeps ==
  ASSUME IInv, NEW r \in Runs, OpenArchive(r)
  PROVE  IInv'
<1>1. PlacesTyped'
  BY Constants, UpIsNode, SMTT(30) DEF IInv, TypeOK, PlacesTyped, SharedTyped, PlaceInv, TarRuns, Running, Ended, Args, OpenArchive, WindUp, Goto, ListOf, Present, history
<1>2. SharedTyped'
  BY Constants, UpIsNode DEF IInv, TypeOK, PlacesTyped, SharedTyped, PlaceInv, TarRuns, Args, OpenArchive, WindUp, Goto, ListOf, Present, history
<1>3. TmpIsTree'
  BY Constants, UpIsNode DEF IInv, TypeOK, SharedTyped, TmpIsTree, PlaceInv, TarRuns, OpenArchive, WindUp, Goto, ListOf, Present, history
<1>4. DataTarOK'
  BY Constants, UpIsNode DEF IInv, TypeOK, PlacesTyped, SharedTyped, DataTarOK, PlaceInv, TarRuns, OpenArchive, WindUp, Goto, ListOf, Present, history
<1>5. PlaceInv'
  <2>1. arg[r].archive \in Packages
    BY DEF IInv, TypeOK, PlacesTyped, Args, OpenArchive, history
  <2> QED
    BY <2>1 DEF IInv, TypeOK, PlacesTyped, PlaceInv, TarRuns, OpenArchive, WindUp, Goto, ListOf, history
<1>6. LogsBacked'
  BY Constants, UpIsNode DEF IInv, TypeOK, PlacesTyped, SharedTyped, PlaceInv, TarRuns, LogsBacked, OpenArchive, WindUp, Goto, ListOf, Present, history
<1> QED
  BY <1>1, <1>2, <1>3, <1>4, <1>5, <1>6 DEF IInv, TypeOK

LEMMA OpenFailsKeeps ==
  ASSUME IInv, NEW r \in Runs, OpenFails(r)
  PROVE  IInv'
<1>1. PlacesTyped'
  <2>1. CASE End(r, "crashed")
    BY <2>1, NoArgTyped DEF IInv, TypeOK, PlacesTyped, Running, Ended, OpenFails, Goto, End, ListOf, history
  <2>2. CASE WindUp(r) /\ UNCHANGED <<arg, writer, from, fd>>
    BY <2>2, Zenon DEF IInv, TypeOK, PlacesTyped, Running, Ended, OpenFails, Goto, WindUp, ListOf, Present, history
  <2> QED
    BY <2>1, <2>2 DEF OpenFails, history
<1>2. SharedTyped'
  BY Constants, UpIsNode DEF IInv, TypeOK, PlacesTyped, SharedTyped, PlaceInv, TarRuns, Args, OpenFails, End, WindUp, Goto, ListOf, NoArg, Present, history
<1>3. TmpIsTree'
  BY Constants, UpIsNode DEF IInv, TypeOK, SharedTyped, TmpIsTree, PlaceInv, TarRuns, OpenFails, End, WindUp, Goto, ListOf, NoArg, Present, history
<1>4. DataTarOK'
  BY Constants, UpIsNode DEF IInv, TypeOK, PlacesTyped, SharedTyped, DataTarOK, PlaceInv, TarRuns, OpenFails, End, WindUp, Goto, ListOf, NoArg, Present, history
<1>5. PlaceInv'
  BY Constants, UpIsNode DEF IInv, TypeOK, PlacesTyped, SharedTyped, PlaceInv, TarRuns, OpenFails, End, WindUp, Goto, ListOf, NoArg, Present, history
<1>6. LogsBacked'
  BY Constants, UpIsNode DEF IInv, TypeOK, PlacesTyped, SharedTyped, PlaceInv, TarRuns, LogsBacked, OpenFails, End, WindUp, Goto, ListOf, NoArg, Present, history
<1> QED
  BY <1>1, <1>2, <1>3, <1>4, <1>5, <1>6 DEF IInv, TypeOK

LEMMA ExtractKeeps ==
  ASSUME IInv, NEW r \in Runs, Extract(r)
  PROVE  IInv'
<1>1. PlacesTyped'
  BY Constants, UpIsNode DEF IInv, TypeOK, PlacesTyped, SharedTyped, PlaceInv, TarRuns, Running, Ended, Args, Extract, Goto, history
<1>2. SharedTyped'
  BY Constants, UpIsNode DEF IInv, TypeOK, PlacesTyped, SharedTyped, PlaceInv, TarRuns, Args, Extract, Goto, history
<1>3. TmpIsTree'
  <2>1. CASE tmp[TmpDir] # Absent /\ tmp' = [tmp EXCEPT ![DataTar] = arg[r].archive]
    <3>1. arg[r].archive # Absent
      BY Constants DEF IInv, PlaceInv, TarRuns, Extract, history
    <3>2. tmp'[TmpDir] # Absent
      BY <2>1, Constants DEF IInv, TypeOK, SharedTyped
    <3>3. \A n \in Nodes : n # DataTar => tmp'[n] = tmp[n]
      BY <2>1 DEF IInv, TypeOK, SharedTyped
    <3>4. tmp'[DataTar] # Absent
      BY <2>1, <3>1, Constants DEF IInv, TypeOK, SharedTyped
    <3> QED
      BY <3>2, <3>3, <3>4, UpIsNode DEF IInv, TypeOK, TmpIsTree
  <2>2. CASE UNCHANGED tmp
    BY <2>2 DEF IInv, TypeOK, TmpIsTree
  <2> QED
    BY <2>1, <2>2 DEF Extract, history
<1>4. DataTarOK'
  BY Constants, UpIsNode DEF IInv, TypeOK, PlacesTyped, SharedTyped, DataTarOK, PlaceInv, TarRuns, Extract, Goto, history
<1>5. PlaceInv'
  BY Constants, UpIsNode DEF IInv, TypeOK, PlacesTyped, SharedTyped, PlaceInv, TarRuns, Extract, Goto, history
<1>6. LogsBacked'
  BY Constants, UpIsNode DEF IInv, TypeOK, PlacesTyped, SharedTyped, PlaceInv, TarRuns, LogsBacked, Extract, Goto, history
<1> QED
  BY <1>1, <1>2, <1>3, <1>4, <1>5, <1>6 DEF IInv, TypeOK

LEMMA WriteKeeps ==
  ASSUME IInv, NEW r \in Runs, Write(r)
  PROVE  IInv'
<1>1. PlacesTyped'
  BY Constants, UpIsNode DEF IInv, TypeOK, PlacesTyped, SharedTyped, PlaceInv, TarRuns, Running, Ended, Args, Write, Goto, history
<1>2. SharedTyped'
  BY Constants, UpIsNode DEF IInv, TypeOK, PlacesTyped, SharedTyped, PlaceInv, TarRuns, Args, Write, Goto, history
<1>3. TmpIsTree'
  BY Constants, UpIsNode DEF IInv, TypeOK, SharedTyped, TmpIsTree, PlaceInv, TarRuns, Write, Goto, history
<1>4. DataTarOK'
  BY Constants, UpIsNode DEF IInv, TypeOK, PlacesTyped, SharedTyped, DataTarOK, PlaceInv, TarRuns, Write, Goto, history
<1>5. PlaceInv'
  BY Constants, UpIsNode DEF IInv, TypeOK, PlacesTyped, SharedTyped, PlaceInv, TarRuns, Write, Goto, history
<1>6. LogsBacked'
  BY Constants, UpIsNode DEF IInv, TypeOK, PlacesTyped, SharedTyped, PlaceInv, TarRuns, LogsBacked, Write, Goto, history
<1> QED
  BY <1>1, <1>2, <1>3, <1>4, <1>5, <1>6 DEF IInv, TypeOK

LEMMA TarKeeps ==
  ASSUME IInv, NEW r \in Runs, Tar(r)
  PROVE  IInv'
<1>1. UNCHANGED <<arg, tmp, whole, writer, root, fd, logs, db, history>> /\ pc[r] = "tar"
  BY DEF Tar, history
<1>2. \/ \E k \in Packages : \E part \in SUBSET Contents[k] :
            /\ from' = [from EXCEPT ![r] = k]
            /\ listed' = [listed EXCEPT ![r] = part]
            /\ ok' = [ok EXCEPT ![r] = whole]
            /\ pc' = [pc EXCEPT ![r] = "untar"]
      \/ /\ ok' = [ok EXCEPT ![r] = FALSE]
         /\ pc' = [pc EXCEPT ![r] = "log"]
         /\ UNCHANGED <<from, listed>>
  <2>1. tmp[DataTar] # Absent => tmp[DataTar] \in Packages
    BY Constants DEF IInv, TypeOK, SharedTyped, DataTarOK
  <2> QED
    BY <2>1 DEF Tar, Goto, ListOf, history
<1>3. PlacesTyped' /\ PlaceInv'
  <2>1. CASE \E k \in Packages : \E part \in SUBSET Contents[k] :
               /\ from' = [from EXCEPT ![r] = k]
               /\ listed' = [listed EXCEPT ![r] = part]
               /\ ok' = [ok EXCEPT ![r] = whole]
               /\ pc' = [pc EXCEPT ![r] = "untar"]
    <3>0. PICK k \in Packages : \E part \in SUBSET Contents[k] :
            /\ from' = [from EXCEPT ![r] = k]
            /\ listed' = [listed EXCEPT ![r] = part]
            /\ ok' = [ok EXCEPT ![r] = whole]
            /\ pc' = [pc EXCEPT ![r] = "untar"]
      BY <2>1
    <3>1. PICK part \in SUBSET Contents[k] :
            /\ from' = [from EXCEPT ![r] = k]
            /\ listed' = [listed EXCEPT ![r] = part]
            /\ ok' = [ok EXCEPT ![r] = whole]
            /\ pc' = [pc EXCEPT ![r] = "untar"]
      BY <3>0
    <3>2. part \subseteq Nodes
      BY UpIsNode, Constants
    <3>3. PlacesTyped'
      BY <1>1, <3>1, <3>2 DEF IInv, TypeOK, PlacesTyped, history, SharedTyped, Running
    <3>4. PlaceInv'
      BY <1>1, <3>1 DEF IInv, TypeOK, PlacesTyped, PlaceInv, TarRuns
    <3> QED
      BY <3>3, <3>4
  <2>2. CASE /\ ok' = [ok EXCEPT ![r] = FALSE]
             /\ pc' = [pc EXCEPT ![r] = "log"]
             /\ UNCHANGED <<from, listed>>
    BY <1>1, <2>2 DEF IInv, TypeOK, PlacesTyped, PlaceInv, TarRuns, Running, history
  <2> QED
    BY <1>2, <2>1, <2>2
<1>4. SharedTyped' /\ TmpIsTree' /\ LogsBacked'
  BY <1>1 DEF IInv, TypeOK, SharedTyped, TmpIsTree, LogsBacked, history
<1>5. DataTarOK'
  BY <1>1, <1>2 DEF IInv, TypeOK, PlacesTyped, SharedTyped, DataTarOK
<1> QED
  BY <1>3, <1>4, <1>5 DEF IInv, TypeOK

(* A walk takes up one of the entries it has listed. *)
LEMMA LeastIn ==
  ASSUME NEW S, S \subseteq Paths, S # {}
  PROVE  Least(S) \in S
<1>1. S \subseteq Nat
  BY PathAssumption DEF Paths
<1>2. PICK x \in S : \A y \in S : ~(<<y, x>> \in OpToRel(<, Nat))
  BY <1>1, WFMin, NatLessThanWellFounded
<1>3. \A y \in S : ~(y < x)
  BY <1>1, <1>2 DEF OpToRel
<1>4. \A y \in S : x <= y
  BY <1>1, <1>3
<1> QED
  BY <1>4 DEF Least

(* The directories above a path are closed under "the one above". *)
LEMMA AboveIsUp ==
  ASSUME NEW p \in Paths
  PROVE  /\ p \in Above[p] /\ Above[p] \subseteq {DataDir} \cup Paths
         /\ \A n \in Above[p] \ {DataDir} : Up(n) \in Above[p]
<1>1. /\ N \in Nat /\ Parent \in [Paths -> 0 .. N] /\ p \in 0 .. N
      /\ 0 .. N = {DataDir} \cup Paths
  BY PathAssumption DEF Paths, DataDir
<1>2. Above[p] = {n \in 0 .. N : \A S \in SUBSET (0 .. N) :
                    p \in S /\ (\A q \in S \ {0} : Parent[q] \in S) => n \in S}
  BY DEF Above
<1>3. ASSUME NEW n \in Above[p] \ {DataDir}
      PROVE  Up(n) \in Above[p]
  <2>1. n \in Paths /\ n \in 0 .. N /\ n # 0 /\ Up(n) = Parent[n] /\ Parent[n] \in 0 .. N
    BY <1>1, <1>2, <1>3, UpIsNode DEF DataDir
  <2>2. ASSUME NEW S \in SUBSET (0 .. N), p \in S, \A q \in S \ {0} : Parent[q] \in S
        PROVE  Parent[n] \in S
    <3>1. n \in S
      BY <1>2, <1>3, <2>2
    <3> QED
      BY <2>1, <2>2, <3>1
  <2> QED
    BY <1>2, <2>1, <2>2
<1> QED
  BY <1>1, <1>2, <1>3

LEMMA TarOneKeeps ==
  ASSUME IInv, NEW r \in Runs, TarOne(r)
  PROVE  IInv'
<1> DEFINE p == Least(listed[r])
<1>1. UNCHANGED <<pc, arg, whole, writer, from, ok, root, fd, logs, db, history>>
  BY DEF TarOne, history
<1>2. from[r] \in Packages /\ listed[r] \subseteq Contents[from[r]] /\ p \in Paths
  <2>1. from[r] \in Packages /\ listed[r] \subseteq Contents[from[r]] /\ listed[r] # {}
    BY DEF IInv, PlaceInv, TarRuns, TarOne, history
  <2>2. listed[r] \subseteq Paths
    BY <2>1, UpIsNode
  <2> QED
    BY <2>1, <2>2, LeastIn
<1>3. /\ listed' = [listed EXCEPT ![r] = listed[r] \ {p}]
      /\ tmp' = [n \in Nodes |-> IF n = p THEN Shape(p, from[r])
                                 ELSE IF n \in Above[p] THEN Made ELSE tmp[n]]
      /\ tmp[DataDir] # Absent
  BY DEF TarOne, ListOf, history
<1> HIDE DEF p
<1>4. Shape(p, from[r]) \in Packages \cup {Made}
  BY <1>2 DEF Shape
<1>5. PlacesTyped'
  BY <1>1, <1>3 DEF IInv, TypeOK, PlacesTyped, history
<1>6. SharedTyped'
  BY <1>1, <1>3, <1>4 DEF IInv, TypeOK, SharedTyped
<1>7. TmpIsTree'
  <2> SUFFICES ASSUME NEW n \in Nodes, tmp'[n] # Absent PROVE tmp'[Up(n)] # Absent
    BY DEF TmpIsTree
  <2>1. \A m \in Nodes : m \in Above[p] \/ tmp[m] # Absent => tmp'[m] # Absent
    BY <1>3, <1>4, Constants
  <2>2. CASE n \in Above[p] \ {DataDir}
    BY <1>2, <2>1, <2>2, AboveIsUp, UpIsNode
  <2>3. CASE n = DataDir
    BY <1>3, <2>1, <2>3, UpIsNode DEF IInv, TypeOK, TmpIsTree
  <2>4. CASE n \notin Above[p]
    <3>1. tmp[n] # Absent
      BY <1>2, <1>3, <2>4, AboveIsUp
    <3> QED
      BY <2>1, <3>1, UpIsNode DEF IInv, TypeOK, TmpIsTree
  <2> QED
    BY <2>2, <2>3, <2>4
<1>8. DataTarOK'
  <2>1. tmp'[DataTar] = tmp[DataTar]
    BY <1>2, <1>3, AboveIsUp, Constants
  <2> QED
    BY <1>1, <2>1 DEF IInv, TypeOK, DataTarOK
<1>9. PlaceInv' /\ LogsBacked'
  BY <1>1, <1>3 DEF IInv, TypeOK, PlacesTyped, PlaceInv, TarRuns, LogsBacked, history
<1> QED
  BY <1>5, <1>6, <1>7, <1>8, <1>9 DEF IInv, TypeOK

LEMMA TarFailsKeeps ==
  ASSUME IInv, NEW r \in Runs, TarFails(r)
  PROVE  IInv'
<1>1. PlacesTyped'
  BY Constants, UpIsNode DEF IInv, TypeOK, PlacesTyped, SharedTyped, PlaceInv, TarRuns, Running, Ended, Args, TarFails, ListOf, history
<1>2. SharedTyped'
  BY Constants, UpIsNode DEF IInv, TypeOK, PlacesTyped, SharedTyped, PlaceInv, TarRuns, Args, TarFails, ListOf, history
<1>3. TmpIsTree'
  BY Constants, UpIsNode DEF IInv, TypeOK, SharedTyped, TmpIsTree, PlaceInv, TarRuns, TarFails, ListOf, history
<1>4. DataTarOK'
  BY Constants, UpIsNode DEF IInv, TypeOK, PlacesTyped, SharedTyped, DataTarOK, PlaceInv, TarRuns, TarFails, ListOf, history
<1>5. PlaceInv'
  BY Constants, UpIsNode DEF IInv, TypeOK, PlacesTyped, SharedTyped, PlaceInv, TarRuns, TarFails, ListOf, history
<1>6. LogsBacked'
  BY Constants, UpIsNode DEF IInv, TypeOK, PlacesTyped, SharedTyped, PlaceInv, TarRuns, LogsBacked, TarFails, ListOf, history
<1> QED
  BY <1>1, <1>2, <1>3, <1>4, <1>5, <1>6 DEF IInv, TypeOK

LEMMA TarEndsKeeps ==
  ASSUME IInv, NEW r \in Runs, TarEnds(r)
  PROVE  IInv'
<1>1. PlacesTyped'
  BY Constants, UpIsNode DEF IInv, TypeOK, PlacesTyped, SharedTyped, PlaceInv, TarRuns, Running, Ended, Args, TarEnds, Goto, history
<1>2. SharedTyped'
  BY Constants, UpIsNode DEF IInv, TypeOK, PlacesTyped, SharedTyped, PlaceInv, TarRuns, Args, TarEnds, Goto, history
<1>3. TmpIsTree'
  BY Constants, UpIsNode DEF IInv, TypeOK, SharedTyped, TmpIsTree, PlaceInv, TarRuns, TarEnds, Goto, history
<1>4. DataTarOK'
  BY Constants, UpIsNode DEF IInv, TypeOK, PlacesTyped, SharedTyped, DataTarOK, PlaceInv, TarRuns, TarEnds, Goto, history
<1>5. PlaceInv'
  BY Constants, UpIsNode DEF IInv, TypeOK, PlacesTyped, SharedTyped, PlaceInv, TarRuns, TarEnds, Goto, history
<1>6. LogsBacked'
  BY Constants, UpIsNode DEF IInv, TypeOK, PlacesTyped, SharedTyped, PlaceInv, TarRuns, LogsBacked, TarEnds, Goto, history
<1> QED
  BY <1>1, <1>2, <1>3, <1>4, <1>5, <1>6 DEF IInv, TypeOK

LEMMA OrphanEndsKeeps ==
  ASSUME IInv, NEW r \in Runs, OrphanEnds(r)
  PROVE  IInv'
<1>1. /\ UNCHANGED <<tmp, whole, ok, root, logs, db, history>>
      /\ End(r, "killed") /\ pc[r] = "orphan"
  BY DEF OrphanEnds
<1> QED
  BY <1>1, EndKeeps DEF Ended

LEMMA OpenLogKeeps ==
  ASSUME IInv, NEW r \in Runs, OpenLog(r)
  PROVE  IInv'
<1> DEFINE k == arg[r].archive
<1>1. /\ UNCHANGED <<arg, tmp, whole, writer, from, ok, root, db, history>>
      /\ UNCHANGED lost /\ k \in Packages /\ pc[r] = "log" /\ ~fd[r]
      /\ pc' = [pc EXCEPT ![r] = "copy"]
      /\ listed' = [listed EXCEPT ![r] = Children(DataDir)]
  BY DEF OpenLog, Goto, ListOf, IInv, PlaceInv, TarRuns, TypeOK, PlacesTyped, history
<1>2. \/ /\ logs[k].by = NoRun
         /\ logs' = [logs EXCEPT ![k] = [by |-> r, lines |-> {}]]
         /\ fd' = [fd EXCEPT ![r] = TRUE]
      \/ UNCHANGED <<logs, fd>>
  BY DEF OpenLog, NewLog, history
<1>3. Children(DataDir) \subseteq Paths
  BY DEF Children
<1> HIDE DEF k
<1>4. PlacesTyped'
  <2>1. fd' \in [Runs -> BOOLEAN]
    BY <1>2 DEF IInv, TypeOK, PlacesTyped
  <2>2. listed' \in [Runs -> SUBSET Nodes]
    BY <1>1, <1>3, Constants DEF IInv, TypeOK, PlacesTyped
  <2>3. pc' \in [Runs -> Running \cup Ended \cup {"idle"}]
    BY <1>1 DEF IInv, TypeOK, PlacesTyped, Running
  <2> QED
    BY <1>1, <2>1, <2>2, <2>3 DEF IInv, TypeOK, PlacesTyped, history
<1>5. SharedTyped' /\ TmpIsTree'
  BY <1>1, <1>2 DEF IInv, TypeOK, SharedTyped, TmpIsTree
<1>6. DataTarOK'
  BY <1>1 DEF IInv, TypeOK, PlacesTyped, DataTarOK
<1>7. PlaceInv'
  <2>1. CASE UNCHANGED <<logs, fd>>
    BY <1>1, <1>3, <2>1 DEF IInv, TypeOK, PlacesTyped, PlaceInv, TarRuns
  <2>2. CASE /\ logs[k].by = NoRun
             /\ logs' = [logs EXCEPT ![k] = [by |-> r, lines |-> {}]]
             /\ fd' = [fd EXCEPT ![r] = TRUE]
    <3> SUFFICES ASSUME NEW q \in Runs
                 PROVE  /\ pc'[q] \in {"extract", "write", "tar", "untar", "log", "copy", "spin", "record"}
                             => arg'[q].archive \in Packages
                        /\ TarRuns(q)' => from'[q] \in Packages /\ listed'[q] \subseteq Contents[from'[q]]
                        /\ pc'[q] = "copy" => listed'[q] \subseteq Paths
                        /\ fd'[q] => /\ pc'[q] \in {"copy", "spin", "record", "windup"}
                                     /\ arg'[q].archive \in Packages
                                     /\ logs'[arg'[q].archive].by = q
      BY DEF PlaceInv, TarRuns
    <3>1. CASE q = r
      BY <1>1, <1>3, <2>2, <3>1 DEF IInv, TypeOK, PlacesTyped, SharedTyped, TarRuns, k
    <3>2. CASE q # r
      <4>1. /\ pc'[q] = pc[q] /\ listed'[q] = listed[q] /\ fd'[q] = fd[q]
            /\ UNCHANGED <<arg, from>>
        BY <1>1, <2>2, <3>2 DEF IInv, TypeOK, PlacesTyped
      <4>2. fd[q] => arg[q].archive # k
        BY <2>2, Constants DEF IInv, PlaceInv, TarRuns
      <4>3. \A j \in Packages : j # k => logs'[j] = logs[j]
        BY <2>2 DEF IInv, TypeOK, SharedTyped
      <4> QED
        BY <4>1, <4>2, <4>3 DEF IInv, PlaceInv, TarRuns
    <3> QED
      BY <3>1, <3>2
  <2> QED
    BY <1>2, <2>1, <2>2
<1>8. LogsBacked'
  <2>1. \A j \in Packages : logs'[j].lines = {} \/ logs'[j] = logs[j]
    BY <1>1, <1>2 DEF IInv, TypeOK, SharedTyped
  <2> QED
    BY <1>1, <2>1 DEF IInv, LogsBacked
<1> QED
  BY <1>4, <1>5, <1>6, <1>7, <1>8 DEF IInv, TypeOK

(***************************************************************************)
(* What the calls on one path have in common, whether they fail or not:     *)
(* nothing leaves the prefix, and a path that is written to the log of the  *)
(* invocation is in the prefix or noted as lost.                            *)
(***************************************************************************)
LEMMA LayEffect ==
  ASSUME IInv, NEW r \in Runs, NEW p \in Paths, NEW unread \in SUBSET Paths,
         NEW ideal \in Packages \cup {Made}, NEW partial \in Packages \cup {Made, Torn},
         Lay(r, p, ideal, partial, unread)
  PROVE  /\ root' \in [Paths -> Packages \cup {Absent, Made, Torn}]
         /\ \A q \in Paths : root[q] # Absent => root'[q] # Absent
         /\ lost' \in [Runs -> SUBSET Paths]
         /\ \A q \in Runs : lost[q] \subseteq lost'[q] /\ (q # r => lost'[q] = lost[q])
         /\ \/ UNCHANGED logs
            \/ /\ fd[r] /\ (root'[p] # Absent \/ p \in lost'[r])
               /\ logs' = [logs EXCEPT ![arg[r].archive].lines = @ \cup {p}]
<1>1. PICK what \in {ideal, partial, root[p]} : \E line \in BOOLEAN :
        /\ root' = [root EXCEPT ![p] = what]
        /\ copy_log_(r, p, line)
        /\ lost' = [lost EXCEPT ![r] =
                      @ \cup unread \cup (IF what = ideal /\ line THEN {} ELSE {p})]
  BY DEF Lay
<1>2. PICK line \in BOOLEAN :
        /\ root' = [root EXCEPT ![p] = what]
        /\ copy_log_(r, p, line)
        /\ lost' = [lost EXCEPT ![r] =
                      @ \cup unread \cup (IF what = ideal /\ line THEN {} ELSE {p})]
  BY <1>1
<1>3. /\ root \in [Paths -> Packages \cup {Absent, Made, Torn}]
      /\ lost \in [Runs -> SUBSET Paths]
  BY DEF IInv, TypeOK, SharedTyped, PlacesTyped
<1>4. /\ root' \in [Paths -> Packages \cup {Absent, Made, Torn}] /\ root'[p] = what
      /\ \A q \in Paths : root[q] # Absent => root'[q] # Absent
  BY <1>2, <1>3, Constants
<1>5. /\ lost' \in [Runs -> SUBSET Paths]
      /\ \A q \in Runs : lost[q] \subseteq lost'[q] /\ (q # r => lost'[q] = lost[q])
      /\ (what # ideal \/ ~line) => p \in lost'[r]
  BY <1>2, <1>3
<1>6. what = ideal => what # Absent
  BY Constants
<1> QED
  BY <1>2, <1>4, <1>5, <1>6 DEF copy_log_

(* The same of every way of CopyOne. *)
LEMMA CopyOneEffect ==
  ASSUME IInv, NEW r \in Runs, CopyOne(r)
  PROVE  /\ UNCHANGED <<arg, tmp, whole, writer, from, ok, fd, db, met, stale>>
         /\ pc[r] = "copy"
         /\ pc' \in {pc, [pc EXCEPT ![r] = "spin"]}
         /\ listed' \in {[listed EXCEPT ![r] = some] : some \in SUBSET Paths}
         /\ root' \in [Paths -> Packages \cup {Absent, Made, Torn}]
         /\ \A q \in Paths : root[q] # Absent => root'[q] # Absent
         /\ lost' \in [Runs -> SUBSET Paths]
         /\ \A q \in Runs : lost[q] \subseteq lost'[q] /\ (q # r => lost'[q] = lost[q])
         /\ logs' # logs => fd[r]
         /\ logs' \in {logs} \cup {[logs EXCEPT ![arg[r].archive].lines = @ \cup {p}] :
                                     p \in {q \in Paths : root'[q] # Absent \/ q \in lost'[r]}}
<1> DEFINE p == Least(listed[r])
           below == {q \in Paths \ {p} : p \in Above[q]}
<1>1. /\ UNCHANGED <<arg, tmp, whole, writer, from, ok, fd, db, met, stale>>
      /\ pc[r] = "copy" /\ listed[r] # {}
      /\ CopyDir(r, p) \/ CopyFile(r, p) \/ CopySpins(r, p) \/ CopyGone(r, p) \/ CopyOther(r, p)
  BY DEF CopyOne
<1>2. p \in Paths /\ listed[r] \subseteq Paths /\ Children(p) \subseteq Paths
  <2>1. listed[r] \subseteq Paths
    BY <1>1 DEF IInv, PlaceInv
  <2> QED
    BY <1>1, <2>1, LeastIn DEF Children
<1>3. below \in SUBSET Paths
  OBVIOUS
<1> HIDE DEF p
<1>4. /\ root \in [Paths -> Packages \cup {Absent, Made, Torn}]
      /\ lost \in [Runs -> SUBSET Paths]
      /\ tmp[p] \in Packages \cup {Absent, Made}
  BY <1>2, Constants DEF IInv, TypeOK, SharedTyped, PlacesTyped
<1>5. CASE CopyDir(r, p)
  <2>1. PICK some \in {Children(p), {}} :
          /\ Lay(r, p, Made, Made, IF some = Children(p) THEN {} ELSE below)
          /\ ListOf(r, (listed[r] \ {p}) \cup some)
    BY <1>5 DEF CopyDir
  <2>2. listed' \in {[listed EXCEPT ![r] = S] : S \in SUBSET Paths}
    BY <1>2, <2>1 DEF ListOf
  <2>3. PICK unread \in SUBSET Paths : Lay(r, p, Made, Made, unread)
    BY <1>3, <2>1
  <2>4. UNCHANGED pc
    BY <1>5 DEF CopyDir
  <2> HIDE DEF below
  <2> QED
    BY <1>1, <1>2, <2>2, <2>3, <2>4, LayEffect
<1>6. CASE CopyFile(r, p)
  <2>1. /\ tmp[p] \in Packages \cup {Made} /\ UNCHANGED pc
        /\ Lay(r, p, tmp[p], Torn, {})
        /\ listed' = [listed EXCEPT ![r] = listed[r] \ {p}]
    BY <1>4, <1>6 DEF CopyFile, ListOf
  <2>2. listed' \in {[listed EXCEPT ![r] = S] : S \in SUBSET Paths}
    BY <1>2, <2>1
  <2> QED
    BY <1>1, <1>2, <2>1, <2>2, LayEffect
<1>7. CASE CopySpins(r, p)
  <2>1. /\ root' \in [Paths -> Packages \cup {Absent, Made, Torn}]
        /\ \A q \in Paths : root[q] # Absent => root'[q] # Absent
    BY <1>2, <1>4, <1>7, Constants DEF CopySpins
  <2> QED
    BY <1>1, <1>4, <1>7, <2>1 DEF CopySpins, ListOf, Goto
<1>8. CASE CopyGone(r, p) \/ CopyOther(r, p)
  BY <1>1, <1>2, <1>4, <1>8 DEF CopyGone, CopyOther, ListOf
<1> QED
  BY <1>1, <1>5, <1>6, <1>7, <1>8

LEMMA CopyOneKeeps ==
  ASSUME IInv, NEW r \in Runs, CopyOne(r)
  PROVE  IInv'
<1>1. /\ UNCHANGED <<arg, tmp, whole, writer, from, ok, fd, db, met, stale>>
      /\ pc[r] = "copy"
      /\ pc' \in {pc, [pc EXCEPT ![r] = "spin"]}
      /\ root' \in [Paths -> Packages \cup {Absent, Made, Torn}]
      /\ \A q \in Paths : root[q] # Absent => root'[q] # Absent
      /\ lost' \in [Runs -> SUBSET Paths]
      /\ \A q \in Runs : lost[q] \subseteq lost'[q]
  BY CopyOneEffect
<1>2. PICK some \in SUBSET Paths : listed' = [listed EXCEPT ![r] = some]
  BY CopyOneEffect
<1>3. fd[r] => arg[r].archive \in Packages /\ logs[arg[r].archive].by = r
  BY DEF IInv, PlaceInv
<1>4. PlacesTyped'
  <2>1. listed' \in [Runs -> SUBSET Nodes]
    BY <1>2, Constants DEF IInv, TypeOK, PlacesTyped
  <2>2. pc' \in [Runs -> Running \cup Ended \cup {"idle"}]
    BY <1>1 DEF IInv, TypeOK, PlacesTyped, Running
  <2> QED
    BY <1>1, <2>1, <2>2 DEF IInv, TypeOK, PlacesTyped
<1>5. /\ logs' \in [Packages -> [by : Runs \cup {NoRun}, lines : SUBSET Paths]]
      /\ \A k \in Packages :
           /\ logs'[k].by = logs[k].by
           /\ \A p \in logs'[k].lines :
                p \in logs[k].lines \/ (logs[k].by = r /\ (root'[p] # Absent \/ p \in lost'[r]))
  <2>1. logs \in [Packages -> [by : Runs \cup {NoRun}, lines : SUBSET Paths]]
    BY DEF IInv, TypeOK, SharedTyped
  <2>2. CASE UNCHANGED logs
    BY <2>1, <2>2
  <2>3. ASSUME NEW p \in Paths, root'[p] # Absent \/ p \in lost'[r], fd[r],
               logs' = [logs EXCEPT ![arg[r].archive].lines = @ \cup {p}]
        PROVE  /\ logs' \in [Packages -> [by : Runs \cup {NoRun}, lines : SUBSET Paths]]
               /\ \A k \in Packages :
                    /\ logs'[k].by = logs[k].by
                    /\ \A q \in logs'[k].lines :
                         q \in logs[k].lines \/ (logs[k].by = r /\ (root'[q] # Absent \/ q \in lost'[r]))
    BY <1>3, <2>1, <2>3
  <2>4. \/ UNCHANGED logs
        \/ /\ fd[r]
           /\ \E p \in Paths : /\ root'[p] # Absent \/ p \in lost'[r]
                              /\ logs' = [logs EXCEPT ![arg[r].archive].lines = @ \cup {p}]
    BY CopyOneEffect, ZenonT(40)
  <2> QED
    BY <2>2, <2>3, <2>4
<1>6. SharedTyped' /\ TmpIsTree'
  BY <1>1, <1>5 DEF IInv, TypeOK, SharedTyped, TmpIsTree
<1>7. DataTarOK'
  BY <1>1 DEF IInv, TypeOK, PlacesTyped, SharedTyped, DataTarOK
<1>8. PlaceInv'
  <2>1. \A k \in Packages : logs'[k].by = logs[k].by
    BY <1>5
  <2> QED
    BY <1>1, <1>2, <2>1 DEF IInv, TypeOK, PlacesTyped, PlaceInv, TarRuns
<1>9. LogsBacked'
  BY <1>1, <1>5 DEF IInv, TypeOK, SharedTyped, LogsBacked
<1> QED
  BY <1>4, <1>6, <1>7, <1>8, <1>9 DEF IInv, TypeOK

LEMMA CopyEndsKeeps ==
  ASSUME IInv, NEW r \in Runs, CopyEnds(r)
  PROVE  IInv'
<1>1. PlacesTyped'
  BY Constants, UpIsNode DEF IInv, TypeOK, PlacesTyped, SharedTyped, PlaceInv, TarRuns, Running, Ended, Args, CopyEnds, Goto, history
<1>2. SharedTyped'
  BY Constants, UpIsNode DEF IInv, TypeOK, PlacesTyped, SharedTyped, PlaceInv, TarRuns, Args, CopyEnds, Goto, history
<1>3. TmpIsTree'
  BY Constants, UpIsNode DEF IInv, TypeOK, SharedTyped, TmpIsTree, PlaceInv, TarRuns, CopyEnds, Goto, history
<1>4. DataTarOK'
  BY Constants, UpIsNode DEF IInv, TypeOK, PlacesTyped, SharedTyped, DataTarOK, PlaceInv, TarRuns, CopyEnds, Goto, history
<1>5. PlaceInv'
  BY Constants, UpIsNode DEF IInv, TypeOK, PlacesTyped, SharedTyped, PlaceInv, TarRuns, CopyEnds, Goto, history
<1>6. LogsBacked'
  BY Constants, UpIsNode DEF IInv, TypeOK, PlacesTyped, SharedTyped, PlaceInv, TarRuns, LogsBacked, CopyEnds, Goto, history
<1> QED
  BY <1>1, <1>2, <1>3, <1>4, <1>5, <1>6 DEF IInv, TypeOK

LEMMA RecordKeeps ==
  ASSUME IInv, NEW r \in Runs, Record(r)
  PROVE  IInv'
<1>1. PlacesTyped'
  BY Constants, UpIsNode DEF IInv, TypeOK, PlacesTyped, SharedTyped, PlaceInv, TarRuns, Running, Ended, Args, Record, WindUp, Goto, ListOf, Present, history
<1>2. SharedTyped'
  BY Constants, UpIsNode DEF IInv, TypeOK, PlacesTyped, SharedTyped, PlaceInv, TarRuns, Args, Record, WindUp, Goto, ListOf, Present, history
<1>3. TmpIsTree'
  BY Constants, UpIsNode DEF IInv, TypeOK, SharedTyped, TmpIsTree, PlaceInv, TarRuns, Record, WindUp, Goto, ListOf, Present, history
<1>4. DataTarOK'
  BY Constants, UpIsNode DEF IInv, TypeOK, PlacesTyped, SharedTyped, DataTarOK, PlaceInv, TarRuns, Record, WindUp, Goto, ListOf, Present, history
<1>5. PlaceInv'
  BY Constants, UpIsNode DEF IInv, TypeOK, PlacesTyped, SharedTyped, PlaceInv, TarRuns, Record, WindUp, Goto, ListOf, Present, history
<1>6. LogsBacked'
  BY Constants, UpIsNode DEF IInv, TypeOK, PlacesTyped, SharedTyped, PlaceInv, TarRuns, LogsBacked, Record, WindUp, Goto, ListOf, Present, history
<1> QED
  BY <1>1, <1>2, <1>3, <1>4, <1>5, <1>6 DEF IInv, TypeOK

LEMMA KillKeeps ==
  ASSUME IInv, NEW r \in Runs, Kill(r)
  PROVE  IInv'
<1>1. UNCHANGED <<tmp, whole, ok, root, logs, db, history>>
  BY DEF Kill
<1>2. CASE End(r, "killed")
  BY <1>1, <1>2, EndKeeps DEF Ended
<1>3. CASE /\ pc[r] = "untar" /\ pc' = [pc EXCEPT ![r] = "orphan"]
           /\ arg' = [arg EXCEPT ![r] = NoArg]
           /\ UNCHANGED <<listed, from, fd, writer>>
  <2>1. PlacesTyped'
    BY <1>1, <1>3, NoArgTyped DEF IInv, TypeOK, PlacesTyped, Running, history
  <2>2. SharedTyped' /\ TmpIsTree' /\ LogsBacked'
    BY <1>1, <1>3 DEF IInv, TypeOK, SharedTyped, TmpIsTree, LogsBacked, history
  <2>3. DataTarOK'
    BY <1>1, <1>3 DEF IInv, TypeOK, PlacesTyped, SharedTyped, DataTarOK
  <2>4. PlaceInv'
    BY <1>1, <1>3 DEF IInv, TypeOK, PlacesTyped, PlaceInv, TarRuns
  <2> QED
    BY <2>1, <2>2, <2>3, <2>4 DEF IInv, TypeOK
<1> QED
  BY <1>2, <1>3 DEF Kill, Goto

-----------------------------------------------------------------------------
LEMMA StepKeeps ==
  ASSUME IInv, NEW r \in Runs, Step(r)
  PROVE  IInv'
BY RemoveOneKeeps, RemoveEndsKeeps, MakeTmpKeeps, MakeDataKeeps, OpenArchiveKeeps,
   OpenFailsKeeps, ExtractKeeps, WriteKeeps, TarKeeps, TarOneKeeps, TarFailsKeeps,
   TarEndsKeeps, OrphanEndsKeeps, OpenLogKeeps, CopyOneKeeps, CopyEndsKeeps, RecordKeeps DEF Step

LEMMA NextKeeps == IInv /\ [Next]_vars => IInv'
<1> SUFFICES ASSUME IInv, [Next]_vars PROVE IInv'
  OBVIOUS
<1>1. CASE UNCHANGED vars
  <2>1. TypeOK'
    BY <1>1 DEF vars, history, IInv, TypeOK, PlacesTyped, SharedTyped, TmpIsTree, DataTarOK
  <2>2. PlaceInv' /\ LogsBacked'
    BY <1>1 DEF vars, history, IInv, PlaceInv, TarRuns, LogsBacked
  <2> QED
    BY <2>1, <2>2 DEF IInv
<1>2. ASSUME NEW r \in Runs, Start(r) \/ Step(r) \/ Kill(r)
      PROVE  IInv'
  BY <1>2, StartKeeps, StepKeeps, KillKeeps
<1> QED
  BY <1>1, <1>2 DEF Next

LEMMA Invariance == Spec => []IInv
<1>1. QED
  BY InitInv, NextKeeps, PTL DEF Spec

(***************************************************************************)
(* However many invocations share TMP_DIR, and wherever each is killed,     *)
(* TMP_DIR stays a tree and one invocation at most writes data.tar.gz under *)
(* its name, in the place of the program where it writes.                   *)
(***************************************************************************)
THEOREM TypeCorrect == Spec => []TypeOK
<1>1. IInv => TypeOK
  BY DEF IInv
<1> QED
  BY <1>1, Invariance, PTL

(***************************************************************************)
(* Every path that an install log names is in the prefix, though files of   *)
(* TMP_DIR may vanish under the walk that copies them, or a call of the     *)
(* invocation that made the log has failed on that path.                    *)
(***************************************************************************)
THEOREM LogsStayTruthful == Spec => []LogsTruthful
<1>1. IInv => LogsTruthful
  BY DEF IInv, LogsBacked, LogsTruthful
<1> QED
  BY <1>1, Invariance, PTL

(***************************************************************************)
(* Nobody writes to a log but the invocation that made it, and that only    *)
(* while it copies and only by adding paths.                                *)
(***************************************************************************)
LEMMA LogStep ==
  ASSUME IInv, [Next]_vars, NEW k \in Packages, logs'[k] # logs[k]
  PROVE  \/ logs[k].by = NoRun
         \/ /\ logs'[k].by = logs[k].by
            /\ pc[logs[k].by] = "copy"
            /\ logs[k].lines \subseteq logs'[k].lines
<1>1. PICK r \in Runs : OpenLog(r) \/ CopyOne(r)
  <2>1. logs' # logs
    OBVIOUS
  <2> QED
    BY <2>1, ZenonT(40) DEF Next, vars, Start, Kill, Step, RemoveOne, RemoveEnds, MakeTmp, MakeData,
       OpenArchive, OpenFails, Extract, Write, Tar, TarOne, TarFails, TarEnds, OrphanEnds, CopyEnds, Record
<1>2. logs \in [Packages -> [by : Runs \cup {NoRun}, lines : SUBSET Paths]]
  BY DEF IInv, TypeOK, SharedTyped
<1>3. CASE OpenLog(r)
  BY <1>2, <1>3 DEF OpenLog, NewLog, history
<1>4. CASE CopyOne(r)
  <2>1. pc[r] = "copy"
    BY <1>4, CopyOneEffect
  <2>2. /\ logs' # logs => fd[r]
        /\ logs' \in {logs} \cup {[logs EXCEPT ![arg[r].archive].lines = @ \cup {p}] :
                                    p \in {q \in Paths : root'[q] # Absent \/ q \in lost'[r]}}
    BY <1>4, CopyOneEffect, Zenon
  <2>3. PICK p \in Paths : fd[r] /\ logs' = [logs EXCEPT ![arg[r].archive].lines = @ \cup {p}]
    BY <2>2
  <2>4. arg[r].archive \in Packages /\ logs[arg[r].archive].by = r
    BY <2>3 DEF IInv, PlaceInv
  <2>5. k = arg[r].archive
    BY <1>2, <2>3, <2>4
  <2> QED
    BY <1>2, <2>1, <2>3, <2>4, <2>5
<1> QED
  BY <1>1, <1>3, <1>4

(* O_EXCL is enough to keep the logs of all invocations apart. *)
THEOREM LogsStayApart == Spec => LogsApart
<1>1. IInv /\ [Next]_vars =>
        [\A k \in Packages : logs'[k] # logs[k] =>
           \/ logs[k].by = NoRun
           \/ /\ logs'[k].by = logs[k].by
              /\ pc[logs[k].by] = "copy"
              /\ logs[k].lines \subseteq logs'[k].lines]_vars
  BY LogStep
<1> QED
  BY <1>1, Invariance, PTL DEF Spec, LogsApart
=============================================================================
