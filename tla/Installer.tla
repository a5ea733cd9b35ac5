----------------------------- MODULE Installer -----------------------------
(***************************************************************************)
(* What mpkg -i promises: one installation after another.  One that began   *)
(* clean puts its own package in the prefix and nothing else; when tar(1)   *)
(* gave it the whole package too, it writes its row only when every path is *)
(* in place on which no call of its own failed.  How it gets at the files,  *)
(* TMP_DIR and tar(1), is not part of it.                                   *)
(***************************************************************************)
CONSTANTS Paths, Packages, Runs, Contents, Kind, Absent, Made, Torn, NoJob

VARIABLES
  root,   \* what stands at each path of the prefix
  db,     \* the rows of table installed
  job     \* the installation at work: whose, of what, what is known of it

vars == <<root, db, job>>

Shape(p, k)  == IF Kind[p] = "dir" THEN Made ELSE k
(* What copy() does not pass over. *)
Carried(k)   == {p \in Contents[k] : Kind[p] # "other"}

(* clean: nothing is left of another; sound: the whole package is given. *)
Job == {j \in [run : Runs, pkg : Packages, clean : BOOLEAN, sound : BOOLEAN,
               lost : SUBSET Paths] : j.sound => j.clean}

Init ==
  /\ root = [p \in Paths |-> Absent]
  /\ db = {}
  /\ job = NoJob

Begin ==
  /\ job = NoJob
  /\ job' \in {j \in Job : j.lost = {}}
  /\ UNCHANGED <<root, db>>

(* A path of the package, or a directory that was left in TMP_DIR. *)
Own(p, what) ==
  /\ what \in {Shape(p, job.pkg), Torn}
  /\ p \in Carried(job.pkg) \/ Kind[p] = "dir"

(* Something is put at a path, or a call fails, or both. *)
Put ==
  /\ job # NoJob
  /\ \E p \in Paths, what \in Packages \cup {Made, Torn} :
       /\ job.clean => Own(p, what)
       /\ root' \in {root, [root EXCEPT ![p] = what]}
  /\ \E failed \in SUBSET Paths : job' = [job EXCEPT !.lost = @ \cup failed]
  /\ UNCHANGED db

(* The row is written, or the database refuses it. *)
Finish ==
  /\ job # NoJob
  /\ job.sound => \A p \in Carried(job.pkg) \ job.lost : root[p] = Shape(p, job.pkg)
  /\ db' \in {db, db \cup {[run |-> job.run, pkg |-> job.pkg]}}
  /\ job' = NoJob
  /\ UNCHANGED root

(* The process is killed. *)
Abandon ==
  /\ job # NoJob
  /\ job' = NoJob
  /\ UNCHANGED <<root, db>>

Next == Begin \/ Put \/ Finish \/ Abandon
Spec == Init /\ [][Next]_vars
=============================================================================
