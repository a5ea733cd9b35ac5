------------------------------- MODULE Query -------------------------------
(***************************************************************************)
(* The memory of one process, from its command line to its end: mpkg() of   *)
(* mpkg.c with update_db() of sqlfrms.c over CommandLine, Info and Arena,   *)
(* and the program tests/info_test.c, which reads the dependencies of a     *)
(* package (Deps).  The files it shares with others are those of Install.   *)
(***************************************************************************)
EXTENDS CommandLine, Info, Deps, Arena

CONSTANTS
  Sessions,       \* what is run: program, command line, archive
  CommandsIn,     \* CommandsIn[w]: the names in the text w, cut at the commas
  NameLength      \* the longest name that temp_str holds

(* What "info" may be, and "fits" what is well: longer than temp_str, longer *)
(* than a buffer of ar_grab(), not there; or the archive is none, or one    *)
(* that ar_open() does not come back from.                                  *)
Members == {"fits", "long", "huge", "none", "no archive", "endless"}

(***************************************************************************)
(* What else an input may be: a word of the command line that prefix[4096]  *)
(* or a message does not hold, a text of the info member that a message does*)
(* not hold, a path that t[256] does not hold, a number in the database that*)
(* pkg_id[10] does not hold, a package or a prefix on which copy() does not *)
(* end (Spin and Block of Copy).                                            *)
(***************************************************************************)
Oddities == {"long word", "long text", "long path", "wide number", "endless copy"}

AnySession ==
  [program : {"mpkg", "info_test"}, given : Seq(GivenWords),
   member : Members, odd : SUBSET Oddities, text : Seq(TextLines), deps : Groups]

ASSUME SessionAssumption ==
  /\ Sessions \subseteq AnySession
  /\ CommandsIn \in [Texts -> Seq(Commands)]

(* p_app takes what one process makes, the paths of the fixed directories   *)
(* and two of a name.                                                       *)
ASSUME LengthAssumption == NameLength \in Nat /\ 2 * NameLength + 142 <= Size

VARIABLES
  session, at, db,
  row        \* the columns of the row that update_db() has put together

vars == <<session, at, db, row, parseVars, infoVars, depsVars, arenaVars>>

Final == {"done", "exited", "crashed"}

Init ==
  /\ session \in Sessions
  /\ at = IF session.program = "mpkg" THEN "main" ELSE "grab"
  /\ db = "closed" /\ row = <<>>
  /\ ParseInit(session.given)
  /\ InfoInit /\ DepsInit /\ ArenaInit

(* Which part of the state a step of the program leaves alone. *)
SameParse == UNCHANGED parseVars
SameInfo  == UNCHANGED infoVars
SameDeps  == UNCHANGED depsVars
SameArena == UNCHANGED arenaVars
Same      == UNCHANGED <<session, db, row>>

(* A crash of a part is one of the process. *)
Goto(place) == at' = IF info' = "crashed" \/ deps' = "crashed" THEN "crashed" ELSE place

-----------------------------------------------------------------------------
(***************************************************************************)
(* sprintf(), vsprintf() and strcpy() write past a buffer.  That is a crash,*)
(* or goes unseen.                                                          *)
(***************************************************************************)
Overflow ==
  /\ \/ at \in {"main", "prepare"} /\ "long word" \in session.odd
     \/ at \in {"load", "columns"} /\ "long text" \in session.odd
     \/ at = "copying" /\ "long path" \in session.odd
     \/ at = "columns" /\ row = <<>> /\ "wide number" \in session.odd
  /\ at' = "crashed"
  /\ SameParse /\ SameInfo /\ SameDeps /\ SameArena /\ Same

(* main(), and the two mkdir(2) of prepare_tempds(). *)
Main ==
  /\ at = "main" /\ ParseNext
  /\ IF main' = "mpkg" THEN at' = "prepare" /\ due' = <<13, 15>> /\ UNCHANGED <<p_app_len, paths>>
     ELSE at' = (IF main' = "exited" THEN "exited" ELSE at) /\ SameArena
  /\ SameInfo /\ SameDeps /\ Same

(* The string functions write on where p_app ends. *)
Path ==
  /\ at \notin Final /\ path_append
  /\ at' \in IF p_app_len' > Size THEN {at, "crashed"} ELSE {at}
  /\ SameParse /\ SameInfo /\ SameDeps /\ Same

(* ar_open(); if it fails, info_unload() is given a pointer that was never set. *)
Open ==
  /\ at = "prepare" /\ due = <<>>
  /\ at' = IF archive # NoWord /\ session.member # "no archive" THEN "grab" ELSE "unload"
  /\ SameParse /\ SameInfo /\ SameDeps /\ SameArena /\ Same

(***************************************************************************)
(* ar_grab() of "info" and _get_info(): no such member ends the program     *)
(* (GrabMissing of Archive), a second chunk too, and temp_str has 4096      *)
(* bytes.  info_test.c takes a copy of any length, and does not test        *)
(* ar_open(), which may also have no end (GoBack of Archive).               *)
(***************************************************************************)
Grab ==
  /\ at = "grab"
  /\ \/ session.member = "huge" /\ at' = "exited" /\ SameInfo
     \/ session.member = "endless" /\ at' = "stuck" /\ SameInfo
     \/ /\ \/ session.member \in {"none", "no archive"}
           \/ session.member = "long" /\ session.program = "mpkg"
        /\ at' = "crashed" /\ SameInfo
     \/ session.member \in {"fits", "long"} /\ Load(session.text) /\ at' = "load"
  /\ SameParse /\ SameDeps /\ SameArena /\ Same

LoadStep ==
  /\ at = "load"
  /\ LoadField \/ LoadUnmatched \/ LoadEnds
  /\ SameParse /\ SameDeps /\ SameArena /\ Same
  /\ Goto(IF info' = "loading" THEN "load"
          ELSE IF session.program = "mpkg" THEN "print" ELSE "depends")

(* if (infoflag > 0) info_print(info, argv[infoflag]) *)
PrintStep ==
  /\ at = "print" /\ infoflag > 0
  /\ IF Argv(infoflag) = NoWord THEN PrintNothing ELSE PrintStart(CommandsIn[Argv(infoflag)])
  /\ SameParse /\ SameDeps /\ SameArena /\ Same
  /\ Goto("printing")

PrintLoop ==
  /\ at = "printing"
  /\ PrintAll \/ PrintField \/ PrintEnds
  /\ SameParse /\ SameDeps /\ SameArena /\ Same
  /\ Goto(IF info' = "printing" THEN "printing" ELSE "printed")

(* if (iflag): the arguments of the two tar_extract(). *)
Extract ==
  /\ at = "printed" \/ (at = "print" /\ infoflag = 0)
  /\ IF iflag THEN at' = "log" /\ Ask(<<23, 15, 20, 13>>) ELSE at' = "unload" /\ SameArena
  /\ SameParse /\ SameInfo /\ SameDeps /\ Same

(***************************************************************************)
(* A field that is not there is a NULL pointer; the str of an empty one was *)
(* never set.                                                               *)
(***************************************************************************)
MayRead(name)  == Has(name)
MayCrash(name) == Has(name) => info_get_fld(name).str = <<Garbage>>

(* A name is as long as temp_str lets it be, or a whole buffer of ar_grab(). *)
Named == 1 + (IF session.member = "long" THEN 16 ELSE 1) * NameLength

(* The install log, and the argument of copy(). *)
Log ==
  /\ at = "log" /\ due = <<>>
  /\ \/ MayRead("package") /\ Ask(<<Named, 13>>) /\ at' = "copying"
     \/ MayCrash("package") /\ at' = "crashed" /\ SameArena
  /\ SameParse /\ SameInfo /\ SameDeps /\ Same

(* Mutant: the callback makes a path for each of 20 files. *)
CopyEachFile ==
  /\ at = "copying" /\ due = <<>>
  /\ at' = "database" /\ Ask([i \in 1 .. 20 |-> Named])
  /\ SameParse /\ SameInfo /\ SameDeps /\ Same
(* copy(), and what open_main_db() and update_db() are given. *)
Copy ==
  /\ at = "copying" /\ due = <<>>
  /\ \/ at' = "database" /\ Ask(<<8, Named>>)
     \/ "endless copy" \in session.odd /\ at' = "stuck" /\ SameArena
  /\ SameParse /\ SameInfo /\ SameDeps /\ Same

(* sqlite3_open(): where it fails, a closed handle is read for its message. *)
OpenDatabase ==
  /\ at = "database" /\ due = <<>>
  /\ \/ db' = "open" /\ at' = "columns"
     \/ db' = "failed" /\ at' \in {"columns", "crashed"}
  /\ SameParse /\ SameInfo /\ SameDeps /\ SameArena /\ UNCHANGED <<session, row>>

(* Mutant: two columns change places. *)
column_mapSwapped ==
  <<[fld |-> "maintainer", col |-> "pkgMaint"], [fld |-> "version", col |-> "pkgArch"],
    [fld |-> "architecture", col |-> "pkgVer"], [fld |-> "dependancies", col |-> "pkgDep"],
    [fld |-> "homepage", col |-> "pkgHome"], [fld |-> "release", col |-> "pkgRelease"],
    [fld |-> "description", col |-> "pkgDes"], [fld |-> "installed-size", col |-> "installedSize"]>>
column_map ==
  <<[fld |-> "maintainer", col |-> "pkgMaint"], [fld |-> "architecture", col |-> "pkgArch"],
    [fld |-> "version", col |-> "pkgVer"], [fld |-> "dependancies", col |-> "pkgDep"],
    [fld |-> "homepage", col |-> "pkgHome"], [fld |-> "release", col |-> "pkgRelease"],
    [fld |-> "description", col |-> "pkgDes"], [fld |-> "installed-size", col |-> "installedSize"]>>

Columns == {column_map[i].col : i \in 1 .. Len(column_map)}

(* One iteration of the loop over column_map. *)
Column ==
  /\ at = "columns" /\ Len(row) < Len(column_map)
  /\ LET column == column_map[Len(row) + 1]
     IN  \/ /\ MayRead(column.fld)
            /\ row' = Append(row, [col |-> column.col, str |-> info_get_fld(column.fld).str])
            /\ UNCHANGED at
         \/ MayCrash(column.fld) /\ at' = "crashed" /\ UNCHANGED row
  /\ SameParse /\ SameInfo /\ SameDeps /\ SameArena /\ UNCHANGED <<session, db>>

(* sqlite3_exec(): with no database it leaves its message unset. *)
Insert ==
  /\ at = "columns" /\ Len(row) = Len(column_map)
  /\ at' \in IF db = "open" THEN {"unload"} ELSE {"unload", "crashed"}
  /\ db' \in IF db = "open" THEN {"written", "refused"} ELSE {db}
  /\ SameParse /\ SameInfo /\ SameDeps /\ SameArena /\ UNCHANGED <<session, row>>

(* main() of info_test.c, from info_get_fld() on. *)
Depends ==
  /\ at = "depends"
  /\ \/ MayRead("dependancies") /\ info_get_fld("dependancies").str # <<Garbage>>
        /\ LoadDeps(session.deps) /\ at' = "deps"
     \/ MayCrash("dependancies") /\ at' = "crashed" /\ SameDeps
  /\ SameParse /\ SameInfo /\ SameArena /\ Same

DepsStep ==
  /\ at = "deps" /\ DepsNext
  /\ SameParse /\ SameInfo /\ SameArena /\ Same
  /\ Goto(IF deps' = "unloaded" THEN "unload" ELSE "deps")

WindUp ==
  /\ at = "unload" /\ Unload
  /\ SameParse /\ SameDeps /\ SameArena /\ Same
  /\ Goto("done")

Next ==
  \/ Overflow \/ Main \/ Path \/ Open \/ Grab \/ LoadStep \/ PrintStep \/ PrintLoop
  \/ Extract \/ Log \/ Copy \/ OpenDatabase \/ Column \/ Insert
  \/ Depends \/ DepsStep \/ WindUp

Spec == Init /\ [][Next]_vars /\ WF_vars(Next)
-----------------------------------------------------------------------------
(* The types, and the ranges that argv and the operators are indexed with. *)
TypeOK ==
  /\ at \in Final \cup {"main", "prepare", "grab", "load", "print", "printing", "printed", "log",
                         "copying", "stuck", "database", "columns", "depends", "deps", "unload"}
  /\ db \in {"closed", "open", "failed", "written", "refused"}
  /\ session \in AnySession
  /\ row \in Seq([col : Columns, str : Seq(Values \cup {Garbage})])
  /\ ParseTyped /\ InfoTyped /\ DepsTyped /\ ArenaTyped

(* The fields "all" stands for in the usage text. *)
NamedByAll == <<"package", "maintainer", "architecture", "version", "dependancies", "homepage",
                "release", "description", "installed-size">>

(* The names that a list of commands asks for: "all" is the end of it, as   *)
(* is a name that is none.                                                  *)
Requested(words) ==
  LET last == CHOOSE n \in 0 .. Len(words) :
                /\ \A i \in 1 .. n : words[i] \in FieldNames
                /\ n < Len(words) => words[n + 1] \notin FieldNames
  IN  SubSeq(words, 1, last)
        \o IF last < Len(words) /\ words[last + 1] = "all" THEN NamedByAll ELSE <<>>

Asked == Requested(CommandsIn[Argv(infoflag)])
Lacks(name) == ~\E i \in 1 .. Len(fld_list) : fld_list[i].name = name
First(name) == CHOOSE i \in 1 .. Len(fld_list) :
                 fld_list[i].name = name /\ \A j \in 1 .. i - 1 : fld_list[j].name # name

(* Which of the first n are printed. *)
Told(n) == {k \in 1 .. n : fld_list[First(Asked[k])].type = "str"}

(***************************************************************************)
(* After info_print() each name that was asked for, up to "all" and then    *)
(* the nine, has been printed with the value of the first field of that     *)
(* name, in the order asked, except the empty ones.                         *)
(***************************************************************************)
PrintFaithful ==
  at = "printed" =>
    /\ \A k \in 1 .. Len(Asked) : ~Lacks(Asked[k])
    /\ Len(printed) = Cardinality(Told(Len(Asked)))
    /\ \A k \in Told(Len(Asked)) : printed[Cardinality(Told(k))] = fld_list[First(Asked[k])]

(* The columns that the table has, with the fields they are for. *)
TableColumns ==
  {<<"pkgMaint", "maintainer">>, <<"pkgArch", "architecture">>, <<"pkgVer", "version">>,
   <<"pkgDep", "dependancies">>, <<"pkgHome", "homepage">>, <<"pkgRelease", "release">>,
   <<"pkgDes", "description">>, <<"installedSize", "installed-size">>}

(***************************************************************************)
(* A row that the database has taken holds, in each column, what the first  *)
(* line of that name says in the info text, where the text is sound and has *)
(* no empty value.                                                          *)
(***************************************************************************)
RowFromInfo ==
  db = "written" /\ (\A i \in 1 .. Len(text) :
                        text[i].closed /\ text[i].name # NoKey /\ text[i].val # Empty) =>
    \A c \in TableColumns :
      \E k \in 1 .. Len(row), i \in 1 .. Len(text) :
        /\ row[k] = [col |-> c[1], str |-> <<text[i].val>>]
        /\ text[i].name = c[2] /\ \A j \in 1 .. i - 1 : text[j].name # c[2]

Hollow(name) == Lacks(name) \/ fld_list[First(name)].str = <<Garbage>>

(***************************************************************************)
(* mpkg and info_test crash for one of these reasons only: the file is no   *)
(* archive or has no info member; that is longer than temp_str, or no line  *)
(* of it is closed; or it has been given to info_load() and a line without  *)
(* a key is closed; --info has no word to print, or asks for a field that   *)
(* is not there; -i, or info_test, needs a field that is not there or empty;*)
(* the database cannot be opened; a dependency has no operator; or a buffer *)
(* is too small: for a word of the line or a text of the info member, or, of*)
(* an installation, for a path or for the package's number.                 *)
(***************************************************************************)
CrashExplained ==
  at = "crashed" =>
    \/ session.program = "mpkg" /\ archive = NoWord
    \/ session.member # "fits"
    \/ {"long word", "long text"} \cap session.odd # {}
    \/ \A c \in 1 .. Len(session.text) : ~session.text[c].closed
    \/ /\ text = session.text
       /\ \/ ~EveryPieceKeyed
          \/ infoflag > 0 /\ Argv(infoflag) = NoWord
          \/ infoflag > 0 /\ \E k \in 1 .. Len(Asked) : Lacks(Asked[k])
          \/ iflag /\ \E c \in TableColumns \cup {<<"", "package">>} : Hollow(c[2])
          \/ iflag /\ {"long path", "wide number"} \cap session.odd # {}
          \/ session.program = "info_test" /\ Hollow("dependancies")
          \/ db = "failed"
          \/ \E g \in 1 .. Len(dep_str) : \E a \in 1 .. Len(dep_str[g]) : dep_str[g][a] = Bad

(* What one process makes fits p_app, if the info text fits temp_str. *)
PathsFit == session.member # "long" => p_app_len <= Size

(* The process ends, whatever else the archive and the command line are, if *)
(* ar_open() comes back from the archive's headers and copy() from the tree.*)
Ends == session.member # "endless" /\ "endless copy" \notin session.odd => <>(at \in Final)
=============================================================================
