-------------------------------- MODULE Info --------------------------------
(***************************************************************************)
(* info.c: the list of fields that info_load() makes of the text of the     *)
(* info member, the lookup in it and the loop of info_print().              *)
(*                                                                         *)
(* A line of the text has the field name that the regular expression finds  *)
(* in it (NoKey if there is none), its value, and whether it is closed, i.e.*)
(* ends in a quotation mark.  _strsep() cuts behind closed lines only, so a *)
(* line that is not closed runs on into the next one.                       *)
(***************************************************************************)
EXTENDS Integers, Sequences, FiniteSets

CONSTANTS
  Values,    \* what a line may give a field
  Empty,     \* the value ""
  Garbage,   \* what a pointer that was never set leads to, if anywhere
  Unknown,   \* a name that fld_map does not have
  NoKey,     \* no match for  name : "
  Commands   \* what may stand between the commas in a list of commands

(* fld_map, in the order of pkg_fld_name. *)
fld_map == <<"package", "maintainer", "branch", "architecture", "version", "release",
             "installed-size", "dependancies", "homepage", "description">>
FieldNames == {fld_map[i] : i \in 1 .. Len(fld_map)}

(* The lines of a text, and what a field_t may hold. *)
TextLines == [name : FieldNames \cup {Unknown, NoKey}, val : Values, closed : BOOLEAN]
Fields    == [name : FieldNames, type : {"str", "nul"}, str : Seq(Values \cup {Garbage})]

ASSUME FieldAssumption ==
  /\ Unknown \notin FieldNames /\ NoKey \notin FieldNames
  /\ Garbage \notin Values /\ Garbage \notin Seq(Fields)
  /\ FieldNames \cup {"all"} \subseteq Commands

VARIABLES
  info,      \* where the info object is
  text,      \* the text it was given
  rest,      \* what _strsep() has still to cut
  fld_list,  \* the fields, or Garbage where the list was never set
  cut,       \* whether any line has been cut
  commands,  \* what info_print() has still to do
  printed    \* what it has printed

infoVars == <<info, text, rest, fld_list, cut, commands, printed>>

InfoTyped ==
  /\ info \in {"unset", "loading", "loaded", "printing", "crashed", "unloaded"}
  /\ text \in Seq(TextLines) /\ rest \in Seq(TextLines)
  /\ fld_list \in Seq(Fields) \cup {Garbage}
  /\ cut \in BOOLEAN
  /\ commands \in Seq(Commands) /\ printed \in Seq(Fields)

InfoInit ==
  /\ info = "unset" /\ text = <<>> /\ rest = <<>> /\ fld_list = <<>> /\ cut = FALSE
  /\ commands = <<>> /\ printed = <<>>

-----------------------------------------------------------------------------
(* info_new_field(): the first key is the field's, all that follows its     *)
(* value; an empty value is of type fld_type_nul and leaves str unset.      *)
(* Mutant: the last key. *)
info_new_field_last(piece) ==
  LET keyed == {i \in 1 .. Len(piece) : piece[i].name # NoKey}
      first == CHOOSE i \in keyed : \A j \in keyed : i >= j
      val   == [j \in 1 .. Len(piece) - first + 1 |-> piece[first + j - 1].val]
  IN  IF val = <<Empty>>
      THEN [name |-> piece[first].name, type |-> "nul", str |-> <<Garbage>>]
      ELSE [name |-> piece[first].name, type |-> "str", str |-> val]
info_new_field(piece) ==
  LET keyed == {i \in 1 .. Len(piece) : piece[i].name # NoKey}
      first == CHOOSE i \in keyed : \A j \in keyed : i <= j
      val   == [j \in 1 .. Len(piece) - first + 1 |-> piece[first + j - 1].val]
  IN  IF val = <<Empty>>
      THEN [name |-> piece[first].name, type |-> "nul", str |-> <<Garbage>>]
      ELSE [name |-> piece[first].name, type |-> "str", str |-> val]

Keyed(piece) == \E i \in 1 .. Len(piece) : piece[i].name # NoKey

Load(string) ==
  /\ info = "unset"
  /\ info' = "loading"
  /\ text' = string
  /\ rest' = string
  /\ UNCHANGED <<fld_list, cut, commands, printed>>

(* The first n lines are cut off. *)
_strsep(n) == n \in 1 .. Len(rest) /\ rest[n].closed /\ \A i \in 1 .. n - 1 : ~rest[i].closed

(* One iteration of the loop of info_load(); an unknown name is passed over. *)
LoadField ==
  /\ info = "loading"
  /\ \E n \in 1 .. Len(rest) :
       /\ _strsep(n)
       /\ LET piece == SubSeq(rest, 1, n)
          IN  /\ Keyed(piece)
              /\ fld_list' = LET new == info_new_field(piece)
                             IN  IF new.name \in FieldNames THEN Append(fld_list, new)
                                 ELSE fld_list
       /\ rest' = SubSeq(rest, n + 1, Len(rest))
  /\ cut' = TRUE
  /\ UNCHANGED <<info, text, commands, printed>>

(***************************************************************************)
(* No match: the result of regexec_() is not looked at and str is cut at    *)
(* places that were never set.  That is a crash, or a field of any name.    *)
(***************************************************************************)
LoadUnmatched ==
  /\ info = "loading"
  /\ \E n \in 1 .. Len(rest) :
       /\ _strsep(n) /\ ~Keyed(SubSeq(rest, 1, n))
       /\ rest' = SubSeq(rest, n + 1, Len(rest))
  /\ cut' = TRUE
  /\ \/ info' = "crashed" /\ UNCHANGED fld_list
     \/ /\ \/ UNCHANGED fld_list
           \/ \E f \in FieldNames, t \in {"str", "nul"} :
                fld_list' = Append(fld_list, [name |-> f, type |-> t, str |-> <<Garbage>>])
        /\ UNCHANGED info
  /\ UNCHANGED <<text, commands, printed>>

(* The list is what info_fields holds, which nothing has set if no line was cut. *)
LoadEnds ==
  /\ info = "loading"
  /\ \A n \in 1 .. Len(rest) : ~rest[n].closed
  /\ info' = "loaded"
  /\ \/ UNCHANGED fld_list
     \/ ~cut /\ fld_list' = Garbage
  /\ UNCHANGED <<text, rest, cut, commands, printed>>

(* info_get_fld(): the first field of that name; NULL if there is none. *)
Has(name) == fld_list # Garbage /\ \E i \in 1 .. Len(fld_list) : fld_list[i].name = name
info_get_fld(name) ==
  fld_list[CHOOSE i \in 1 .. Len(fld_list) :
             fld_list[i].name = name /\ \A j \in 1 .. i - 1 : fld_list[j].name # name]

-----------------------------------------------------------------------------
(* Mutant: the branch, which a package need not have, is one of them. *)
AllBranch == <<"package", "branch">>
(* Mutant: the list is started again as it was given. *)
AllAgain == <<"all">>
All == <<"package", "maintainer", "architecture", "version", "dependancies", "homepage",
         "release", "description", "installed-size">>

(* strdup(commands), which may be NULL. *)
PrintStart(words) ==
  /\ info = "loaded"
  /\ info' = "printing"
  /\ commands' = words
  /\ UNCHANGED <<text, rest, fld_list, cut, printed>>

PrintNothing ==
  /\ info = "loaded"
  /\ info' = "crashed"
  /\ UNCHANGED <<text, rest, fld_list, cut, commands, printed>>

PrintAll ==
  /\ info = "printing" /\ commands # <<>> /\ Head(commands) = "all"
  /\ commands' = All
  /\ UNCHANGED <<info, text, rest, fld_list, cut, printed>>

(* Mutant: an empty field ends the loop. *)
PrintFieldStops ==
  /\ info = "printing" /\ commands # <<>> /\ Head(commands) \in FieldNames
  /\ IF ~Has(Head(commands))
     THEN info' = "crashed" /\ UNCHANGED <<commands, printed>>
     ELSE LET fld == info_get_fld(Head(commands))
          IN  /\ printed' = IF fld.type = "str" THEN Append(printed, fld) ELSE printed
              /\ commands' = IF fld.type = "str" THEN Tail(commands) ELSE <<>>
              /\ UNCHANGED info
  /\ UNCHANGED <<text, rest, fld_list, cut>>
PrintField ==
  /\ info = "printing" /\ commands # <<>> /\ Head(commands) \in FieldNames
  /\ IF ~Has(Head(commands))
     THEN info' = "crashed" /\ UNCHANGED <<commands, printed>>
     ELSE LET fld == info_get_fld(Head(commands))
          IN  /\ printed' = IF fld.type = "str" THEN Append(printed, fld) ELSE printed
              /\ commands' = Tail(commands)
              /\ UNCHANGED info
  /\ UNCHANGED <<text, rest, fld_list, cut>>

PrintEnds ==
  /\ info = "printing"
  /\ commands # <<>> => Head(commands) \notin FieldNames \cup {"all"}
  /\ info' = "loaded"
  /\ commands' = <<>>
  /\ UNCHANGED <<text, rest, fld_list, cut, printed>>

(* info_unload(): frees the list, which must be one. *)
Unload ==
  /\ info \in {"unset", "loaded"}
  /\ info' \in IF info = "loaded" /\ fld_list # Garbage THEN {"unloaded"}
               ELSE {"unloaded", "crashed"}
  /\ UNCHANGED <<text, rest, fld_list, cut, commands, printed>>

InfoNext ==
  \/ LoadField \/ LoadUnmatched \/ LoadEnds
  \/ PrintAll \/ PrintField \/ PrintEnds

-----------------------------------------------------------------------------
(* The line that opens the piece which line c closes: the first with a key. *)
Opens(i, c) ==
  /\ text[i].name # NoKey /\ \A j \in i .. c - 1 : ~text[j].closed
  /\ \A j \in 1 .. i - 1 : text[j].name # NoKey => \E b \in j .. i - 1 : text[b].closed
Opener(c) == CHOOSE i \in 1 .. c : Opens(i, c)
EveryPieceKeyed ==
  \A c \in 1 .. Len(text) : text[c].closed => \E i \in 1 .. c : Opens(i, c)
(* The lines up to n that close a field. *)
Closers(n) == {c \in 1 .. n : text[c].closed /\ text[Opener(c)].name \in FieldNames}
Str(i, c) == IF i = c /\ text[c].val = Empty THEN <<Garbage>>
             ELSE [j \in 1 .. c - i + 1 |-> text[i + j - 1].val]

(***************************************************************************)
(* Of a text with a key in every piece the list has one field for each      *)
(* closed line, in the order of the text and under the first name behind    *)
(* the closed line before; it lacks unknown names and the lines behind the  *)
(* last closed one, and nothing else.                                       *)
(***************************************************************************)
ListFaithful ==
  info \in {"loaded", "printing"} /\ fld_list # Garbage /\ EveryPieceKeyed =>
    /\ Len(fld_list) = Cardinality(Closers(Len(text)))
    /\ \A c \in Closers(Len(text)) :
         LET fld == fld_list[Cardinality(Closers(c))]
         IN  fld.name = text[Opener(c)].name /\ fld.str = Str(Opener(c), c)
=============================================================================
