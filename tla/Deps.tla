-------------------------------- MODULE Deps --------------------------------
(***************************************************************************)
(* load_deps() of v_compare.c: the list it makes of a field "dependancies". *)
(* The text is a sequence of groups, which commas separate, of alternatives,*)
(* which bars separate; an alternative is a package's name, an operator (a  *)
(* sequence of characters) and a version, with a blank between the two or   *)
(* not, or Bad, which the regular expression does not match.                *)
(***************************************************************************)
EXTENDS Integers, Sequences, FiniteSets

CONSTANTS
  Names,   \* what may stand for a name or a version
  Lost,    \* a version that is the empty text
  Bad, NoOp

VARIABLES
  deps,      \* where the dep_object is
  dep_str,   \* the groups it was given
  s3,        \* the groups that strsep() has still to give
  s1,        \* the alternatives still to read of the group at hand
  dep_list

depsVars == <<deps, dep_str, s3, s1, dep_list>>

(* What may stand between two bars, and in a list. *)
Alternatives ==
  {Bad} \cup [name : Names, op : Seq({"=", "<", ">"}) \ {<<>>}, blank : BOOLEAN, ver : Names]
Groups       == Seq(Seq(Alternatives) \ {<<>>})

DepsInit == deps = "unset" /\ dep_str = <<>> /\ s3 = <<>> /\ s1 = <<>> /\ dep_list = <<>>

(* enum am_binary *)
eq == 1
lt == 2
le == 3
gt == 4
ge == 5
Number(char) == CASE char = "=" -> eq [] char = "<" -> lt [] char = ">" -> gt

(* Mutant: every character is added. *)
_am_binaryEvery(op) ==
  IF Len(op) = 1 THEN Number(op[1])
  ELSE Number(op[1]) + Number(op[2]) + (IF Len(op) > 2 THEN Number(op[3]) ELSE 0)
(* Mutant: the second character is not added. *)
_am_binaryFirst(op) == Number(op[1])
(* Both characters count; a third is not looked at. *)
_am_binary(op) == IF Len(op) = 1 THEN Number(op[1]) ELSE Number(op[1]) + Number(op[2])

DepsTyped ==
  /\ deps \in {"unset", "loading", "loaded", "crashed", "unloaded"}
  /\ dep_str \in Groups /\ s3 \in Groups /\ s1 \in Seq(Alternatives)
  /\ dep_list \in Seq([name : Names \cup {Bad}, op : 1 .. gt + gt \cup {NoOp},
                       v_num : Names \cup {Bad, Lost}, dep_type : {"no", "or"}])

(* The NUL that ends the operator is written behind it: over the blank, or  *)
(* over the first character of the version if there is none.                *)
new_dep(alternative, type) ==
  [name |-> alternative.name, op |-> _am_binary(alternative.op),
   v_num |-> IF alternative.blank THEN alternative.ver ELSE Lost, dep_type |-> type]

LoadDeps(groups) ==
  /\ deps = "unset"
  /\ deps' = "loading"
  /\ dep_str' = groups
  /\ s3' = groups
  /\ UNCHANGED <<s1, dep_list>>

(* No match: str is cut at places that were never set, as in info.c; what   *)
(* the operator is read from is one (eq, for any of them) or none.          *)
Unmatched(type) ==
  \/ deps' = "crashed" /\ UNCHANGED dep_list
  \/ /\ \E op \in {eq, NoOp} :
          dep_list' = Append(dep_list, [name |-> Bad, op |-> op, v_num |-> Bad, dep_type |-> type])
     /\ UNCHANGED deps

Add(alternative, type) ==
  IF alternative = Bad THEN Unmatched(type)
  ELSE dep_list' = Append(dep_list, new_dep(alternative, type)) /\ UNCHANGED deps

(* Mutant: a group of one is an OR token too. *)
GroupAllBars ==
  /\ deps = "loading" /\ s1 = <<>> /\ s3 # <<>>
  /\ s3' = Tail(s3)
  /\ s1' = Head(s3)
  /\ UNCHANGED <<deps, dep_str, dep_list>>
(* strsep() at a comma: a group without a bar is a normal token. *)
Group ==
  /\ deps = "loading" /\ s1 = <<>> /\ s3 # <<>>
  /\ s3' = Tail(s3)
  /\ IF Len(Head(s3)) = 1
     THEN Add(Head(s3)[1], "no") /\ UNCHANGED s1
     ELSE s1' = Head(s3) /\ UNCHANGED <<deps, dep_list>>
  /\ UNCHANGED dep_str

(* strsep() at a bar. *)
Alternative ==
  /\ deps = "loading" /\ s1 # <<>>
  /\ Add(Head(s1), "or")
  /\ s1' = Tail(s1)
  /\ UNCHANGED <<dep_str, s3>>

DepsEnd ==
  /\ deps = "loading" /\ s1 = <<>> /\ s3 = <<>>
  /\ deps' = "loaded"
  /\ UNCHANGED <<dep_str, s3, s1, dep_list>>

UnloadDeps ==
  /\ deps = "loaded"
  /\ deps' = "unloaded"
  /\ UNCHANGED <<dep_str, s3, s1, dep_list>>

DepsNext == Group \/ Alternative \/ DepsEnd \/ UnloadDeps
-----------------------------------------------------------------------------
(* The alternatives by their place in the text, and how many stand up to one. *)
Places   == UNION {{g} \X (1 .. Len(dep_str[g])) : g \in 1 .. Len(dep_str)}
UpTo(p)  == {q \in Places : q[1] < p[1] \/ (q[1] = p[1] /\ q[2] <= p[2])}
Rank(p)  == Cardinality(UpTo(p))
Written(p) == dep_str[p[1]][p[2]]
Loaded   == deps = "loaded" /\ \A p \in Places : Written(p) # Bad
(* v_compare.h: the operators there are, with their numbers. *)
Documented == {[op |-> <<"=">>, is |-> eq], [op |-> <<"<">>, is |-> lt], [op |-> <<"<", "=">>, is |-> le],
               [op |-> <<">">>, is |-> gt], [op |-> <<">", "=">>, is |-> ge]}

(***************************************************************************)
(* The list has an entry for each alternative, in the order of the text,    *)
(* with its name and with the number that v_compare.h gives its operator if *)
(* that is one of the five there; and with its version, unless that follows *)
(* the operator without a blank: then, and only then, it is lost.           *)
(***************************************************************************)
DepsFaithful ==
  Loaded =>
    /\ Len(dep_list) = Cardinality(Places)
    /\ \A p \in Places :
         LET dep == dep_list[Rank(p)]
         IN  /\ dep.name = Written(p).name
             /\ dep.v_num = IF Written(p).blank THEN Written(p).ver ELSE Lost
             /\ \A d \in Documented : d.op = Written(p).op => dep.op = d.is

(***************************************************************************)
(* The list is flat.  Which entries are alternatives of each other can be   *)
(* told from dep_type (neighbours that both are OR tokens), unless a group  *)
(* of several follows another.                                              *)
(***************************************************************************)
GroupsKept ==
  Loaded /\ (\A g \in 1 .. Len(dep_str) - 1 : Len(dep_str[g]) = 1 \/ Len(dep_str[g + 1]) = 1) =>
    \A p, q \in Places : Rank(q) = Rank(p) + 1 =>
      ((dep_list[Rank(p)].dep_type = "or" /\ dep_list[Rank(q)].dep_type = "or") <=> p[1] = q[1])
=============================================================================
