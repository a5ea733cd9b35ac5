------------------------------ MODULE MCQuery ------------------------------
(***************************************************************************)
(* Instance of Query: five families of sessions, each with many values of   *)
(* one input and few of the others.                                         *)
(***************************************************************************)
EXTENDS Query, TLC

CONSTANTS v, w        \* values of fields

Pkg  == "pkg.mav"     \* names of existing files
MCFiles == {Pkg, Slash, "some"}
MCTexts == MCFiles \cup {Dashed, "all", "late", "wrong"}
MCNames == {"foo", "1"}

(* The texts a word may have, as lists of commands. *)
MCCommands == FieldNames \cup {"all", "bogus", "pkg.mav", "-", "/"}
MCCommandsIn ==
  (Dashed :> <<"-">>) @@ (Pkg :> <<"pkg.mav">>) @@ ("some" :> <<"version", "package">>)
    @@ ("all" :> <<"all">>) @@ ("late" :> <<"version", "all", "branch">>)
    @@ ("wrong" :> <<"package", "bogus", "version">>) @@ (Slash :> <<"/">>)

W(kind, arg) == [kind |-> kind, arg |-> arg]
Opt(kind)       == W(kind, NoWord)
Plain(text_)    == W("plain", text_)

SeqsUpTo(S, n) == UNION {[1 .. k -> S] : k \in 0 .. n}

Line(name, val, closed) == [name |-> name, val |-> val, closed |-> closed]
(* Every field but "branch", in the order of the usage text. *)
Whole == [i \in 1 .. Len(NamedByAll) |-> Line(NamedByAll[i], IF i = 5 THEN w ELSE v, TRUE)]
Dep(op)   == [name |-> "foo", op |-> op, blank |-> TRUE, ver |-> "1"]
Tight(op) == [name |-> "foo", op |-> op, blank |-> FALSE, ver |-> "1"]

Session(given_, member, text_) ==
  [program |-> "mpkg", given |-> given_, member |-> member, odd |-> {}, text |-> text_, deps |-> <<>>]

(* Any command line of up to three words, and of four with the options that *)
(* take a word or end the options; these go no further than the info member.*)
Words == {Opt("package"), W("package", Pkg), Opt("root"), Opt("install"), Opt("info"),
          Opt("keep-temp"), Opt("help"), Opt("--"), Plain(Pkg), Plain("some")}
LongWords    == {Opt(kind) : kind \in {"package", "root", "info", "--"}} \cup {Plain(Pkg), Plain("some")}
CommandLines == {Session(line, "fits", Whole) : line \in SeqsUpTo(Words, 3)}
                  \cup {Session(line, "none", Whole) : line \in [1 .. 4 -> LongWords]}

(* Any text of up to three lines, of two for three lists of commands. *)
Lines == {Line("package", x, c) : x \in {v, Empty}, c \in BOOLEAN}
           \cup {Line(n, v, c) : n \in {"version", Unknown, NoKey}, c \in BOOLEAN}
OneUnmatched(text_) == \A i, j \in 1 .. Len(text_) :
  i < j /\ text_[i].closed => ~(text_[i].name = NoKey /\ text_[j].name = NoKey)
Ask1(word, text_) == Session(<<W("package", Pkg), Opt("info"), Plain(word)>>, "fits", text_)
AllTexts == {Ask1("some", text_) : text_ \in {t \in SeqsUpTo(Lines, 3) : OneUnmatched(t)}}
           \cup {Ask1(word, text_) : word \in {"all", "wrong"}, text_ \in SeqsUpTo(Lines, 2)}

(* A whole text, or one with a field emptied, left out or given twice. *)
Changed ==
  {Whole} \cup {[Whole EXCEPT ![i].val = Empty] : i \in 1 .. Len(Whole)}
          \cup {[Whole EXCEPT ![i].name = Unknown] : i \in 1 .. Len(Whole)}
          \cup {<<Line(NamedByAll[i], w, TRUE)>> \o Whole : i \in 1 .. Len(Whole)}
          \cup {Whole \o <<Line("branch", x, TRUE)>> : x \in {v, Empty}}
Installs ==
  {Session(<<Opt("install")>> \o line, member, text_) :
     line \in {<<W("package", Pkg)>>, <<>>} \cup
              {<<W("package", Pkg), Opt("info"), Plain(word)>> : word \in {"all", "late"}},
     member \in Members, text_ \in Changed}

(* info_test over any dependencies of up to three groups. *)
Ops          == {<<"=">>, <<"<">>, <<"<", "=">>, <<">">>, <<">", "=">>, <<"=", "=">>, <<">", ">", ">">>}
Choices      == {Dep(<<"=">>), Tight(<<"<", "=">>), Bad}
SomeGroups   == {s \in SeqsUpTo(Choices, 2) : s # <<>>}
Testing(member, text_, groups) ==
  [program |-> "info_test", given |-> <<>>, member |-> member, odd |-> {}, text |-> text_,
   deps |-> groups]
Dependencies ==
  {Testing("fits", <<Line("dependancies", v, TRUE)>>, groups) :
     groups \in {s \in SeqsUpTo(SomeGroups, 3) : s # <<>>} \cup {<<<<Dep(op)>>, <<Tight(op)>>>> : op \in Ops}}
  \cup {Testing(member, text_, <<<<Dep(<<"=">>)>>>>) :
          member \in Members, text_ \in Changed \cup {<<>>}}

(* Any of the oddities, in the query and in the installation of a package. *)
Odd == {[s EXCEPT !.odd = odd] : odd \in SUBSET Oddities \ {{}},
          s \in {Session(<<W("package", Pkg)>> \o line, "fits", Whole) :
                   line \in {<<Opt("install")>>, <<Opt("info"), Plain("all")>>, <<Opt("root"), Plain(Slash)>>}}}

MCSessions == CommandLines \cup AllTexts \cup Installs \cup Dependencies \cup Odd
=============================================================================
