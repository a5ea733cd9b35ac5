---------------------------- MODULE CommandLine ----------------------------
(***************************************************************************)
(* main() of main.c: the getopt_long() loop over the command line and the   *)
(* flags it leaves to mpkg().                                               *)
(*                                                                         *)
(* A word is the option it is, with the argument written in it ("-pFILE",   *)
(* "--info=x") or none, or a plain word with its text.  getopt_long() moves *)
(* the plain words behind the options; argv is opts \o plain when the loop  *)
(* ends, and while it runs the part before optind is a reordering of the    *)
(* words read so far, so that optind is the number of the next given word.  *)
(***************************************************************************)
EXTENDS Integers, Sequences, FiniteSets

CONSTANTS
  NoWord,   \* no argument; a NULL pointer
  Dashed,   \* the text of any word that begins with a dash
  Slash,    \* the prefix that is taken where none is given
  Texts,    \* what a plain word or an argument may say
  Files     \* the texts that are names of existing files

ASSUME TextAssumption ==
  /\ {Dashed, Slash} \subseteq Texts /\ Files \subseteq Texts
  /\ NoWord \notin Texts

VARIABLES
  given,        \* argv as it was given, without the program's name
  optind,       \* the next word to look at
  opts,         \* options and their arguments, in front
  plain,        \* plain words, behind
  main,         \* "parsing", "exited" or "mpkg"
  iflag, clean_temps, infoflag, archive, prefix

parseVars == <<given, optind, opts, plain, main, iflag, clean_temps, infoflag, archive, prefix>>

Kinds == {"package", "root", "install", "keep-temp", "help", "info", "invalid", "--", "plain"}

GivenWords == {word \in [kind : Kinds, arg : Texts \cup {NoWord}] :
                 word.kind = "plain" => word.arg # NoWord}

ParseTyped ==
  /\ given \in Seq(GivenWords) /\ opts \in Seq(GivenWords) /\ plain \in Seq(GivenWords)
  /\ optind \in 1 .. Len(given) + 1 /\ infoflag \in 0 .. Len(given) + 1
  /\ main \in {"parsing", "exited", "mpkg"}
  /\ iflag \in BOOLEAN /\ clean_temps \in BOOLEAN
  /\ archive \in Texts \cup {NoWord} /\ prefix \in Texts \cup {NoWord}

(* What the program reads in a word that it takes for a text. *)
Text(word)   == IF word.kind = "plain" THEN word.arg ELSE Dashed
Needs(word)  == word.kind \in {"package", "root"}
TakesNext(i) == Needs(given[i]) /\ given[i].arg = NoWord
HasArg(i)    == TakesNext(i) => i < Len(given)
Optarg(i)    == IF TakesNext(i) THEN Text(given[i + 1]) ELSE given[i].arg

(* The first word from optind on that is not plain. *)
FirstOption ==
  CHOOSE i \in optind .. Len(given) + 1 :
    /\ i <= Len(given) => given[i].kind # "plain"
    /\ \A j \in optind .. i - 1 : given[j].kind = "plain"

(* argv after the loop, as mpkg() indexes it. *)
Argv(i) == LET words == opts \o plain IN IF i <= Len(words) THEN Text(words[i]) ELSE NoWord

ParseInit(words) ==
  /\ given = words
  /\ optind = 1 /\ opts = <<>> /\ plain = <<>>
  /\ main = "parsing"
  /\ iflag = FALSE /\ clean_temps = TRUE /\ infoflag = 0
  /\ archive = NoWord /\ prefix = NoWord

(* getopt_long() returns the option at FirstOption, over any plain words. *)
Getopt(kind) ==
  LET i    == FirstOption
      last == IF TakesNext(i) THEN i + 1 ELSE i
  IN  /\ main = "parsing"
      /\ i <= Len(given) /\ given[i].kind = kind /\ HasArg(i)
      /\ plain' = plain \o SubSeq(given, optind, i - 1)
      /\ opts' = opts \o SubSeq(given, i, last)
      /\ optind' = last + 1

TooFew ==
  /\ main = "parsing" /\ given = <<>>
  /\ main' = "exited"
  /\ UNCHANGED <<given, optind, opts, plain, iflag, clean_temps, infoflag, archive, prefix>>

(* Mutant: the first -p is kept. *)
PackageFirst ==
  /\ Getopt("package")
  /\ archive' = IF archive = NoWord THEN Optarg(FirstOption) ELSE archive
  /\ main' = IF archive' \in Files THEN main ELSE "exited"
  /\ UNCHANGED <<given, iflag, clean_temps, infoflag, prefix>>
PackageOption ==
  /\ Getopt("package")
  /\ archive' = Optarg(FirstOption)
  /\ main' = IF archive' \in Files THEN main ELSE "exited"
  /\ UNCHANGED <<given, iflag, clean_temps, infoflag, prefix>>

RootOption ==
  /\ Getopt("root")
  /\ prefix' = Optarg(FirstOption)
  /\ UNCHANGED <<given, main, iflag, clean_temps, infoflag, archive>>

InstallOption ==
  /\ Getopt("install")
  /\ iflag' = TRUE
  /\ UNCHANGED <<given, main, clean_temps, infoflag, archive, prefix>>

KeepTempOption ==
  /\ Getopt("keep-temp")
  /\ clean_temps' = FALSE
  /\ UNCHANGED <<given, main, iflag, infoflag, archive, prefix>>

(* Mutant: the number of the option itself. *)
InfoOfOption ==
  /\ Getopt("info")
  /\ infoflag' = optind' - 1
  /\ UNCHANGED <<given, main, iflag, clean_temps, archive, prefix>>
(* The argument in "--info=x" is not looked at. *)
InfoOption ==
  /\ Getopt("info")
  /\ infoflag' = optind'
  /\ UNCHANGED <<given, main, iflag, clean_temps, archive, prefix>>

(* The usage text, or '?': an option that is none or lacks its argument. *)
Leave ==
  /\ main = "parsing"
  /\ FirstOption <= Len(given)
  /\ given[FirstOption].kind \in {"help", "invalid"} \/ ~HasArg(FirstOption)
  /\ main' = "exited"
  /\ UNCHANGED <<given, optind, opts, plain, iflag, clean_temps, infoflag, archive, prefix>>

(* -1: no option is left, or "--" makes all the rest plain. *)
OptionsEnd ==
  LET i     == FirstOption
      stops == i <= Len(given)
  IN  /\ main = "parsing" /\ given # <<>>
      /\ stops => given[i].kind = "--"
      /\ opts' = IF stops THEN Append(opts, given[i]) ELSE opts
      /\ plain' = plain \o SubSeq(given, optind, i - 1) \o SubSeq(given, i + 1, Len(given))
      /\ optind' = Len(opts') + 1
      /\ prefix' = IF prefix = NoWord THEN Slash ELSE prefix
      /\ main' = IF prefix' \in Files THEN "mpkg" ELSE "exited"
      /\ UNCHANGED <<given, iflag, clean_temps, infoflag, archive>>

ParseNext ==
  \/ TooFew \/ PackageOption \/ RootOption \/ InstallOption \/ KeepTempOption \/ InfoOption
  \/ Leave \/ OptionsEnd

-----------------------------------------------------------------------------
(* The part that each given word plays, told from the words before it. *)
Roles ==
  LET role[i \in 1 .. Len(given)] ==
        IF i > 1 /\ role[i - 1] = "option" /\ TakesNext(i - 1) THEN "argument"
        ELSE IF i > 1 /\ role[i - 1] \in {"stop", "rest"} THEN "rest"
        ELSE IF given[i].kind = "plain" THEN "plain"
        ELSE IF given[i].kind = "--" THEN "stop" ELSE "option"
  IN  role

Options(kind) == LET role == Roles
                 IN  {i \in 1 .. Len(given) : role[i] = "option" /\ given[i].kind = kind}
LastOf(S)     == CHOOSE i \in S : \A j \in S : j <= i
Wanted(kind, default) == IF Options(kind) = {} THEN default ELSE Optarg(LastOf(Options(kind)))

Fatal ==
  \/ given = <<>> \/ Options("help") \cup Options("invalid") # {}
  \/ \E i \in Options("package") : HasArg(i) => Optarg(i) \notin Files
  \/ \E i \in Options("root") : ~HasArg(i)
  \/ Wanted("root", Slash) \notin Files

(***************************************************************************)
(* Wherever the plain words and the options stand between each other, the   *)
(* program goes on exactly if nothing on the line is wrong, with the flags  *)
(* and the last archive and prefix that the options name, and no word lost. *)
(***************************************************************************)
ParsedAsGiven ==
  /\ main = "exited" => Fatal
  /\ main = "mpkg" =>
       /\ ~Fatal
       /\ iflag = (Options("install") # {})
       /\ clean_temps = (Options("keep-temp") = {})
       /\ archive = Wanted("package", NoWord)
       /\ prefix = Wanted("root", Slash)
       /\ infoflag > 0 <=> Options("info") # {}
       /\ Len(opts) + Len(plain) = Len(given)
       /\ Len(plain) = Cardinality({i \in 1 .. Len(given) : Roles[i] \in {"plain", "rest"}})

(***************************************************************************)
(* Where only plain words follow the last --info, mpkg() prints the word    *)
(* that follows it, or is given NULL at the end of the line, however the    *)
(* words before it were moved.                                              *)
(***************************************************************************)
InfoWordKept ==
  main = "mpkg" /\ Options("info") # {} =>
    LET i == LastOf(Options("info"))
    IN  (\A j \in i + 1 .. Len(given) : Roles[j] = "plain") =>
          Argv(infoflag) = IF i < Len(given) THEN Text(given[i + 1]) ELSE NoWord

(***************************************************************************)
(* "--info [COMMANDS, ...] print package infomation" (the usage text): the  *)
(* plain word that follows --info is what is printed.                       *)
(***************************************************************************)
InfoTakesItsWord ==
  main = "mpkg" /\ Options("info") # {} =>
    LET i == LastOf(Options("info"))
    IN  i < Len(given) /\ Roles[i + 1] = "plain" => Argv(infoflag) = Text(given[i + 1])
=============================================================================
