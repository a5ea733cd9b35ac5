-------------------------- MODULE CommandLineProofs --------------------------
(***************************************************************************)
(* Proofs about CommandLine, for command lines of any length: what the loop *)
(* has read so far is what the words in front of optind say, by the parts   *)
(* that Roles gives them, and no word is lost when they are moved.          *)
(***************************************************************************)
EXTENDS CommandLine, FiniteSetTheorems, SequenceTheorems, WellFoundedInduction, TLAPS

(* A set of numbers has a smallest one: how recursion and CHOOSE are met.   *)
LEMMA Smallest ==
  ASSUME NEW T, T \subseteq Nat, T # {}
  PROVE  \E n \in T : \A m \in T : n <= m
<1>1. \E n \in T : \A m \in T : <<m, n>> \notin OpToRel(<, Nat)
  BY NatLessThanWellFounded, WFMin
<1>2. \A m, n \in Nat : <<m, n>> \notin OpToRel(<, Nat) => n <= m
  BY DEF OpToRel
<1> QED
  BY <1>1, <1>2

-----------------------------------------------------------------------------
(* The body of the recursive function Roles. *)
RoleAt(role, i) ==
  IF i > 1 /\ role[i - 1] = "option" /\ TakesNext(i - 1) THEN "argument"
  ELSE IF i > 1 /\ role[i - 1] \in {"stop", "rest"} THEN "rest"
  ELSE IF given[i].kind = "plain" THEN "plain"
  ELSE IF given[i].kind = "--" THEN "stop" ELSE "option"

LEMMA RolesUpTo ==
  \A n \in Nat : \E f : f = [i \in 1 .. n |-> RoleAt(f, i)]
<1> DEFINE T == {n \in Nat : ~ \E f : f = [i \in 1 .. n |-> RoleAt(f, i)]}
<1> SUFFICES ASSUME T # {} PROVE FALSE
  OBVIOUS
<1>1. PICK n \in T : \A m \in T : n <= m
  BY Smallest
<1>2. n # 0
  <2>1. LET f == [i \in 1 .. 0 |-> "none"] IN f = [i \in 1 .. 0 |-> RoleAt(f, i)]
    OBVIOUS
  <2> QED
    BY <2>1
<1>3. n - 1 \in Nat /\ n - 1 \notin T
  BY <1>1, <1>2
<1>4. PICK f : f = [i \in 1 .. n - 1 |-> RoleAt(f, i)]
  BY <1>3
<1> DEFINE g == [i \in 1 .. n |-> RoleAt(f, i)]
<1>5. \A i \in 1 .. n : i > 1 => g[i - 1] = f[i - 1]
  <2> SUFFICES ASSUME NEW i \in 1 .. n, i > 1 PROVE g[i - 1] = f[i - 1]
    OBVIOUS
  <2>1. i - 1 \in 1 .. n - 1 /\ i - 1 \in 1 .. n
    OBVIOUS
  <2> QED
    BY <1>4, <2>1
<1>6. \A i \in 1 .. n : RoleAt(g, i) = RoleAt(f, i)
  BY <1>5 DEF RoleAt
<1>7. g = [i \in 1 .. n |-> RoleAt(g, i)]
  BY <1>6
<1> QED
  BY <1>7

(* Roles is the function that its definition describes. *)
LEMMA RolesWritten ==
  ASSUME Len(given) \in Nat
  PROVE  \A i \in 1 .. Len(given) : Roles[i] = RoleAt(Roles, i)
<1>1. Roles = CHOOSE role : role = [i \in 1 .. Len(given) |-> RoleAt(role, i)]
  BY DEF Roles, RoleAt
<1>2. \E f : f = [i \in 1 .. Len(given) |-> RoleAt(f, i)]
  BY RolesUpTo
<1>3. Roles = [i \in 1 .. Len(given) |-> RoleAt(Roles, i)]
  BY <1>1, <1>2, Zenon
<1> QED
  BY <1>3

(* The options in front of the n-th word, and what they have said. *)
Before(kind, n) == {i \in Options(kind) : i < n}
Latest(S, default) == IF S = {} THEN default ELSE Optarg(LastOf(S))
PlainBefore(n) == {j \in 1 .. n - 1 : Roles[j] = "plain"}

(* Where the loop is: between two options, with no word lost. *)
PositionInv ==
  /\ Len(opts) + Len(plain) = optind - 1
  /\ \A j \in 1 .. optind - 1 : Roles[j] \in {"option", "argument", "plain"}
  /\ optind > 1 => /\ Roles[optind - 1] \in {"option", "argument"}
                   /\ Roles[optind - 1] = "option" => ~TakesNext(optind - 1)
  /\ Len(plain) = Cardinality(PlainBefore(optind))

(* What the options read so far have left. *)
FlagsInv ==
  /\ Before("help", optind) = {} /\ Before("invalid", optind) = {}
  /\ \A i \in Before("package", optind) : HasArg(i) /\ Optarg(i) \in Files
  /\ \A i \in Before("root", optind) : HasArg(i)
  /\ iflag <=> Before("install", optind) # {}
  /\ clean_temps <=> Before("keep-temp", optind) = {}
  /\ archive = Latest(Before("package", optind), NoWord)
  /\ prefix = Latest(Before("root", optind), NoWord)
  /\ infoflag = IF Before("info", optind) = {} THEN 0 ELSE LastOf(Before("info", optind)) + 1

ParseInv ==
  /\ ParseTyped
  /\ main = "parsing" => PositionInv /\ FlagsInv
  /\ ParsedAsGiven
  /\ InfoWordKept

(* The line that was given is never changed, nor what is told from it. *)
LEMMA SameLine ==
  ASSUME given' = given
  PROVE  /\ Roles' = Roles
         /\ \A i : TakesNext(i)' = TakesNext(i) /\ HasArg(i)' = HasArg(i) /\ Optarg(i)' = Optarg(i)
         /\ \A kind : Options(kind)' = Options(kind)
         /\ \A kind, n : Before(kind, n)' = Before(kind, n)
         /\ \A n : PlainBefore(n)' = PlainBefore(n)
         /\ \A S, d : Latest(S, d)' = Latest(S, d)
<1>1. \A i : TakesNext(i)' = TakesNext(i) /\ HasArg(i)' = HasArg(i) /\ Optarg(i)' = Optarg(i)
  BY DEF TakesNext, Needs, HasArg, Optarg, Text
<1>2. Roles' = Roles
  BY DEF Roles, TakesNext, Needs
<1>3. \A kind : Options(kind)' = Options(kind)
  BY <1>2 DEF Options
<1>4. /\ \A kind, n : Before(kind, n)' = Before(kind, n)
      /\ \A n : PlainBefore(n)' = PlainBefore(n)
  BY <1>2, <1>3 DEF Before, PlainBefore
<1>5. \A S, d : Latest(S, d)' = Latest(S, d)
  BY <1>1 DEF Latest, LastOf
<1> QED
  BY <1>1, <1>2, <1>3, <1>4, <1>5

(* What FirstOption passes over are plain words. *)
LEMMA FirstOptionIs ==
  ASSUME given \in Seq(GivenWords), optind \in 1 .. Len(given) + 1
  PROVE  /\ FirstOption \in optind .. Len(given) + 1
         /\ FirstOption <= Len(given) => given[FirstOption].kind # "plain"
         /\ \A j \in optind .. FirstOption - 1 : given[j].kind = "plain"
<1> DEFINE T == {i \in optind .. Len(given) + 1 : i <= Len(given) => given[i].kind # "plain"}
<1>1. Len(given) \in Nat /\ Len(given) + 1 \in T /\ T \subseteq Nat
  OBVIOUS
<1>2. PICK n \in T : \A m \in T : n <= m
  BY <1>1, Smallest
<1>3. \A j \in optind .. n - 1 : given[j].kind = "plain"
  <2> SUFFICES ASSUME NEW j \in optind .. n - 1 PROVE given[j].kind = "plain"
    OBVIOUS
  <2>1. j \in optind .. Len(given) + 1 /\ j <= Len(given) /\ j \notin T
    BY <1>1, <1>2
  <2> QED
    BY <2>1
<1>4. \E i \in optind .. Len(given) + 1 :
        /\ i <= Len(given) => given[i].kind # "plain"
        /\ \A j \in optind .. i - 1 : given[j].kind = "plain"
  BY <1>2, <1>3
<1> QED
  BY <1>4 DEF FirstOption

(* The parts that the words up to the next option play. *)
LEMMA RolesAhead ==
  ASSUME ParseTyped, PositionInv, NEW i, i = FirstOption
  PROVE  /\ \A j \in optind .. i - 1 : Roles[j] = "plain"
         /\ i <= Len(given) => Roles[i] = IF given[i].kind = "--" THEN "stop" ELSE "option"
         /\ i < Len(given) /\ Roles[i] = "option" /\ TakesNext(i) => Roles[i + 1] = "argument"
<1>1. /\ given \in Seq(GivenWords) /\ Len(given) \in Nat /\ optind \in 1 .. Len(given) + 1
      /\ i \in optind .. Len(given) + 1
      /\ i <= Len(given) => given[i].kind # "plain"
      /\ \A j \in optind .. i - 1 : given[j].kind = "plain"
  BY FirstOptionIs DEF ParseTyped
<1> HIDE DEF ParseTyped
<1>2. optind > 1 => ~(Roles[optind - 1] = "option" /\ TakesNext(optind - 1))
                    /\ Roles[optind - 1] \notin {"stop", "rest"}
  BY DEF PositionInv
<1>3. \A j \in optind .. i - 1 : Roles[j] = "plain"
  <2> DEFINE T == {j \in optind .. i - 1 : Roles[j] # "plain"}
  <2> SUFFICES ASSUME T # {} PROVE FALSE
    OBVIOUS
  <2>1. T \subseteq Nat
    BY <1>1
  <2>2. PICK j \in T : \A m \in T : j <= m
    BY <2>1, Smallest
  <2>3. j \in 1 .. Len(given) /\ given[j].kind = "plain" /\ Roles[j] # "plain"
    BY <1>1
  <2>4. Roles[j] = RoleAt(Roles, j)
    BY <1>1, <2>3, RolesWritten
  <2>5. CASE j = optind
    BY <1>2, <2>3, <2>4, <2>5 DEF RoleAt
  <2>6. CASE j # optind
    <3>1. j - 1 \in optind .. i - 1 /\ j - 1 \notin T
      BY <1>1, <2>2, <2>6
    <3>2. Roles[j - 1] = "plain"
      BY <3>1
    <3> QED
      BY <2>3, <2>4, <3>2 DEF RoleAt
  <2> QED
    BY <2>5, <2>6
<1>4. ASSUME i <= Len(given)
      PROVE  Roles[i] = IF given[i].kind = "--" THEN "stop" ELSE "option"
  <2>1. i \in 1 .. Len(given) /\ given[i].kind # "plain"
    BY <1>1, <1>4
  <2>2. Roles[i] = RoleAt(Roles, i)
    BY <1>1, <2>1, RolesWritten
  <2>3. CASE i = optind
    BY <1>2, <2>1, <2>2, <2>3 DEF RoleAt
  <2>4. CASE i # optind
    <3>1. i - 1 \in optind .. i - 1
      BY <1>1, <2>4
    <3>2. Roles[i - 1] = "plain"
      BY <1>3, <3>1
    <3> QED
      BY <2>1, <2>2, <3>2 DEF RoleAt
  <2> QED
    BY <2>3, <2>4
<1>5. ASSUME i < Len(given), Roles[i] = "option", TakesNext(i)
      PROVE  Roles[i + 1] = "argument"
  <2>1. i + 1 \in 1 .. Len(given) /\ i + 1 > 1 /\ i \in Int
    BY <1>1, <1>5
  <2>2. Roles[i + 1] = RoleAt(Roles, i + 1)
    BY <1>1, <2>1, RolesWritten
  <2>3. PICK k \in Int : k = i + 1 /\ k - 1 = i
    BY <2>1
  <2> QED
    BY <1>5, <2>1, <2>2, <2>3 DEF RoleAt
<1> QED
  BY <1>3, <1>4, <1>5

LEMMA RunCounted ==
  ASSUME NEW P, NEW a \in Nat, NEW b \in Nat, a <= b, P \subseteq 1 .. a - 1
  PROVE  /\ IsFiniteSet(P) /\ Cardinality(P) \in Nat
         /\ IsFiniteSet(P \cup (a .. b - 1))
         /\ Cardinality(P \cup (a .. b - 1)) = Cardinality(P) + (b - a)
<1>1. IsFiniteSet(1 .. a - 1)
  BY FS_Interval
<1>2. IsFiniteSet(P) /\ Cardinality(P) \in Nat
  BY <1>1, FS_Subset, FS_CardinalityType
<1>3. a - 1 \in Int /\ b - 1 \in Int
  OBVIOUS
<1>4. IsFiniteSet(a .. b - 1) /\ Cardinality(a .. b - 1) = b - a
  <2> PICK c \in Int : c = b - 1
    BY <1>3
  <2>1. IsFiniteSet(a .. c) /\ Cardinality(a .. c) = IF a > c THEN 0 ELSE c - a + 1
    BY FS_Interval
  <2> QED
    BY <2>1
<1>5. P \cap (a .. b - 1) = {}
  OBVIOUS
<1>6. /\ IsFiniteSet(P \cup (a .. b - 1))
      /\ Cardinality(P \cup (a .. b - 1))
           = Cardinality(P) + Cardinality(a .. b - 1) - Cardinality(P \cap (a .. b - 1))
  BY <1>2, <1>4, FS_Union
<1>7. Cardinality(P \cap (a .. b - 1)) = 0
  BY <1>5, FS_EmptySet
<1> QED
  BY <1>2, <1>4, <1>6, <1>7

(* An option is read, over the plain words in front of it. *)
LEMMA OptionRead ==
  ASSUME ParseTyped, PositionInv, NEW kind, kind \notin {"plain", "--"},
         Getopt(kind), given' = given
  PROVE  /\ opts' \in Seq(GivenWords) /\ plain' \in Seq(GivenWords)
         /\ optind' \in 1 .. Len(given) + 1
         /\ PositionInv'
         /\ \E i \in 1 .. Len(given) :
              /\ i = FirstOption /\ optind <= i /\ i < optind'
              /\ given[i].kind = kind /\ HasArg(i)
              /\ \A k : Before(k, optind') = Before(k, optind) \cup (IF k = kind THEN {i} ELSE {})
<1>1. PICK i : i = FirstOption
  OBVIOUS
<1>2. PICK last : last = IF TakesNext(i) THEN i + 1 ELSE i
  OBVIOUS
<1>3. /\ i <= Len(given) /\ given[i].kind = kind /\ HasArg(i)
      /\ plain' = plain \o SubSeq(given, optind, i - 1)
      /\ opts' = opts \o SubSeq(given, i, last)
      /\ optind' = last + 1
  BY <1>1, <1>2 DEF Getopt
<1>4. /\ given \in Seq(GivenWords) /\ Len(given) \in Nat /\ optind \in 1 .. Len(given) + 1
      /\ opts \in Seq(GivenWords) /\ plain \in Seq(GivenWords)
  BY DEF ParseTyped
<1>5. i \in optind .. Len(given) + 1
  BY <1>1, <1>4, FirstOptionIs
<1>6. i \in 1 .. Len(given) /\ last \in i .. Len(given) /\ optind' \in 1 .. Len(given) + 1
  BY <1>2, <1>3, <1>4, <1>5 DEF HasArg
<1>7. /\ \A j \in optind .. i - 1 : Roles[j] = "plain"
      /\ Roles[i] = "option"
      /\ TakesNext(i) => last = i + 1 /\ Roles[last] = "argument"
      /\ ~TakesNext(i) => last = i
  <2>1. /\ \A j \in optind .. i - 1 : Roles[j] = "plain"
        /\ i <= Len(given) => Roles[i] = IF given[i].kind = "--" THEN "stop" ELSE "option"
        /\ i < Len(given) /\ Roles[i] = "option" /\ TakesNext(i) => Roles[i + 1] = "argument"
    BY <1>1, RolesAhead
  <2> QED
    BY <1>2, <1>3, <2>1 DEF HasArg
<1>8. /\ SubSeq(given, optind, i - 1) \in Seq(GivenWords)
      /\ Len(SubSeq(given, optind, i - 1)) = i - optind
      /\ SubSeq(given, i, last) \in Seq(GivenWords)
      /\ Len(SubSeq(given, i, last)) = last - i + 1
  <2>1. i - 1 \in Int /\ \A j \in optind .. i - 1 : given[j] \in GivenWords
    BY <1>4, <1>6
  <2>2. last \in Int /\ \A j \in i .. last : given[j] \in GivenWords
    BY <1>4, <1>6
  <2> QED
    BY <1>4, <1>5, <1>6, <2>1, <2>2, SubSeqProperties
<1>9. /\ plain' \in Seq(GivenWords) /\ Len(plain') = Len(plain) + (i - optind)
      /\ opts' \in Seq(GivenWords) /\ Len(opts') = Len(opts) + (last - i + 1)
  <2>1. PICK s \in Seq(GivenWords) : s = SubSeq(given, optind, i - 1) /\ Len(s) = i - optind
    BY <1>8
  <2>2. PICK t \in Seq(GivenWords) : t = SubSeq(given, i, last) /\ Len(t) = last - i + 1
    BY <1>8
  <2>3. plain' = plain \o s /\ opts' = opts \o t
    BY <1>3, <2>1, <2>2
  <2>4. /\ plain \o s \in Seq(GivenWords) /\ Len(plain \o s) = Len(plain) + Len(s)
        /\ opts \o t \in Seq(GivenWords) /\ Len(opts \o t) = Len(opts) + Len(t)
    BY <1>4, ConcatProperties
  <2> QED
    BY <2>1, <2>2, <2>3, <2>4
<1>10. Roles' = Roles /\ (\A j : TakesNext(j)' = TakesNext(j)) /\ \A n : PlainBefore(n)' = PlainBefore(n)
  BY SameLine
<1>11. \A j \in 1 .. last : \/ j \in 1 .. optind - 1 \/ j \in optind .. i - 1
                            \/ j = i \/ (j = last /\ TakesNext(i))
  BY <1>4, <1>6, <1>7
<1>12. PlainBefore(optind') = PlainBefore(optind) \cup (optind .. i - 1)
  <2>1. ASSUME NEW j \in 1 .. last PROVE Roles[j] = "plain" <=> j \in PlainBefore(optind) \cup (optind .. i - 1)
    <3>1. CASE j \in 1 .. optind - 1
      BY <1>4, <1>6, <3>1 DEF PlainBefore
    <3>2. CASE j \in optind .. i - 1
      BY <1>7, <3>2
    <3>3. CASE j = i \/ (j = last /\ TakesNext(i))
      <4>1. j \notin 1 .. optind - 1 /\ j \notin optind .. i - 1
        BY <1>4, <1>5, <1>6, <1>7, <3>3
      <4> QED
        BY <1>7, <3>3, <4>1 DEF PlainBefore
    <3> QED
      BY <1>11, <3>1, <3>2, <3>3
  <2>2. PlainBefore(optind') = {j \in 1 .. last : Roles[j] = "plain"}
    BY <1>3, <1>6 DEF PlainBefore
  <2>3. PlainBefore(optind) \cup (optind .. i - 1) \subseteq 1 .. last
    BY <1>4, <1>5, <1>6 DEF PlainBefore
  <2> QED
    BY <2>1, <2>2, <2>3
<1>13. Cardinality(PlainBefore(optind')) = Cardinality(PlainBefore(optind)) + (i - optind)
  <2>1. PlainBefore(optind) \subseteq 1 .. optind - 1 /\ optind \in Nat /\ i \in Nat /\ optind <= i
    BY <1>4, <1>5 DEF PlainBefore
  <2>2. Cardinality(PlainBefore(optind) \cup (optind .. i - 1))
          = Cardinality(PlainBefore(optind)) + (i - optind)
    BY <2>1, RunCounted
  <2> QED
    BY <1>12, <2>2
<1>14. PositionInv'
  <2>1. Len(opts') + Len(plain') = optind' - 1
    <3>1. PICK m \in Nat, n \in Nat : m = Len(opts) /\ n = Len(plain) /\ m + n = optind - 1
      BY <1>4 DEF PositionInv
    <3>2. m + (last - i + 1) + (n + (i - optind)) = last
      BY <1>4, <1>5, <1>6, <3>1
    <3>3. Len(opts') = m + (last - i + 1) /\ Len(plain') = n + (i - optind)
      BY <1>9, <3>1
    <3>4. Len(opts') + Len(plain') = last
      BY <3>2, <3>3
    <3>5. optind' - 1 = last
      BY <1>3, <1>6
    <3> QED
      BY <3>4, <3>5
  <2>2. \A j \in 1 .. optind' - 1 : Roles[j] \in {"option", "argument", "plain"}
    <3> SUFFICES ASSUME NEW j \in 1 .. last PROVE Roles[j] \in {"option", "argument", "plain"}
      BY <1>3, <1>6
    <3> QED
      BY <1>7, <1>11 DEF PositionInv
  <2>3. optind' - 1 = last /\ Roles[last] \in {"option", "argument"}
          /\ (Roles[last] = "option" => ~TakesNext(last))
    <3>1. optind' - 1 = last
      BY <1>3, <1>6
    <3>2. CASE TakesNext(i)
      BY <1>7, <3>1, <3>2
    <3>3. CASE ~TakesNext(i)
      <4>1. last = i
        BY <1>7, <3>3
      <4> QED
        BY <1>7, <3>1, <3>3, <4>1
    <3> QED
      BY <3>2, <3>3
  <2>4. Len(plain') = Cardinality(PlainBefore(optind'))
    BY <1>9, <1>13 DEF PositionInv
  <2>5. Cardinality(PlainBefore(optind)') = Cardinality(PlainBefore(optind'))
    BY <1>10 DEF PlainBefore
  <2> QED
    BY <1>10, <2>1, <2>2, <2>3, <2>4, <2>5 DEF PositionInv
<1>15. \A k : Before(k, optind') = Before(k, optind) \cup (IF k = kind THEN {i} ELSE {})
  <2> SUFFICES ASSUME NEW k
               PROVE  Before(k, optind') = Before(k, optind) \cup (IF k = kind THEN {i} ELSE {})
    OBVIOUS
  <2>1. Options(k) = {j \in 1 .. Len(given) : Roles[j] = "option" /\ given[j].kind = k}
    BY DEF Options
  <2>2. ASSUME NEW j \in Options(k), j < optind'
        PROVE  j < optind \/ (j = i /\ k = kind)
    <3>1. j \in 1 .. last /\ Roles[j] = "option" /\ given[j].kind = k
      BY <1>3, <1>6, <2>1, <2>2
    <3>2. CASE j \in optind .. i - 1
      BY <1>7, <3>1, <3>2
    <3>3. CASE j = last /\ TakesNext(i)
      BY <1>7, <3>1, <3>3
    <3> QED
      BY <1>3, <1>4, <1>11, <3>1, <3>2, <3>3
  <2>3. ASSUME NEW j \in Options(k), j < optind
        PROVE  j < optind'
    BY <1>3, <1>4, <1>5, <1>6, <2>1, <2>3
  <2>4. k = kind => i \in Options(k) /\ i < optind'
    BY <1>3, <1>5, <1>6, <1>7, <2>1
  <2> QED
    BY <2>2, <2>3, <2>4 DEF Before
<1> QED
  BY <1>1, <1>3, <1>5, <1>6, <1>9, <1>14, <1>15

LEMMA LastAdded ==
  ASSUME NEW S, NEW i \in Nat, \A j \in S : j \in Nat /\ j < i
  PROVE  LastOf(S \cup {i}) = i
<1>1. i \in S \cup {i} /\ \A j \in S \cup {i} : j <= i
  OBVIOUS
<1>2. \A k \in S \cup {i} : (\A j \in S \cup {i} : j <= k) => k = i
  OBVIOUS
<1> QED
  BY <1>1, <1>2 DEF LastOf

(* An argument that is there is a text. *)
LEMMA OptargText ==
  ASSUME given \in Seq(GivenWords), NEW i \in 1 .. Len(given), HasArg(i), Needs(given[i])
  PROVE  Optarg(i) \in Texts /\ Optarg(i) # NoWord
<1>1. /\ \A k \in 1 .. Len(given) :
           /\ given[k].arg \in Texts \cup {NoWord}
           /\ given[k].kind = "plain" => given[k].arg # NoWord
      /\ Len(given) \in Nat
  BY DEF GivenWords
<1>2. CASE TakesNext(i)
  <2>1. i + 1 \in 1 .. Len(given)
    BY <1>1, <1>2 DEF HasArg
  <2>2. Optarg(i) = Text(given[i + 1])
    BY <1>2 DEF Optarg
  <2> QED
    BY <1>1, <2>1, <2>2, TextAssumption DEF Text
<1>3. CASE ~TakesNext(i)
  BY <1>1, <1>3, TextAssumption DEF Optarg, TakesNext
<1> QED
  BY <1>2, <1>3

(* What can be told from the line when one more option has been read. *)
LEMMA OptionTold ==
  ASSUME ParseTyped, PositionInv, NEW kind, kind \notin {"plain", "--"},
         Getopt(kind), given' = given
  PROVE  \E i \in 1 .. Len(given) :
           /\ i = FirstOption /\ given[i].kind = kind /\ HasArg(i)
           /\ i \in Options(kind)
           /\ optind' = IF TakesNext(i) THEN i + 2 ELSE i + 1
           /\ \A k : Before(k, optind)' = Before(k, optind) \cup (IF k = kind THEN {i} ELSE {})
           /\ Latest(Before(kind, optind), NoWord)' = Optarg(i)
           /\ LastOf(Before(kind, optind)') = i
           /\ \A k : k # kind => Latest(Before(k, optind), NoWord)' = Latest(Before(k, optind), NoWord)
<1>1. PICK i \in 1 .. Len(given) :
        /\ i = FirstOption /\ optind <= i /\ i < optind'
        /\ given[i].kind = kind /\ HasArg(i)
        /\ \A k : Before(k, optind') = Before(k, optind) \cup (IF k = kind THEN {i} ELSE {})
  BY OptionRead
<1>2. /\ \A j : Optarg(j)' = Optarg(j)
      /\ \A k, n : Before(k, n)' = Before(k, n)
  BY SameLine
<1>3. \A k : Before(k, optind)' = Before(k, optind')
  BY SameLine DEF Before
<1>4. \A k : Before(k, optind)' = Before(k, optind) \cup (IF k = kind THEN {i} ELSE {})
  BY <1>1, <1>3
<1>5. LastOf(Before(kind, optind)') = i
  <2>1. i \in Nat /\ \A j \in Before(kind, optind) : j \in Nat /\ j < i
    BY <1>1 DEF Before, Options, ParseTyped
  <2>2. LastOf(Before(kind, optind) \cup {i}) = i
    <3>1. PICK S : S = Before(kind, optind)
      OBVIOUS
    <3> QED
      BY <2>1, <3>1, LastAdded
  <2>3. Before(kind, optind)' = Before(kind, optind) \cup {i}
    BY <1>4
  <2> QED
    BY <2>2, <2>3
<1>6. Latest(Before(kind, optind), NoWord)' = Optarg(i)
  <2>1. Before(kind, optind)' # {}
    BY <1>4
  <2>2. LastOf(Before(kind, optind))' = i
    BY <1>5 DEF LastOf
  <2> QED
    BY <2>1, <2>2 DEF Latest, Optarg, TakesNext, Needs, Text
<1>7. \A k : k # kind => Latest(Before(k, optind), NoWord)' = Latest(Before(k, optind), NoWord)
  <2> SUFFICES ASSUME NEW k, k # kind
               PROVE  Latest(Before(k, optind), NoWord)' = Latest(Before(k, optind), NoWord)
    OBVIOUS
  <2>1. Before(k, optind)' = Before(k, optind)
    BY <1>4
  <2> QED
    BY <2>1 DEF Latest, LastOf, Optarg, TakesNext, Needs, Text
<1>8. i \in Options(kind)
  <2>1. i \in Before(kind, optind')
    BY <1>1
  <2> QED
    BY <2>1 DEF Before
<1>9. optind' = IF TakesNext(i) THEN i + 2 ELSE i + 1
  BY <1>1 DEF Getopt
<1> QED
  BY <1>1, <1>4, <1>5, <1>6, <1>7, <1>8, <1>9

LEMMA SameFatal ==
  ASSUME given' = given
  PROVE  /\ Fatal' <=> Fatal
         /\ \A kind, d : Wanted(kind, d)' = Wanted(kind, d)
<1>1. /\ \A i : HasArg(i)' = HasArg(i) /\ Optarg(i)' = Optarg(i)
      /\ \A kind : Options(kind)' = Options(kind)
  BY SameLine
<1>2. \A kind, d : Wanted(kind, d)' = Wanted(kind, d)
  <2> SUFFICES ASSUME NEW kind, NEW d PROVE Wanted(kind, d)' = Wanted(kind, d)
    OBVIOUS
  <2>1. LastOf(Options(kind))' = LastOf(Options(kind)) /\ Options(kind)' = Options(kind)
    BY <1>1 DEF LastOf
  <2> QED
    BY <2>1 DEF Wanted, Optarg, TakesNext, Needs, Text
<1>3. Fatal' <=> Fatal
  BY <1>1, <1>2 DEF Fatal
<1> QED
  BY <1>2, <1>3

(* What the option, which is no error, leaves as it was. *)
LEMMA OthersTold ==
  ASSUME ParseTyped, PositionInv, FlagsInv, NEW kind \in Kinds,
         kind \notin {"plain", "--", "help", "invalid"}, Getopt(kind), given' = given
  PROVE  /\ Before("help", optind)' = {} /\ Before("invalid", optind)' = {}
         /\ \A i \in Before("root", optind)' : HasArg(i)'
         /\ kind # "package" =>
              /\ \A i \in Before("package", optind)' : HasArg(i)' /\ Optarg(i)' \in Files
              /\ archive = Latest(Before("package", optind), NoWord)'
         /\ kind # "root" => prefix = Latest(Before("root", optind), NoWord)'
         /\ kind # "install" => (iflag <=> Before("install", optind)' # {})
         /\ kind # "keep-temp" => (clean_temps <=> Before("keep-temp", optind)' = {})
         /\ kind # "info" => infoflag = (IF Before("info", optind) = {} THEN 0
                                          ELSE LastOf(Before("info", optind)) + 1)'
<1>1. PICK i \in 1 .. Len(given) :
        /\ given[i].kind = kind /\ HasArg(i)
        /\ \A k : Before(k, optind)' = Before(k, optind) \cup (IF k = kind THEN {i} ELSE {})
        /\ \A k : k # kind => Latest(Before(k, optind), NoWord)' = Latest(Before(k, optind), NoWord)
  BY OptionTold
<1>2. \A j : HasArg(j)' = HasArg(j) /\ Optarg(j)' = Optarg(j)
  BY SameLine
<1>3. \A k : k # kind => Before(k, optind)' = Before(k, optind)
  BY <1>1
<1>4. Before("help", optind)' = {} /\ Before("invalid", optind)' = {}
  BY <1>3 DEF FlagsInv
<1>5. \A j \in Before("root", optind)' : HasArg(j)'
  <2>1. \A j \in Before("root", optind) \cup {i} : HasArg(j)
    BY <1>1 DEF FlagsInv
  <2>2. Before("root", optind)' \subseteq Before("root", optind) \cup {i}
    BY <1>1
  <2> QED
    BY <1>2, <2>1, <2>2
<1>6. kind # "package" =>
        /\ \A j \in Before("package", optind)' : HasArg(j)' /\ Optarg(j)' \in Files
        /\ archive = Latest(Before("package", optind), NoWord)'
  BY <1>1, <1>2, <1>3 DEF FlagsInv
<1>7. kind # "root" => prefix = Latest(Before("root", optind), NoWord)'
  BY <1>1 DEF FlagsInv
<1>8. /\ kind # "install" => (iflag <=> Before("install", optind)' # {})
      /\ kind # "keep-temp" => (clean_temps <=> Before("keep-temp", optind)' = {})
  BY <1>3 DEF FlagsInv
<1>9. kind # "info" => infoflag = (IF Before("info", optind) = {} THEN 0
                                    ELSE LastOf(Before("info", optind)) + 1)'
  <2> SUFFICES ASSUME kind # "info"
               PROVE  infoflag = (IF Before("info", optind) = {} THEN 0
                                  ELSE LastOf(Before("info", optind)) + 1)'
    OBVIOUS
  <2>1. Before("info", optind)' = Before("info", optind)
    BY <1>3
  <2>2. LastOf(Before("info", optind))' = LastOf(Before("info", optind))
    BY <2>1 DEF LastOf
  <2>3. infoflag = IF Before("info", optind) = {} THEN 0 ELSE LastOf(Before("info", optind)) + 1
    BY DEF FlagsInv
  <2> QED
    BY <2>1, <2>2, <2>3
<1> QED
  BY <1>4, <1>5, <1>6, <1>7, <1>8, <1>9

LEMMA PackageKeeps ==
  ASSUME ParseInv, PackageOption
  PROVE  ParseInv'
<1>1. /\ ParseTyped /\ PositionInv /\ FlagsInv
      /\ Getopt("package") /\ given' = given /\ main = "parsing"
  BY DEF ParseInv, PackageOption, Getopt
<1>2. PICK i \in 1 .. Len(given) :
        /\ i = FirstOption /\ given[i].kind = "package" /\ HasArg(i) /\ i \in Options("package")
        /\ Before("package", optind)' = Before("package", optind) \cup {i}
        /\ Latest(Before("package", optind), NoWord)' = Optarg(i)
  BY <1>1, OptionTold
<1>3. /\ opts' \in Seq(GivenWords) /\ plain' \in Seq(GivenWords)
      /\ optind' \in 1 .. Len(given) + 1 /\ PositionInv'
  BY <1>1, OptionRead
<1>4. /\ archive' = Optarg(i) /\ main' = (IF archive' \in Files THEN main ELSE "exited")
      /\ UNCHANGED <<given, iflag, clean_temps, infoflag, prefix>>
  BY <1>2 DEF PackageOption
<1>5. archive' \in Texts
  BY <1>1, <1>2, <1>4, OptargText DEF ParseTyped, Needs
<1>6. ParseTyped'
  BY <1>1, <1>3, <1>4, <1>5 DEF ParseTyped
<1>7. main' = "parsing" => FlagsInv'
  <2> SUFFICES ASSUME main' = "parsing" PROVE FlagsInv'
    OBVIOUS
  <2>1. \A j \in Before("package", optind)' : HasArg(j)' /\ Optarg(j)' \in Files
    <3>1. Optarg(i) \in Files
      BY <1>1, <1>4
    <3>2. \A j : HasArg(j)' = HasArg(j) /\ Optarg(j)' = Optarg(j)
      BY <1>1, SameLine
    <3> QED
      BY <1>1, <1>2, <3>1, <3>2 DEF FlagsInv
  <2>2. archive' = Latest(Before("package", optind), NoWord)'
    BY <1>2, <1>4
  <2> QED
    BY <1>1, <1>4, <2>1, <2>2, OthersTold DEF FlagsInv, Kinds
<1>8. main' = "exited" => Fatal'
  BY <1>1, <1>2, <1>4, SameFatal DEF Fatal
<1> QED
  BY <1>1, <1>3, <1>4, <1>6, <1>7, <1>8 DEF ParseInv, ParsedAsGiven, InfoWordKept

LEMMA RootKeeps ==
  ASSUME ParseInv, RootOption
  PROVE  ParseInv'
<1>1. /\ ParseTyped /\ PositionInv /\ FlagsInv
      /\ Getopt("root") /\ given' = given /\ main = "parsing"
  BY DEF ParseInv, RootOption, Getopt
<1>2. PICK i \in 1 .. Len(given) :
        /\ i = FirstOption /\ given[i].kind = "root" /\ HasArg(i)
        /\ Latest(Before("root", optind), NoWord)' = Optarg(i)
  BY <1>1, OptionTold
<1>3. /\ opts' \in Seq(GivenWords) /\ plain' \in Seq(GivenWords)
      /\ optind' \in 1 .. Len(given) + 1 /\ PositionInv'
  BY <1>1, OptionRead
<1>4. prefix' = Optarg(i) /\ UNCHANGED <<given, main, iflag, clean_temps, infoflag, archive>>
  BY <1>2 DEF RootOption
<1>5. prefix' \in Texts
  BY <1>1, <1>2, <1>4, OptargText DEF ParseTyped, Needs
<1>6. ParseTyped'
  BY <1>1, <1>3, <1>4, <1>5 DEF ParseTyped
<1>7. FlagsInv'
  BY <1>1, <1>2, <1>4, OthersTold DEF FlagsInv, Kinds
<1> QED
  BY <1>1, <1>3, <1>4, <1>6, <1>7 DEF ParseInv, ParsedAsGiven, InfoWordKept

LEMMA InstallKeeps ==
  ASSUME ParseInv, InstallOption
  PROVE  ParseInv'
<1>1. /\ ParseTyped /\ PositionInv /\ FlagsInv
      /\ Getopt("install") /\ given' = given /\ main = "parsing"
  BY DEF ParseInv, InstallOption, Getopt
<1>2. Before("install", optind)' # {}
  BY <1>1, OptionTold
<1>3. /\ opts' \in Seq(GivenWords) /\ plain' \in Seq(GivenWords)
      /\ optind' \in 1 .. Len(given) + 1 /\ PositionInv'
  BY <1>1, OptionRead
<1>4. iflag' = TRUE /\ UNCHANGED <<given, main, clean_temps, infoflag, archive, prefix>>
  BY DEF InstallOption
<1>5. ParseTyped'
  BY <1>1, <1>3, <1>4 DEF ParseTyped
<1>6. FlagsInv'
  BY <1>1, <1>2, <1>4, OthersTold DEF FlagsInv, Kinds
<1> QED
  BY <1>1, <1>3, <1>4, <1>5, <1>6 DEF ParseInv, ParsedAsGiven, InfoWordKept

LEMMA KeepTempKeeps ==
  ASSUME ParseInv, KeepTempOption
  PROVE  ParseInv'
<1>1. /\ ParseTyped /\ PositionInv /\ FlagsInv
      /\ Getopt("keep-temp") /\ given' = given /\ main = "parsing"
  BY DEF ParseInv, KeepTempOption, Getopt
<1>2. Before("keep-temp", optind)' # {}
  BY <1>1, OptionTold
<1>3. /\ opts' \in Seq(GivenWords) /\ plain' \in Seq(GivenWords)
      /\ optind' \in 1 .. Len(given) + 1 /\ PositionInv'
  BY <1>1, OptionRead
<1>4. clean_temps' = FALSE /\ UNCHANGED <<given, main, iflag, infoflag, archive, prefix>>
  BY DEF KeepTempOption
<1>5. ParseTyped'
  BY <1>1, <1>3, <1>4 DEF ParseTyped
<1>6. FlagsInv'
  BY <1>1, <1>2, <1>4, OthersTold DEF FlagsInv, Kinds
<1> QED
  BY <1>1, <1>3, <1>4, <1>5, <1>6 DEF ParseInv, ParsedAsGiven, InfoWordKept

LEMMA InfoKeeps ==
  ASSUME ParseInv, InfoOption
  PROVE  ParseInv'
<1>1. /\ ParseTyped /\ PositionInv /\ FlagsInv
      /\ Getopt("info") /\ given' = given /\ main = "parsing"
  BY DEF ParseInv, InfoOption, Getopt
<1>2. PICK i \in 1 .. Len(given) :
        /\ i = FirstOption /\ given[i].kind = "info"
        /\ optind' = (IF TakesNext(i) THEN i + 2 ELSE i + 1)
        /\ Before("info", optind)' = Before("info", optind) \cup {i}
        /\ LastOf(Before("info", optind)') = i
  BY <1>1, OptionTold
<1>3. /\ opts' \in Seq(GivenWords) /\ plain' \in Seq(GivenWords)
      /\ optind' \in 1 .. Len(given) + 1 /\ PositionInv'
  BY <1>1, OptionRead
<1>4. infoflag' = optind' /\ UNCHANGED <<given, main, iflag, clean_temps, archive, prefix>>
  BY DEF InfoOption
<1>5. ~TakesNext(i) /\ infoflag' = i + 1
  BY <1>2, <1>4 DEF TakesNext, Needs
<1>6. ParseTyped'
  BY <1>1, <1>3, <1>4 DEF ParseTyped
<1>7. FlagsInv'
  <2>1. Before("info", optind)' # {} /\ LastOf(Before("info", optind))' = i
    BY <1>2 DEF LastOf
  <2>2. infoflag' = (IF Before("info", optind) = {} THEN 0
                     ELSE LastOf(Before("info", optind)) + 1)'
    BY <1>5, <2>1
  <2> QED
    BY <1>1, <1>4, <2>2, OthersTold DEF FlagsInv, Kinds
<1> QED
  BY <1>1, <1>3, <1>4, <1>6, <1>7 DEF ParseInv, ParsedAsGiven, InfoWordKept

LEMMA LeaveKeeps ==
  ASSUME ParseInv, Leave
  PROVE  ParseInv'
<1>1. /\ ParseTyped /\ PositionInv /\ UNCHANGED <<given, optind, opts, plain, iflag, clean_temps, infoflag, archive, prefix>>
      /\ main' = "exited" /\ FirstOption <= Len(given)
      /\ given[FirstOption].kind \in {"help", "invalid"} \/ ~HasArg(FirstOption)
  BY DEF ParseInv, Leave
<1>2. PICK i : i = FirstOption
  OBVIOUS
<1>3. i \in 1 .. Len(given)
  BY <1>1, <1>2, FirstOptionIs DEF ParseTyped
<1>4. ParseTyped'
  BY <1>1 DEF ParseTyped
<1>5. Roles[i] = IF given[i].kind = "--" THEN "stop" ELSE "option"
  BY <1>1, <1>2, RolesAhead
<1>6. given[i].kind \in {"help", "invalid", "package", "root"}
  BY <1>1, <1>2 DEF HasArg, TakesNext, Needs
<1>7. i \in Options(given[i].kind)
  BY <1>3, <1>5, <1>6 DEF Options
<1>8. Fatal
  BY <1>1, <1>2, <1>6, <1>7 DEF Fatal
<1>9. Fatal'
  BY <1>1, <1>8, SameFatal
<1> QED
  BY <1>1, <1>4, <1>9 DEF ParseInv, ParsedAsGiven, InfoWordKept

LEMMA TooFewKeeps ==
  ASSUME ParseInv, TooFew
  PROVE  ParseInv'
<1>1. ParseTyped /\ given = <<>> /\ main' = "exited"
        /\ UNCHANGED <<given, optind, opts, plain, iflag, clean_temps, infoflag, archive, prefix>>
  BY DEF ParseInv, TooFew
<1>2. ParseTyped'
  BY <1>1 DEF ParseTyped
<1> QED
  BY <1>1, <1>2 DEF ParseInv, ParsedAsGiven, InfoWordKept, Fatal

LEMMA LastOfIs ==
  ASSUME NEW n \in Nat, NEW S, S \subseteq 1 .. n, S # {}
  PROVE  LastOf(S) \in S /\ \A j \in S : j <= LastOf(S)
<1> DEFINE T == {m \in Nat : n - m \in S}
<1>1. T \subseteq Nat /\ T # {}
  <2>1. PICK j \in S : TRUE
    OBVIOUS
  <2>2. n - j \in Nat /\ n - (n - j) = j
    OBVIOUS
  <2> QED
    BY <2>1, <2>2
<1>2. PICK m \in T : \A k \in T : m <= k
  BY <1>1, Smallest
<1>3. ASSUME NEW j \in S PROVE j <= n - m
  <2>1. n - j \in Nat /\ n - (n - j) = j
    OBVIOUS
  <2>2. m <= n - j
    BY <1>2, <2>1
  <2> QED
    BY <1>2, <2>2
<1>4. \E k \in S : \A j \in S : j <= k
  BY <1>2, <1>3
<1> QED
  BY <1>4 DEF LastOf

LEMMA RestIsPlain ==
  ASSUME Len(given) \in Nat, NEW i \in 1 .. Len(given), Roles[i] = "stop"
  PROVE  \A j \in i + 1 .. Len(given) : Roles[j] = "rest"
<1> DEFINE T == {j \in i + 1 .. Len(given) : Roles[j] # "rest"}
<1> SUFFICES ASSUME T # {} PROVE FALSE
  OBVIOUS
<1>1. T \subseteq Nat
  OBVIOUS
<1>2. PICK j \in T : \A m \in T : j <= m
  BY <1>1, Smallest
<1>3. Roles[j] = RoleAt(Roles, j) /\ Roles[j] # "rest" /\ j > 1 /\ j - 1 \in i .. Len(given)
  BY RolesWritten
<1>4. Roles[j - 1] \in {"stop", "rest"}
  <2>1. CASE j - 1 = i
    BY <2>1
  <2>2. CASE j - 1 # i
    BY <1>2, <1>3, <2>2
  <2> QED
    BY <2>1, <2>2
<1> QED
  BY <1>3, <1>4 DEF RoleAt

(* Where the loop ends every word has played its part. *)
LEMMA EndRoles ==
  ASSUME ParseTyped, PositionInv, NEW i, i = FirstOption,
         i <= Len(given) => given[i].kind = "--"
  PROVE  /\ i \in optind .. Len(given) + 1
         /\ \A j \in 1 .. Len(given) : Roles[j] \in {"option", "argument"} => j < optind
         /\ \A kind : Options(kind) = Before(kind, optind)
         /\ Cardinality({j \in 1 .. Len(given) : Roles[j] \in {"plain", "rest"}})
              = Len(plain) + (i - optind) + (IF i <= Len(given) THEN Len(given) - i ELSE 0)
<1>1. /\ given \in Seq(GivenWords) /\ Len(given) \in Nat /\ optind \in 1 .. Len(given) + 1
      /\ i \in optind .. Len(given) + 1
  BY FirstOptionIs DEF ParseTyped
<1>2. /\ \A j \in optind .. i - 1 : Roles[j] = "plain"
      /\ i <= Len(given) => Roles[i] = "stop"
  BY RolesAhead
<1>3. \A j \in i + 1 .. Len(given) : Roles[j] = "rest"
  <2>1. CASE i <= Len(given)
    BY <1>1, <1>2, <2>1, RestIsPlain
  <2>2. CASE ~(i <= Len(given))
    BY <1>1, <2>2
  <2> QED
    BY <2>1, <2>2
<1>4. \A j \in 1 .. Len(given) : \/ j \in 1 .. optind - 1 \/ j \in optind .. i - 1
                                 \/ j = i \/ j \in i + 1 .. Len(given)
  BY <1>1
<1>5. \A j \in 1 .. Len(given) : Roles[j] \in {"option", "argument"} => j < optind
  BY <1>1, <1>2, <1>3, <1>4
<1>6. \A kind : Options(kind) = Before(kind, optind)
  BY <1>5 DEF Before, Options
<1> DEFINE A == PlainBefore(optind)
           B == A \cup (optind .. i - 1)
           C == {j \in 1 .. Len(given) : Roles[j] \in {"plain", "rest"}}
<1>7. /\ IsFiniteSet(B) /\ Cardinality(B) = Len(plain) + (i - optind)
  <2>1. optind \in Nat /\ i \in Nat /\ optind <= i /\ A \subseteq 1 .. optind - 1
    BY <1>1 DEF PlainBefore
  <2>2. IsFiniteSet(B) /\ Cardinality(B) = Cardinality(A) + (i - optind)
    <3> HIDE DEF A
    <3> QED
      BY <2>1, RunCounted
  <2> QED
    BY <2>2 DEF PositionInv
<1>8. B \subseteq 1 .. i - 1
  BY <1>1 DEF PlainBefore
<1>9. C = B \cup (i + 1 .. Len(given))
  <2>1. ASSUME NEW j \in 1 .. Len(given)
        PROVE  Roles[j] \in {"plain", "rest"} <=> j \in B \cup (i + 1 .. Len(given))
    <3>1. CASE j \in 1 .. optind - 1
      <4>1. j \in B \cup (i + 1 .. Len(given)) <=> j \in A
        BY <1>1, <3>1
      <4> QED
        BY <1>1, <3>1, <4>1 DEF PositionInv, PlainBefore
    <3>2. CASE j \in optind .. i - 1
      BY <1>2, <3>2
    <3>3. CASE j = i
      <4>1. Roles[j] = "stop" /\ j \notin B \cup (i + 1 .. Len(given))
        BY <1>1, <1>2, <1>8, <3>3
      <4> QED
        BY <4>1
    <3>4. CASE j \in i + 1 .. Len(given)
      BY <1>3, <3>4
    <3> QED
      BY <1>4, <3>1, <3>2, <3>3, <3>4
  <2>2. B \cup (i + 1 .. Len(given)) \subseteq 1 .. Len(given)
    BY <1>1, <1>8
  <2> QED
    BY <2>1, <2>2
<1>10. Cardinality(C) = Len(plain) + (i - optind) + (IF i <= Len(given) THEN Len(given) - i ELSE 0)
  <2> HIDE DEF B, C
  <2>1. PICK l \in Nat, k \in Int : l = Len(given) /\ k = i + 1
    BY <1>1
  <2>2. IsFiniteSet(k .. l) /\ Cardinality(k .. l) = IF k > l THEN 0 ELSE l - k + 1
    BY FS_Interval
  <2>3. B \cap (k .. l) = {}
    BY <1>1, <1>8, <2>1
  <2>4. Cardinality(B \cup (k .. l)) = Cardinality(B) + Cardinality(k .. l) - Cardinality(B \cap (k .. l))
    BY <1>7, <2>2, FS_Union
  <2>5. Cardinality(B \cap (k .. l)) = 0
    BY <2>3, FS_EmptySet
  <2>6. PICK b \in Int : b = Cardinality(B) /\ b = Len(plain) + (i - optind)
    <3>1. Len(plain) \in Nat
      BY DEF ParseTyped
    <3>2. Len(plain) + (i - optind) \in Int
      BY <1>1, <3>1
    <3> QED
      BY <1>7, <3>2
  <2>7. Cardinality(k .. l) = IF i <= l THEN l - i ELSE 0
    BY <1>1, <2>1, <2>2
  <2>8. Cardinality(C) = b + Cardinality(k .. l)
    BY <1>9, <2>1, <2>2, <2>4, <2>5, <2>6
  <2> QED
    BY <2>1, <2>6, <2>7, <2>8
<1> QED
  BY <1>1, <1>5, <1>6, <1>10

(* Where the words are when the loop ends. *)
LEMMA EndWords ==
  ASSUME ParseTyped, PositionInv, OptionsEnd, NEW i, i = FirstOption
  PROVE  /\ opts' \in Seq(GivenWords) /\ plain' \in Seq(GivenWords)
         /\ Len(opts') + Len(plain') = Len(given)
         /\ Len(plain') = Len(plain) + (i - optind) + (IF i <= Len(given) THEN Len(given) - i ELSE 0)
         /\ i = Len(given) + 1 =>
              /\ Len(opts' \o plain') = Len(given)
              /\ \A m \in optind .. Len(given) : (opts' \o plain')[m] = given[m]
<1>1. /\ given \in Seq(GivenWords) /\ optind \in 1 .. Len(given) + 1
      /\ opts \in Seq(GivenWords) /\ plain \in Seq(GivenWords)
  BY DEF ParseTyped
<1>2. PICK l \in Nat, o \in Nat, p \in Nat : l = Len(given) /\ o = Len(opts) /\ p = Len(plain)
  BY <1>1
<1>3. o + p = optind - 1 /\ i \in optind .. l + 1 /\ optind \in 1 .. l + 1
  BY <1>1, <1>2, FirstOptionIs DEF PositionInv
<1>4. PICK s \in Seq(GivenWords) :
        /\ s = SubSeq(given, optind, i - 1) /\ Len(s) = i - optind
        /\ \A k \in 1 .. i - optind : s[k] = given[optind + k - 1]
  <2>1. optind \in Int /\ i - 1 \in Int /\ \A j \in optind .. i - 1 : given[j] \in GivenWords
    BY <1>1, <1>2, <1>3
  <2>2. /\ SubSeq(given, optind, i - 1) \in Seq(GivenWords)
        /\ Len(SubSeq(given, optind, i - 1)) = IF optind <= i - 1 THEN i - 1 - optind + 1 ELSE 0
        /\ \A k \in 1 .. i - 1 - optind + 1 : SubSeq(given, optind, i - 1)[k] = given[optind + k - 1]
    BY <2>1, SubSeqProperties
  <2>3. i - 1 - optind + 1 = i - optind /\ (optind <= i - 1 \/ i - optind = 0)
    BY <1>3
  <2>4. Len(SubSeq(given, optind, i - 1)) = i - optind
    BY <2>2, <2>3
  <2>5. \A k \in 1 .. i - optind : SubSeq(given, optind, i - 1)[k] = given[optind + k - 1]
    BY <2>2, <2>3
  <2> QED
    BY <2>2, <2>4, <2>5
<1>5. PICK t \in Seq(GivenWords) :
        /\ t = SubSeq(given, i + 1, Len(given))
        /\ Len(t) = IF i <= l THEN l - i ELSE 0
  <2>1. i + 1 \in Int /\ l \in Int /\ \A j \in i + 1 .. l : given[j] \in GivenWords
    BY <1>1, <1>2, <1>3
  <2>2. /\ SubSeq(given, i + 1, l) \in Seq(GivenWords)
        /\ Len(SubSeq(given, i + 1, l)) = IF i + 1 <= l THEN l - (i + 1) + 1 ELSE 0
    BY <2>1, SubSeqProperties
  <2>3. (IF i + 1 <= l THEN l - (i + 1) + 1 ELSE 0) = IF i <= l THEN l - i ELSE 0
    BY <1>3
  <2>4. SubSeq(given, i + 1, Len(given)) = SubSeq(given, i + 1, l)
    BY <1>2
  <2> QED
    BY <2>2, <2>3, <2>4
<1>6. /\ plain' = (plain \o s) \o t
      /\ opts' = IF i <= Len(given) THEN Append(opts, given[i]) ELSE opts
  BY <1>4, <1>5 DEF OptionsEnd
<1>7. /\ plain \o s \in Seq(GivenWords) /\ Len(plain \o s) = p + (i - optind)
      /\ \A k \in 1 .. i - optind : (plain \o s)[p + k] = s[k]
  <2>1. /\ plain \o s \in Seq(GivenWords) /\ Len(plain \o s) = Len(plain) + Len(s)
        /\ \A k \in 1 .. Len(plain) + Len(s) :
             (plain \o s)[k] = IF k <= Len(plain) THEN plain[k] ELSE s[k - Len(plain)]
    BY <1>1, ConcatProperties
  <2>2. Len(plain) + Len(s) = p + (i - optind)
    BY <1>2, <1>4
  <2>3. ASSUME NEW k \in 1 .. i - optind PROVE (plain \o s)[p + k] = s[k]
    <3>1. p + k \in 1 .. p + (i - optind) /\ ~(p + k <= p) /\ p + k - p = k
      BY <1>3
    <3> QED
      BY <1>2, <2>1, <2>2, <3>1
  <2> QED
    BY <2>1, <2>2, <2>3
<1>8. /\ plain' \in Seq(GivenWords)
      /\ Len(plain') = p + (i - optind) + (IF i <= l THEN l - i ELSE 0)
      /\ \A k \in 1 .. p + (i - optind) : plain'[k] = (plain \o s)[k]
  <2>1. /\ (plain \o s) \o t \in Seq(GivenWords)
        /\ Len((plain \o s) \o t) = Len(plain \o s) + Len(t)
        /\ \A k \in 1 .. Len(plain \o s) + Len(t) : ((plain \o s) \o t)[k] =
              IF k <= Len(plain \o s) THEN (plain \o s)[k] ELSE t[k - Len(plain \o s)]
    BY <1>7, ConcatProperties
  <2>2. PICK a \in Nat, b \in Nat : a = Len(plain \o s) /\ b = Len(t)
    BY <1>7
  <2>3. a = p + (i - optind) /\ b = IF i <= l THEN l - i ELSE 0
    BY <1>5, <1>7, <2>2
  <2>4. \A k \in 1 .. a : k \in 1 .. a + b /\ k <= a
    BY <2>2
  <2>5. \A k \in 1 .. a : ((plain \o s) \o t)[k] = (plain \o s)[k]
    BY <2>1, <2>2, <2>4
  <2> QED
    BY <1>6, <2>1, <2>2, <2>3, <2>5
<1>9. opts' \in Seq(GivenWords) /\ Len(opts') = IF i <= l THEN o + 1 ELSE o
  <2>1. i <= l => given[i] \in GivenWords
    BY <1>1, <1>2, <1>3
  <2> QED
    BY <1>1, <1>2, <1>6, <2>1
<1>10. Len(opts') + Len(plain') = l
  <2>1. CASE i <= l
    <3>1. o + 1 + (p + (i - optind) + (l - i)) = l
      BY <1>3
    <3> QED
      BY <1>8, <1>9, <2>1, <3>1
  <2>2. CASE ~(i <= l)
    <3>1. o + (p + (i - optind) + 0) = l
      BY <1>3, <2>2
    <3> QED
      BY <1>8, <1>9, <2>2, <3>1
  <2> QED
    BY <2>1, <2>2
<1>11. ASSUME i = l + 1
       PROVE  /\ Len(opts' \o plain') = l
              /\ \A m \in optind .. l : (opts' \o plain')[m] = given[m]
  <2>1. ~(i <= l) /\ opts' = opts
    BY <1>2, <1>6, <1>11
  <2>2. /\ Len(opts' \o plain') = Len(opts') + Len(plain')
        /\ \A k \in 1 .. Len(opts') + Len(plain') : (opts' \o plain')[k] =
              IF k <= Len(opts') THEN opts'[k] ELSE plain'[k - Len(opts')]
    BY <1>8, <1>9, ConcatProperties
  <2>3. ASSUME NEW m \in optind .. l PROVE (opts' \o plain')[m] = given[m]
    <3>1. PICK k : k = m - (optind - 1)
      OBVIOUS
    <3>2. /\ k \in 1 .. i - optind /\ m - o = p + k /\ optind + k - 1 = m
          /\ ~(m <= o) /\ m \in 1 .. l /\ p + k \in 1 .. p + (i - optind)
      BY <1>3, <1>11, <3>1
    <3>3. (opts' \o plain')[m] = plain'[m - Len(opts')]
      BY <1>2, <1>10, <2>1, <2>2, <3>2
    <3>4. plain'[m - Len(opts')] = plain'[p + k]
      BY <1>2, <2>1, <3>2
    <3>5. plain'[p + k] = s[k]
      BY <1>7, <1>8, <3>2
    <3>6. s[k] = given[m]
      BY <1>4, <3>2
    <3> QED
      BY <3>3, <3>4, <3>5, <3>6
  <2> QED
    BY <1>10, <2>2, <2>3
<1> QED
  BY <1>2, <1>8, <1>9, <1>10, <1>11

(* The prefix is the one of the last --root, or none was given. *)
LEMMA RootIsTold ==
  ASSUME given \in Seq(GivenWords), FlagsInv, Options("root") = Before("root", optind)
  PROVE  Wanted("root", Slash) = IF prefix = NoWord THEN Slash ELSE prefix
<1> DEFINE S == Options("root")
<1>1. prefix = IF S = {} THEN NoWord ELSE Optarg(LastOf(S))
  BY DEF FlagsInv, Latest
<1>2. CASE S = {}
  BY <1>1, <1>2 DEF Wanted
<1>3. CASE S # {}
  <2>1. LastOf(S) \in S
    <3>1. Len(given) \in Nat /\ S \subseteq 1 .. Len(given)
      BY DEF Options
    <3> HIDE DEF S
    <3> QED
      BY <1>3, <3>1, LastOfIs
  <2>2. LastOf(S) \in 1 .. Len(given) /\ Needs(given[LastOf(S)]) /\ HasArg(LastOf(S))
    BY <2>1 DEF Options, Needs, FlagsInv
  <2>3. prefix # NoWord
    BY <1>1, <1>3, <2>2, OptargText
  <2> QED
    BY <1>1, <1>3, <2>3 DEF Wanted
<1> QED
  BY <1>2, <1>3

(* With only plain words behind it the last --info is the last option read. *)
LEMMA InfoIsLast ==
  ASSUME ParseTyped, PositionInv, NEW i, i = FirstOption,
         Options("info") = Before("info", optind), Options("info") # {},
         \A j \in LastOf(Options("info")) + 1 .. Len(given) : Roles[j] = "plain"
  PROVE  optind = LastOf(Options("info")) + 1 /\ i = Len(given) + 1
<1>1. /\ Len(given) \in Nat /\ optind \in 1 .. Len(given) + 1
      /\ i \in optind .. Len(given) + 1
  BY FirstOptionIs DEF ParseTyped
<1>2. PICK k : k = LastOf(Options("info"))
  OBVIOUS
<1>3. k \in Options("info")
  BY <1>1, <1>2, LastOfIs DEF Options
<1>4. k \in 1 .. Len(given) /\ k < optind
  BY <1>3 DEF Before, Options
<1>5. optind = k + 1
  <2> SUFFICES ASSUME optind # k + 1 PROVE FALSE
    OBVIOUS
  <2>1. optind - 1 \in k + 1 .. Len(given) /\ optind > 1
    BY <1>1, <1>4
  <2>2. Roles[optind - 1] = "plain" /\ Roles[optind - 1] \in {"option", "argument"}
    BY <1>2, <2>1 DEF PositionInv
  <2> QED
    BY <2>2
<1>6. i = Len(given) + 1
  <2> SUFFICES ASSUME i <= Len(given) PROVE FALSE
    BY <1>1
  <2>1. Roles[i] \in {"stop", "option"}
    BY RolesAhead
  <2>2. i \in k + 1 .. Len(given)
    BY <1>1, <1>5
  <2> QED
    BY <1>2, <2>1, <2>2
<1> QED
  BY <1>2, <1>5, <1>6

LEMMA OptionsEndKeeps ==
  ASSUME ParseInv, OptionsEnd
  PROVE  ParseInv'
<1>1. ParseTyped /\ PositionInv /\ FlagsInv /\ main = "parsing" /\ given # <<>>
  BY DEF ParseInv, OptionsEnd
<1>2. PICK i : i = FirstOption
  OBVIOUS
<1>3. /\ i <= Len(given) => given[i].kind = "--"
      /\ optind' = Len(opts') + 1
      /\ prefix' = (IF prefix = NoWord THEN Slash ELSE prefix)
      /\ main' = (IF prefix' \in Files THEN "mpkg" ELSE "exited")
      /\ UNCHANGED <<given, iflag, clean_temps, infoflag, archive>>
  BY <1>2 DEF OptionsEnd
<1>4. /\ \A kind : Options(kind) = Before(kind, optind)
      /\ Cardinality({j \in 1 .. Len(given) : Roles[j] \in {"plain", "rest"}})
           = Len(plain) + (i - optind) + (IF i <= Len(given) THEN Len(given) - i ELSE 0)
  BY <1>1, <1>2, <1>3, EndRoles
<1>5. /\ opts' \in Seq(GivenWords) /\ plain' \in Seq(GivenWords)
      /\ Len(opts') + Len(plain') = Len(given)
      /\ Len(plain') = Len(plain) + (i - optind) + (IF i <= Len(given) THEN Len(given) - i ELSE 0)
  BY <1>1, <1>2, EndWords
<1>6. ParseTyped'
  <2>1. given' \in Seq(GivenWords) /\ infoflag' \in 0 .. Len(given') + 1
    BY <1>1, <1>3 DEF ParseTyped
  <2>2. prefix' \in Texts \cup {NoWord} /\ archive' \in Texts \cup {NoWord}
    BY <1>1, <1>3, TextAssumption DEF ParseTyped
  <2>3. optind' \in 1 .. Len(given') + 1
    <3>1. PICK m \in Nat, n \in Nat, l \in Nat : m = Len(opts') /\ n = Len(plain') /\ l = Len(given)
      BY <1>1, <1>5 DEF ParseTyped
    <3>2. m + n = l /\ m + 1 \in 1 .. l + 1
      BY <1>5, <3>1
    <3> QED
      BY <1>3, <3>1, <3>2
  <2>4. iflag' \in BOOLEAN /\ clean_temps' \in BOOLEAN /\ main' \in {"parsing", "exited", "mpkg"}
    BY <1>1, <1>3 DEF ParseTyped
  <2> QED
    BY <1>5, <2>1, <2>2, <2>3, <2>4 DEF ParseTyped
<1>7. Wanted("root", Slash) = prefix'
  BY <1>1, <1>3, <1>4, RootIsTold DEF ParseTyped
<1>8. main' = "exited" => Fatal'
  <2>1. main' = "exited" => Fatal
    BY <1>3, <1>7 DEF Fatal
  <2> QED
    BY <1>3, <2>1, SameFatal
<1>9. main' = "mpkg" => ~Fatal
  BY <1>1, <1>3, <1>4, <1>7 DEF FlagsInv, Fatal
<1>10. /\ iflag = (Options("install") # {})
       /\ clean_temps = (Options("keep-temp") = {})
       /\ archive = Wanted("package", NoWord)
       /\ infoflag > 0 <=> Options("info") # {}
  <2>1. (iflag <=> Options("install") # {}) /\ (clean_temps <=> Options("keep-temp") = {})
    BY <1>1, <1>4 DEF FlagsInv
  <2>2. iflag \in BOOLEAN /\ clean_temps \in BOOLEAN
    BY <1>1 DEF ParseTyped
  <2>3. iflag = (Options("install") # {}) /\ clean_temps = (Options("keep-temp") = {})
    BY <2>1, <2>2
  <2>4. archive = Wanted("package", NoWord)
    BY <1>1, <1>4 DEF FlagsInv, Latest, Wanted
  <2>5. infoflag > 0 <=> Options("info") # {}
    <3>1. Options("info") # {} => LastOf(Options("info")) \in Nat
      <4> SUFFICES ASSUME Options("info") # {} PROVE LastOf(Options("info")) \in Nat
        OBVIOUS
      <4>1. Len(given) \in Nat /\ Options("info") \subseteq 1 .. Len(given)
        BY <1>1 DEF ParseTyped, Options
      <4>2. LastOf(Options("info")) \in Options("info")
        BY <4>1, LastOfIs
      <4> QED
        BY <4>1, <4>2
    <3> QED
      BY <1>1, <1>4, <3>1 DEF FlagsInv
  <2> QED
    BY <2>3, <2>4, <2>5
<1>11. main' = "mpkg" => ParsedAsGiven'
  <2> SUFFICES ASSUME main' = "mpkg" PROVE ParsedAsGiven'
    OBVIOUS
  <2>1. ~Fatal' /\ \A kind, d : Wanted(kind, d)' = Wanted(kind, d)
    BY <1>3, <1>9, SameFatal
  <2>2. Roles' = Roles /\ \A kind : Options(kind)' = Options(kind)
    BY <1>3, SameLine
  <2>3. iflag' = (Options("install")' # {}) /\ clean_temps' = (Options("keep-temp")' = {})
    BY <1>3, <1>10, <2>2
  <2>4. archive' = Wanted("package", NoWord)' /\ prefix' = Wanted("root", Slash)'
    BY <1>3, <1>7, <1>10, <2>1
  <2>5. infoflag' > 0 <=> Options("info")' # {}
    BY <1>3, <1>10, <2>2
  <2>6. Len(opts') + Len(plain') = Len(given')
    BY <1>3, <1>5
  <2>7. Len(plain') = Cardinality({j \in 1 .. Len(given') : Roles'[j] \in {"plain", "rest"}})
    BY <1>3, <1>4, <1>5, <2>2
  <2> QED
    BY <2>1, <2>3, <2>4, <2>5, <2>6, <2>7 DEF ParsedAsGiven
<1>12. InfoWordKept'
  <2> SUFFICES ASSUME Options("info") # {},
                      \A j \in LastOf(Options("info")) + 1 .. Len(given) : Roles[j] = "plain",
                      NEW k, k = LastOf(Options("info"))
               PROVE  Argv(infoflag)' = IF k < Len(given) THEN Text(given[k + 1]) ELSE NoWord
    <3>1. Roles' = Roles /\ Options("info")' = Options("info") /\ given' = given
      BY <1>3, SameLine
    <3>2. LastOf(Options("info"))' = LastOf(Options("info"))
      BY <3>1 DEF LastOf
    <3> QED
      BY <3>1, <3>2 DEF InfoWordKept, Text
  <2>1. optind = k + 1 /\ i = Len(given) + 1
    BY <1>1, <1>2, <1>4, InfoIsLast
  <2>2. k \in 1 .. Len(given) /\ Len(given) \in Nat
    <3>1. Len(given) \in Nat /\ Options("info") \subseteq 1 .. Len(given)
      BY <1>1 DEF ParseTyped, Options
    <3> QED
      BY <3>1, LastOfIs
  <2>3. infoflag' = k + 1
    BY <1>1, <1>3, <1>4 DEF FlagsInv
  <2>4. /\ Len(opts' \o plain') = Len(given)
        /\ \A m \in optind .. Len(given) : (opts' \o plain')[m] = given[m]
    BY <1>1, <1>2, <2>1, EndWords
  <2>5. Argv(infoflag)' = IF k + 1 <= Len(given) THEN Text((opts' \o plain')[k + 1]) ELSE NoWord
    BY <2>3, <2>4 DEF Argv, Text
  <2> QED
    BY <2>1, <2>2, <2>4, <2>5
<1>13. main' \in {"mpkg", "exited"}
  BY <1>3
<1>14. main' = "exited" => ParsedAsGiven'
  BY <1>8 DEF ParsedAsGiven
<1> QED
  BY <1>6, <1>11, <1>12, <1>13, <1>14 DEF ParseInv

(* No step of the loop loses what it has been told. *)
LEMMA ParseKeeps ==
  ASSUME ParseInv, ParseNext
  PROVE  ParseInv'
BY PackageKeeps, RootKeeps, InstallKeeps, KeepTempKeeps, InfoKeeps, LeaveKeeps, TooFewKeeps,
   OptionsEndKeeps DEF ParseNext

LEMMA ParseStarts ==
  ASSUME NEW words \in Seq(GivenWords), ParseInit(words)
  PROVE  ParseInv
<1>1. /\ given \in Seq(GivenWords) /\ Len(given) \in Nat /\ optind = 1 /\ opts = <<>> /\ plain = <<>>
      /\ main = "parsing" /\ iflag = FALSE /\ clean_temps = TRUE /\ infoflag = 0
      /\ archive = NoWord /\ prefix = NoWord
  BY DEF ParseInit
<1>2. ParseTyped
  <2>1. opts \in Seq(GivenWords) /\ plain \in Seq(GivenWords) /\ given \in Seq(GivenWords)
    BY <1>1
  <2>2. optind \in 1 .. Len(given) + 1 /\ infoflag \in 0 .. Len(given) + 1
    BY <1>1
  <2> QED
    BY <1>1, <2>1, <2>2 DEF ParseTyped
<1>3. \A kind : Before(kind, optind) = {}
  BY <1>1 DEF Before, Options
<1>4. FlagsInv
  BY <1>1, <1>3 DEF FlagsInv, Latest
<1>5. PositionInv
  <2>1. PlainBefore(optind) = {}
    BY <1>1 DEF PlainBefore
  <2>2. Len(plain) = Cardinality(PlainBefore(optind))
    BY <1>1, <2>1, FS_EmptySet
  <2>3. Len(opts) + Len(plain) = optind - 1 /\ ~(optind > 1) /\ 1 .. optind - 1 = {}
    BY <1>1
  <2> QED
    BY <2>2, <2>3 DEF PositionInv
<1> QED
  BY <1>1, <1>2, <1>4, <1>5 DEF ParseInv, ParsedAsGiven, InfoWordKept
=============================================================================
