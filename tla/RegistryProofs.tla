---------------------------- MODULE RegistryProofs ----------------------------
(***************************************************************************)
(* Proofs about Registry, for any packages, numbers, width of int, callers  *)
(* and rows, with calls in any interleaving that may be killed.             *)
(*                                                                         *)
(* TypeOK and RowNamed are kept together with Knows(c), what a caller has   *)
(* found so far: its number is that of its name or -1, by what it missed,   *)
(* and what it is told stays true while rows are added.                     *)
(***************************************************************************)
EXTENDS Registry, WellFoundedInduction, TLAPS

Misses == {"no", "unknown", "busy"}
Rows   == [pkgID : Int, of : Names, missed : Misses]

(* The row that a caller is told of, by its place. *)
ToldRight(c, i) ==
  missed[c] = "no" /\ InInt(str[c]) =>
    /\ installed[i].missed = "no" /\ AsInt(pkgID[installed[i].of]) = pkgID[str[c]]
    /\ InInt(installed[i].of) => installed[i].of = str[c]
    /\ \A j \in 1 .. i - 1 : ~(installed[j].of = str[c] /\ installed[j].missed = "no")

NotBefore(c) ==
  \A i \in 1 .. before[c] : ~(installed[i].of = str[c] /\ installed[i].missed = "no")

Knows(c) ==
  /\ pc[c] \in Ops \cup {"idle"} => missed[c] = "no" /\ pkg_id[c] = -1
  /\ pc[c] \in {"select", "insert", "commit"} =>
       pkg_id[c] = IF missed[c] = "no" THEN AsInt(pkgID[str[c]]) ELSE -1
  /\ before[c] <= Len(installed)
  /\ pc[c] = "told" =>
       /\ reply[c] = -1 => (missed[c] = "no" => NotBefore(c))
       /\ reply[c] # -1 => reply[c] \in 1 .. Len(installed) /\ ToldRight(c, reply[c])

RegInv == TypeOK /\ RowNamed /\ \A c \in Callers : Knows(c)

-----------------------------------------------------------------------------
LEMMA AsIntIsInt == \A x \in Names : AsInt(pkgID[x]) \in Int
<1> SUFFICES ASSUME NEW x \in Names PROVE AsInt(pkgID[x]) \in Int
  OBVIOUS
<1>1. PICK n \in Nat, h \in Nat \ {0} : n = pkgID[x] /\ h = HalfInt
  BY NumberAssumption
<1>2. (n + h) % (2 * h) \in Int
  <2>1. n + h \in Int /\ 2 * h \in Nat /\ 2 * h > 0
    OBVIOUS
  <2> QED
    BY <2>1
<1> QED
  BY <1>1, <1>2 DEF AsInt

(* A number that fits an int is not changed. *)
LEMMA AsIntExact ==
  ASSUME NEW x \in Names, InInt(x)
  PROVE  AsInt(pkgID[x]) = pkgID[x]
<1>1. PICK n \in Nat, h \in Nat \ {0} : n = pkgID[x] /\ h = HalfInt
  BY NumberAssumption
<1>2. n < h
  BY <1>1 DEF InInt
<1>3. (n + h) % (2 * h) = n + h
  <2>1. PICK a \in Nat, b \in Nat : a = n + h /\ b = 2 * h
    OBVIOUS
  <2>2. a < b /\ b > 0
    BY <1>2, <2>1
  <2>3. a % b = a
    BY <2>2
  <2> QED
    BY <2>1, <2>3
<1> QED
  BY <1>1, <1>3 DEF AsInt

(* What the scan of is_installed() comes to. *)
LEMMA RowOfFirst ==
  ASSUME NEW id, Len(installed) \in Nat
  PROVE  /\ RowOf(id) \in 0 .. Len(installed)
         /\ RowOf(id) = 0 => \A j \in 1 .. Len(installed) : installed[j].pkgID # id
         /\ RowOf(id) # 0 => /\ installed[RowOf(id)].pkgID = id
                            /\ \A j \in 1 .. RowOf(id) - 1 : installed[j].pkgID # id
<1> DEFINE hits == {i \in 1 .. Len(installed) : installed[i].pkgID = id}
           Is(i) == /\ i > 0 => installed[i].pkgID = id
                    /\ \A j \in 1 .. IF i = 0 THEN Len(installed) ELSE i - 1 : installed[j].pkgID # id
<1>1. \E i \in 0 .. Len(installed) : Is(i)
  <2>1. CASE hits = {}
    <3>1. Is(0)
      BY <2>1
    <3> QED
      BY <3>1
  <2>2. CASE hits # {}
    <3>1. hits \subseteq Nat /\ hits \subseteq 1 .. Len(installed)
      OBVIOUS
    <3>2. PICK i \in hits : \A j \in hits : ~(<<j, i>> \in OpToRel(<, Nat))
      BY <2>2, <3>1, WFMin, NatLessThanWellFounded
    <3>3. \A j \in hits : ~(j < i)
      BY <3>1, <3>2 DEF OpToRel
    <3>4. i \in 1 .. Len(installed) /\ installed[i].pkgID = id
      OBVIOUS
    <3>5. \A j \in 1 .. i - 1 : installed[j].pkgID # id
      <4> SUFFICES ASSUME NEW j \in 1 .. i - 1, installed[j].pkgID = id PROVE FALSE
        OBVIOUS
      <4>1. j \in hits /\ j < i
        BY <3>4
      <4> QED
        BY <3>3, <4>1
    <3>6. Is(i)
      BY <3>4, <3>5
    <3> QED
      BY <3>4, <3>6
  <2> QED
    BY <2>1, <2>2
<1>2. RowOf(id) = CHOOSE i \in 0 .. Len(installed) : Is(i)
  BY DEF RowOf
<1>3. RowOf(id) \in 0 .. Len(installed) /\ Is(RowOf(id))
  BY <1>1, <1>2
<1> QED
  BY <1>3

-----------------------------------------------------------------------------
(***************************************************************************)
(* What a caller knows is not touched by a step of another one, which may   *)
(* add a row.                                                               *)
(***************************************************************************)
Grows == /\ installed \in Seq(Rows)
         /\ \/ UNCHANGED installed
            \/ \E row \in Rows : installed' = Append(installed, row)

LEMMA KnowsKept ==
  ASSUME NEW c \in Callers, Knows(c), Grows, before[c] \in Nat,
         pc'[c] = pc[c], str'[c] = str[c], pkg_id'[c] = pkg_id[c], reply'[c] = reply[c],
         missed'[c] = missed[c], before'[c] = before[c]
  PROVE  Knows(c)'
<1>1. /\ Len(installed) \in Nat /\ Len(installed') \in Nat /\ Len(installed) <= Len(installed')
      /\ \A i \in 1 .. Len(installed) : installed'[i] = installed[i]
  <2> HIDE DEF Rows
  <2> QED
    BY DEF Grows
<1>2. before[c] <= Len(installed)
  BY DEF Knows
<1>3. NotBefore(c) => NotBefore(c)'
  BY <1>1, <1>2 DEF NotBefore
<1>4. ASSUME NEW i \in 1 .. Len(installed), i = reply[c], ToldRight(c, i)
      PROVE  ToldRight(c, reply[c])'
  <2>1. installed'[i] = installed[i] /\ \A j \in 1 .. i - 1 : installed'[j] = installed[j]
    BY <1>1
  <2>2. missed'[c] = missed[c] /\ str'[c] = str[c] /\ reply'[c] = i
    BY <1>4
  <2> QED
    BY <1>4, <2>1, <2>2 DEF ToldRight, InInt, AsInt
<1>5. pc[c] = "told" =>
        /\ reply[c] = -1 => (missed[c] = "no" => NotBefore(c))
        /\ reply[c] # -1 => reply[c] \in 1 .. Len(installed) /\ ToldRight(c, reply[c])
  BY DEF Knows
<1>6. pc'[c] = "told" =>
        /\ reply'[c] = -1 => (missed'[c] = "no" => NotBefore(c)')
        /\ reply'[c] # -1 => reply'[c] \in 1 .. Len(installed') /\ ToldRight(c, reply[c])'
  BY <1>1, <1>3, <1>4, <1>5
<1>7. before'[c] <= Len(installed')
  BY <1>1, <1>2
<1>8. /\ pc'[c] \in Ops \cup {"idle"} => missed'[c] = "no" /\ pkg_id'[c] = -1
      /\ pc'[c] \in {"select", "insert", "commit"} =>
           pkg_id'[c] = IF missed'[c] = "no" THEN AsInt(pkgID[str'[c]]) ELSE -1
  BY DEF Knows
<1> QED
  BY <1>6, <1>7, <1>8 DEF Knows

(* A caller whose call has returned knows nothing. *)
LEMMA ReturnKeeps ==
  ASSUME RegInv, NEW c \in Callers, pc[c] # "idle", Return(c), Grows,
         writer' = IF writer = c THEN NoCaller ELSE writer, UNCHANGED all_pkgs
  PROVE  TypeOK' /\ \A q \in Callers : Knows(q)'
<1>1. installed' \in Seq(Rows) /\ Len(installed') \in Nat
  <2> HIDE DEF Rows
  <2> QED
    BY DEF Grows
<1>2. TypeOK'
  <2> HIDE DEF Rows
  <2>1. installed' \in Seq([pkgID : Int, of : Names, missed : {"no", "unknown", "busy"}])
    BY <1>1 DEF Rows, Misses
  <2>2. /\ pc' \in [Callers -> Ops \cup {"idle", "select", "insert", "commit", "told", "named"}]
        /\ writer' \in Callers \cup {NoCaller}
        /\ str' \in [Callers -> Names \cup {NoName}]
        /\ pkg_id' \in [Callers -> Int]
        /\ missed' \in [Callers -> {"no", "unknown", "busy"}]
        /\ before' \in [Callers -> Nat]
        /\ DOMAIN reply' = Callers
        /\ all_pkgs' \subseteq Names
    BY DEF RegInv, TypeOK, Return, Goto
  <2>3. \A q \in Callers : pc'[q] = "commit" <=> writer' = q
    BY CallerAssumption DEF RegInv, TypeOK, Return, Goto
  <2>4. \A q \in Callers : str'[q] = NoName <=> pc'[q] = "idle"
    BY DEF RegInv, TypeOK, Return, Goto
  <2> QED
    BY <2>1, <2>2, <2>3, <2>4 DEF TypeOK
<1>3. Knows(c)'
  BY <1>1 DEF RegInv, TypeOK, Return, Goto, Knows
<1>4. ASSUME NEW q \in Callers, q # c PROVE Knows(q)'
  BY <1>4, KnowsKept DEF RegInv, TypeOK, Return, Goto
<1> QED
  BY <1>2, <1>3, <1>4

LEMMA Same ==
  ASSUME RegInv, UNCHANGED installed
  PROVE  Grows /\ RowNamed'
BY DEF RegInv, TypeOK, Grows, RowNamed, Rows, Misses

LEMMA InitInv == Init => RegInv
<1> SUFFICES ASSUME Init PROVE RegInv
  OBVIOUS
<1>1. Len(installed) = 0 /\ installed \in Seq(Rows)
  BY DEF Init
<1>2. TypeOK
  BY <1>1, CallerAssumption DEF Init, TypeOK, Rows, Misses
<1>3. RowNamed
  BY <1>1 DEF RowNamed
<1>4. \A c \in Callers : Knows(c)
  BY <1>1 DEF Init, Knows, Ops
<1> QED
  BY <1>2, <1>3, <1>4 DEF RegInv

-----------------------------------------------------------------------------
(* Steps of a caller that leave the table of installed packages as it is. *)
LEMMA PublishKeeps == ASSUME RegInv, Publish PROVE RegInv'
<1>1. Grows /\ RowNamed'
  BY Same DEF Publish
<1>2. TypeOK'
  BY DEF RegInv, TypeOK, Publish
<1>3. \A c \in Callers : Knows(c)'
  BY <1>1, KnowsKept DEF RegInv, TypeOK, Publish
<1> QED
  BY <1>1, <1>2, <1>3 DEF RegInv

LEMMA CallKeeps == ASSUME RegInv, NEW c \in Callers, Call(c) PROVE RegInv'
<1>1. Grows /\ RowNamed' /\ Len(installed) \in Nat
  BY Same DEF RegInv, TypeOK, Call
<1>2. TypeOK'
  BY <1>1, NumberAssumption DEF RegInv, TypeOK, Call, Goto, Ops
<1>3. Knows(c)'
  BY <1>1 DEF RegInv, TypeOK, Call, Goto, Knows, Ops
<1>4. ASSUME NEW q \in Callers, q # c PROVE Knows(q)'
  BY <1>1, <1>4, KnowsKept DEF RegInv, TypeOK, Call, Goto
<1> QED
  BY <1>1, <1>2, <1>3, <1>4 DEF RegInv

LEMMA FindIDKeeps == ASSUME RegInv, NEW c \in Callers, FindID(c) PROVE RegInv'
<1>1. Grows /\ RowNamed'
  BY Same DEF FindID
<1>2. str[c] \in Names /\ AsInt(pkgID[str[c]]) \in Int
  BY AsIntIsInt DEF RegInv, TypeOK, FindID
<1>3. TypeOK'
  BY <1>2 DEF RegInv, TypeOK, FindID, Then, Goto
<1>4. Knows(c)'
  BY <1>2 DEF RegInv, TypeOK, FindID, Then, Goto, Knows, Ops
<1>5. ASSUME NEW q \in Callers, q # c PROVE Knows(q)'
  BY <1>1, <1>5, KnowsKept DEF RegInv, TypeOK, FindID, Then, Goto
<1> QED
  BY <1>1, <1>3, <1>4, <1>5 DEF RegInv

LEMMA MissIDKeeps == ASSUME RegInv, NEW c \in Callers, MissID(c) PROVE RegInv'
<1>1. Grows /\ RowNamed'
  BY Same DEF MissID
<1>2. TypeOK'
  BY DEF RegInv, TypeOK, MissID, Then, Goto
<1>3. Knows(c)'
  BY DEF RegInv, TypeOK, MissID, Then, Goto, Knows, Ops
<1>4. ASSUME NEW q \in Callers, q # c PROVE Knows(q)'
  BY <1>1, <1>4, KnowsKept DEF RegInv, TypeOK, MissID, Then, Goto
<1> QED
  BY <1>1, <1>2, <1>3, <1>4 DEF RegInv

(***************************************************************************)
(* The answer: a row with the number looked for was made under it; no row   *)
(* before it has the number.                                                *)
(***************************************************************************)
LEMMA FoundRight ==
  ASSUME RegInv, NEW c \in Callers, pc[c] = "select",
         NEW i \in 1 .. Len(installed), installed[i].pkgID = pkg_id[c],
         \A j \in 1 .. i - 1 : installed[j].pkgID # pkg_id[c]
  PROVE  ToldRight(c, i)
<1>1. /\ installed \in Seq(Rows) /\ Len(installed) \in Nat /\ str[c] \in Names
      /\ \A j \in 1 .. Len(installed) : installed[j] \in Rows
  <2>1. installed \in Seq(Rows)
    BY DEF RegInv, TypeOK, Rows, Misses
  <2>2. str[c] \in Names
    BY DEF RegInv, TypeOK
  <2> HIDE DEF Rows
  <2> QED
    BY <2>1, <2>2
<1>2. \A j \in 1 .. Len(installed) : installed[j].of \in Names /\ installed[j].missed \in Misses
  BY <1>1 DEF Rows
<1>3. /\ pkg_id[c] = IF missed[c] = "no" THEN AsInt(pkgID[str[c]]) ELSE -1
      /\ \A j \in 1 .. Len(installed) : installed[j].pkgID =
            IF installed[j].missed = "no" THEN AsInt(pkgID[installed[j].of]) ELSE -1
  BY DEF RegInv, Knows, RowNamed
<1> SUFFICES ASSUME missed[c] = "no", InInt(str[c])
             PROVE  /\ installed[i].missed = "no" /\ AsInt(pkgID[installed[i].of]) = pkgID[str[c]]
                    /\ InInt(installed[i].of) => installed[i].of = str[c]
                    /\ \A j \in 1 .. i - 1 :
                         ~(installed[j].of = str[c] /\ installed[j].missed = "no")
  BY DEF ToldRight
<1>4. AsInt(pkgID[str[c]]) = pkgID[str[c]] /\ pkgID[str[c]] \in Nat
  BY <1>1, AsIntExact, NumberAssumption
<1>5. installed[i].missed = "no" /\ AsInt(pkgID[installed[i].of]) = pkgID[str[c]]
  BY <1>3, <1>4
<1>6. InInt(installed[i].of) => installed[i].of = str[c]
  <2> SUFFICES ASSUME InInt(installed[i].of) PROVE installed[i].of = str[c]
    OBVIOUS
  <2>1. pkgID[installed[i].of] = pkgID[str[c]]
    BY <1>2, <1>5, AsIntExact
  <2> QED
    BY <1>1, <1>2, <2>1, NumberAssumption
<1>7. \A j \in 1 .. i - 1 : ~(installed[j].of = str[c] /\ installed[j].missed = "no")
  BY <1>1, <1>3
<1> QED
  BY <1>5, <1>6, <1>7

(* No row has the number: none was made for the package under its number. *)
LEMMA NoneRight ==
  ASSUME RegInv, NEW c \in Callers, pc[c] = "select", missed[c] = "no",
         \A j \in 1 .. Len(installed) : installed[j].pkgID # pkg_id[c]
  PROVE  NotBefore(c)
<1>1. /\ pkg_id[c] = AsInt(pkgID[str[c]])
      /\ \A j \in 1 .. Len(installed) : installed[j].missed = "no" =>
            installed[j].pkgID = AsInt(pkgID[installed[j].of])
  BY DEF RegInv, Knows, RowNamed
<1>2. before[c] \in Nat /\ before[c] <= Len(installed) /\ Len(installed) \in Nat
  BY DEF RegInv, TypeOK, Knows
<1> QED
  BY <1>1, <1>2 DEF NotBefore

LEMMA AnswerKeeps == ASSUME RegInv, NEW c \in Callers, is_installed(c) PROVE RegInv'
<1>1. Grows /\ RowNamed' /\ Len(installed) \in Nat
  BY Same DEF RegInv, TypeOK, is_installed
<1>2. TypeOK'
  BY DEF RegInv, TypeOK, is_installed, Goto
<1>3. Knows(c)'
  <2> DEFINE i == RowOf(pkg_id[c])
  <2>1. /\ i \in 0 .. Len(installed)
        /\ i = 0 => \A j \in 1 .. Len(installed) : installed[j].pkgID # pkg_id[c]
        /\ i # 0 => /\ installed[i].pkgID = pkg_id[c]
                   /\ \A j \in 1 .. i - 1 : installed[j].pkgID # pkg_id[c]
    BY <1>1, RowOfFirst
  <2>2. /\ pc[c] = "select" /\ pc'[c] = "told" /\ UNCHANGED <<installed, str, pkg_id, before>>
        /\ before[c] <= Len(installed)
    BY DEF RegInv, TypeOK, is_installed, Goto, Knows
  <2>3. \/ reply'[c] = (IF i = 0 THEN -1 ELSE i) /\ missed'[c] = missed[c]
        \/ reply'[c] = -1 /\ missed'[c] = "busy"
    BY NumberAssumption DEF RegInv, TypeOK, is_installed
  <2> HIDE DEF i
  <2>4. reply'[c] = -1 => (missed'[c] = "no" => NotBefore(c)')
    <3> SUFFICES ASSUME reply'[c] = -1, missed'[c] = "no" PROVE NotBefore(c)'
      OBVIOUS
    <3>1. i = 0 /\ missed[c] = "no"
      BY <1>1, <2>1, <2>3
    <3>2. NotBefore(c)
      BY <2>1, <2>2, <3>1, NoneRight
    <3> QED
      BY <2>2, <3>2 DEF NotBefore
  <2>5. reply'[c] # -1 => reply'[c] \in 1 .. Len(installed') /\ ToldRight(c, reply[c])'
    <3> SUFFICES ASSUME reply'[c] # -1
                 PROVE  reply'[c] \in 1 .. Len(installed') /\ ToldRight(c, reply[c])'
      OBVIOUS
    <3>1. i \in 1 .. Len(installed) /\ reply'[c] = i /\ missed'[c] = missed[c]
      BY <1>1, <2>1, <2>3
    <3>2. ToldRight(c, i)
      BY <2>1, <2>2, <3>1, FoundRight
    <3> QED
      BY <2>2, <3>1, <3>2 DEF ToldRight, InInt
  <2> QED
    BY <2>2, <2>4, <2>5 DEF Knows, Ops
<1>4. ASSUME NEW q \in Callers, q # c PROVE Knows(q)'
  BY <1>1, <1>4, KnowsKept DEF RegInv, TypeOK, is_installed, Goto
<1> QED
  BY <1>1, <1>2, <1>3, <1>4 DEF RegInv

LEMMA BeginInsertKeeps == ASSUME RegInv, NEW c \in Callers, BeginInsert(c) PROVE RegInv'
<1>1. Grows /\ RowNamed'
  BY Same DEF BeginInsert
<1>2. TypeOK'
  BY CallerAssumption DEF RegInv, TypeOK, BeginInsert, Goto
<1>3. Knows(c)'
  BY DEF RegInv, TypeOK, BeginInsert, Goto, Knows, Ops
<1>4. ASSUME NEW q \in Callers, q # c PROVE Knows(q)'
  BY <1>1, <1>4, KnowsKept DEF RegInv, TypeOK, BeginInsert, Goto
<1> QED
  BY <1>1, <1>2, <1>3, <1>4 DEF RegInv

(* The row is made of what the caller found, not of what holds by now. *)
LEMMA CommitKeeps == ASSUME RegInv, NEW c \in Callers, Commit(c) PROVE RegInv'
<1> DEFINE row == [pkgID |-> pkg_id[c], of |-> str[c], missed |-> missed[c]]
<1>1. /\ pc[c] = "commit" /\ installed' = Append(installed, row) /\ Return(c)
      /\ writer' = NoCaller /\ writer = c /\ UNCHANGED all_pkgs
  BY DEF RegInv, TypeOK, Commit
<1>2. /\ pkg_id[c] \in Int /\ str[c] \in Names /\ missed[c] \in Misses
      /\ pkg_id[c] = IF missed[c] = "no" THEN AsInt(pkgID[str[c]]) ELSE -1
  BY <1>1 DEF RegInv, TypeOK, Misses, Knows
<1>3. /\ row \in Rows
      /\ row.pkgID = IF row.missed = "no" THEN AsInt(pkgID[row.of]) ELSE -1
  BY <1>2 DEF Rows
<1>4. installed \in Seq(Rows)
  BY DEF RegInv, TypeOK, Rows, Misses
<1> HIDE DEF row, Rows
<1>5. Grows
  BY <1>1, <1>3, <1>4 DEF Grows
<1>6. TypeOK' /\ \A q \in Callers : Knows(q)'
  BY <1>1, <1>5, ReturnKeeps
<1>7. RowNamed'
  <2>1. /\ Len(installed) \in Nat /\ Len(installed') = Len(installed) + 1
        /\ installed'[Len(installed) + 1] = row
        /\ \A i \in 1 .. Len(installed) : installed'[i] = installed[i]
    BY <1>1, <1>3, <1>4
  <2> SUFFICES ASSUME NEW i \in 1 .. Len(installed')
               PROVE  installed'[i].pkgID =
                        IF installed'[i].missed = "no" THEN AsInt(pkgID[installed'[i].of]) ELSE -1
    BY DEF RowNamed
  <2>2. CASE i \in 1 .. Len(installed)
    BY <2>1, <2>2 DEF RegInv, RowNamed
  <2>3. CASE i = Len(installed) + 1
    BY <1>3, <2>1, <2>3
  <2> QED
    BY <2>1, <2>2, <2>3
<1> QED
  BY <1>6, <1>7 DEF RegInv

LEMMA NameKeeps == ASSUME RegInv, NEW c \in Callers, archive_name(c) PROVE RegInv'
<1>1. Grows /\ RowNamed'
  BY Same DEF archive_name
<1>2. /\ pc[c] = "archive_name" /\ pc' = [pc EXCEPT ![c] = "named"] /\ DOMAIN reply' = Callers
      /\ \A q \in Callers : q # c => reply'[q] = reply[q]
      /\ UNCHANGED <<all_pkgs, installed, writer, str, pkg_id, missed, before>>
  BY DEF RegInv, TypeOK, archive_name, Goto
<1>3. TypeOK'
  BY <1>2 DEF RegInv, TypeOK
<1>4. Knows(c)'
  BY <1>2 DEF RegInv, TypeOK, Knows, Ops
<1>5. ASSUME NEW q \in Callers, q # c PROVE Knows(q)'
  BY <1>1, <1>2, <1>5, KnowsKept DEF RegInv, TypeOK
<1> QED
  BY <1>1, <1>3, <1>4, <1>5 DEF RegInv

(* The five ways a call ends without a row, a kill among them. *)
LEMMA EndKeeps ==
  ASSUME RegInv, NEW c \in Callers,
         Overflows(c) \/ RefuseInsert(c) \/ NameCrashes(c) \/ Done(c) \/ Kill(c)
  PROVE  RegInv'
<1>1. /\ pc[c] # "idle" /\ Return(c) /\ UNCHANGED <<all_pkgs, installed>>
      /\ writer' = IF writer = c THEN NoCaller ELSE writer
  BY DEF RegInv, TypeOK, Overflows, RefuseInsert, NameCrashes, Done, Kill
<1>2. Grows /\ RowNamed'
  BY <1>1, Same
<1> QED
  BY <1>1, <1>2, ReturnKeeps DEF RegInv

-----------------------------------------------------------------------------
LEMMA NextKeeps == RegInv /\ [Next]_vars => RegInv'
<1> SUFFICES ASSUME RegInv, [Next]_vars PROVE RegInv'
  OBVIOUS
<1>1. CASE UNCHANGED vars
  BY <1>1 DEF vars, RegInv, TypeOK, RowNamed, Knows, NotBefore, ToldRight, InInt
<1>2. CASE Publish
  BY <1>2, PublishKeeps
<1>3. ASSUME NEW c \in Callers,
             \/ Call(c) \/ FindID(c) \/ MissID(c) \/ is_installed(c)
             \/ Overflows(c) \/ BeginInsert(c) \/ RefuseInsert(c) \/ Commit(c)
             \/ archive_name(c) \/ NameCrashes(c) \/ Done(c) \/ Kill(c)
      PROVE  RegInv'
  BY <1>3, CallKeeps, FindIDKeeps, MissIDKeeps, AnswerKeeps, BeginInsertKeeps, CommitKeeps,
     NameKeeps, EndKeeps
<1> QED
  BY <1>1, <1>2, <1>3 DEF Next

LEMMA Invariance == Spec => []RegInv
<1>1. QED
  BY InitInv, NextKeeps, PTL DEF Spec

(* A caller that commits is the one that holds the lock. *)
THEOREM TypeCorrect == Spec => []TypeOK
<1>1. RegInv => TypeOK
  BY DEF RegInv
<1> QED
  BY <1>1, Invariance, PTL

(***************************************************************************)
(* Every row has the number of its package, or -1 where update_db() missed  *)
(* it, whatever is published between its two statements.                    *)
(***************************************************************************)
THEOREM RowsStayNamed == Spec => []RowNamed
<1>1. RegInv => RowNamed
  BY DEF RegInv
<1> QED
  BY <1>1, Invariance, PTL

(***************************************************************************)
(* If is_installed() found the number of its package, and that fits an int, *)
(* then the row it tells of was made under that number, no older one was,   *)
(* and it is the package's own unless its number was cut.                   *)
(***************************************************************************)
THEOREM AnswersStayRight == Spec => []AnswerRight
<1>1. RegInv => AnswerRight
  BY DEF RegInv, Knows, AnswerRight, ToldRight
<1> QED
  BY <1>1, Invariance, PTL

(***************************************************************************)
(* is_installed() does not miss a package that was recorded under its       *)
(* number before the call, if the database answers.                         *)
(***************************************************************************)
THEOREM KnownStaysTold == Spec => []KnownIsTold
<1>1. RegInv => KnownIsTold
  BY DEF RegInv, Knows, KnownIsTold, NotBefore
<1> QED
  BY <1>1, Invariance, PTL

-----------------------------------------------------------------------------
(* What archive_name() tells c, which stays true since the tables stay. *)
NamedRight(c) ==
  pc[c] = "named" /\ reply[c] # NULL /\ InInt(str[c]) =>
    LET table == Releases[pkgBranch[str[c]]]
        Right == {i \in 1 .. Len(table) : table[i].pkgID = pkgID[str[c]]
                                           /\ table[i].pkgArch = SYS_ARCH}
    IN  IF reply[c].ver = Garbage THEN Right = {} ELSE \E i \in Right : table[i].ver = reply[c].ver

LEMMA NamedAnswer ==
  ASSUME RegInv, NEW c \in Callers, archive_name(c)
  PROVE  NamedRight(c)'
<1>1. /\ str[c] \in Names /\ str' = str /\ c \in DOMAIN reply
  BY DEF RegInv, TypeOK, archive_name, Ops
<1> DEFINE x == str[c]
<1> DEFINE table == Releases[pkgBranch[x]]
<1> DEFINE Right == {i \in 1 .. Len(table) : table[i].pkgID = pkgID[x] /\ table[i].pkgArch = SYS_ARCH}
<1>2. CASE reply' = [reply EXCEPT ![c] = NULL]
  BY <1>1, <1>2 DEF NamedRight
<1>3. ASSUME x \in all_pkgs, pkgBranch[x] \in DOMAIN Releases,
             NEW ver \in IF Release(x) = {} THEN {Garbage} ELSE Release(x),
             reply' = [reply EXCEPT ![c] = [name |-> x, ver |-> ver]]
      PROVE  NamedRight(c)'
  <2> SUFFICES ASSUME InInt(x)
               PROVE  IF ver = Garbage THEN Right = {} ELSE \E i \in Right : table[i].ver = ver
    BY <1>1, <1>3 DEF NamedRight, InInt
  <2>1. AsInt(pkgID[x]) = pkgID[x]
    BY <1>1, AsIntExact
  <2>2. Release(x) = {table[i].ver : i \in Right}
    BY <2>1 DEF Release
  <2>3. \A i \in Right : table[i].ver # Garbage
    BY <1>3, ReleaseAssumption
  <2> HIDE DEF table, Right
  <2>4. CASE Release(x) = {}
    BY <1>3, <2>2, <2>4
  <2>5. CASE Release(x) # {}
    BY <1>3, <2>2, <2>3, <2>5
  <2> QED
    BY <2>4, <2>5
<1> QED
  BY <1>2, <1>3 DEF archive_name

LEMMA NamedStays ==
  ASSUME RegInv, NEW c \in Callers, NamedRight(c), [Next]_vars
  PROVE  NamedRight(c)'
<1>1. CASE pc'[c] = pc[c] /\ str'[c] = str[c] /\ reply'[c] = reply[c]
  BY <1>1 DEF NamedRight, InInt
<1>2. CASE UNCHANGED vars \/ Publish
  BY <1>1, <1>2 DEF vars, Publish
<1>3. ASSUME NEW d \in Callers,
             \/ Call(d) \/ FindID(d) \/ MissID(d) \/ is_installed(d)
             \/ Overflows(d) \/ BeginInsert(d) \/ RefuseInsert(d) \/ Commit(d)
             \/ NameCrashes(d) \/ Done(d) \/ Kill(d)
      PROVE  NamedRight(c)'
  <2>1. CASE d # c
    BY <1>1, <1>3, <2>1 DEF RegInv, TypeOK, Call, FindID, MissID, is_installed, Overflows, BeginInsert,
       RefuseInsert, Commit, NameCrashes, Done, Kill, Return, Goto, Then
  <2>2. CASE d = c
    <3>1. pc'[c] # "named"
      BY <1>3, <2>2 DEF RegInv, TypeOK, Call, FindID, MissID, is_installed, Overflows, BeginInsert,
         RefuseInsert, Commit, NameCrashes, Done, Kill, Return, Goto, Then, Ops
    <3> QED
      BY <3>1 DEF NamedRight
  <2> QED
    BY <2>1, <2>2
<1>4. ASSUME NEW d \in Callers, archive_name(d) PROVE NamedRight(c)'
  <2>1. CASE d # c
    BY <1>1, <1>4, <2>1 DEF RegInv, TypeOK, archive_name, Goto
  <2> QED
    BY <1>4, <2>1, NamedAnswer
<1> QED
  BY <1>2, <1>3, <1>4 DEF Next

(***************************************************************************)
(* archive_name() gives a version that the branch has for the package and   *)
(* this architecture, and garbage only where there is none.                 *)
(***************************************************************************)
THEOREM NamesStayRight == Spec => []ArchiveNameRight
<1> DEFINE Inv == \A c \in Callers : NamedRight(c)
<1>1. Init => Inv
  BY DEF Init, NamedRight
<1>2. RegInv /\ Inv /\ [Next]_vars => Inv'
  BY NamedStays
<1>3. Inv => ArchiveNameRight
  BY DEF ArchiveNameRight, NamedRight
<1> QED
  BY <1>1, <1>2, <1>3, Invariance, PTL DEF Spec
=============================================================================
