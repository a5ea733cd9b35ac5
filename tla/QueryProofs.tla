----------------------------- MODULE QueryProofs -----------------------------
(***************************************************************************)
(* Proofs about Query, for any command lines, info texts, dependencies and  *)
(* lengths of names.  Each part has its own invariant, which its operations *)
(* keep wherever they are used (the sections on Arena, Info and Deps, and   *)
(* CommandLineProofs); the last sections say where the process uses them.   *)
(***************************************************************************)
EXTENDS Query, CommandLineProofs

-----------------------------------------------------------------------------
(* Arena: what was handed out lies below p_app_len, the next path behind it.*)

Extents == [first : Nat, last : Nat]

ArenaInv ==
  /\ ArenaTyped
  /\ \A i \in 1 .. Len(paths) : paths[i].last < p_app_len
  /\ PathsApart

LEMMA ArenaStarts == ArenaInit => ArenaInv
BY DEF ArenaInit, ArenaInv, ArenaTyped, PathsApart

LEMMA PathKeeps ==
  ASSUME ArenaInv, path_append
  PROVE  ArenaInv'
<1>1. PICK n \in Nat : n = Head(due)
  BY DEF ArenaInv, ArenaTyped, path_append
<1>2. PICK a \in Nat : a = p_app_len
  BY DEF ArenaInv, ArenaTyped
<1> DEFINE new == [first |-> a, last |-> a + n + 1]
<1>3. due' \in Seq(Nat)
  BY DEF ArenaInv, ArenaTyped, path_append
<1>4. p_app_len' = a + n + 2 /\ paths' = Append(paths, new) /\ paths \in Seq(Extents)
  <2>1. p_app_len' = a + cur_len(n) /\ paths' = Append(paths, new) /\ paths \in Seq(Extents)
    BY <1>1, <1>2 DEF path_append, ArenaInv, ArenaTyped, Extents
  <2>2. a + cur_len(n) = a + n + 2
    BY DEF cur_len
  <2> QED
    BY <2>1, <2>2
<1>5. new \in Extents /\ new.first = a /\ new.last = a + n + 1
  BY DEF Extents
<1>6. \A x \in Extents : x.last \in Nat
  BY DEF Extents
<1> HIDE DEF new, Extents
<1>7. /\ paths' \in Seq(Extents) /\ Len(paths) \in Nat /\ Len(paths') = Len(paths) + 1
      /\ paths'[Len(paths) + 1] = new
      /\ \A i \in 1 .. Len(paths) : paths'[i] = paths[i] /\ paths[i] \in Extents
  BY <1>4, <1>5
<1>8. \A i \in 1 .. Len(paths) : paths[i].last < a /\ paths[i].last \in Nat
  BY <1>2, <1>6, <1>7 DEF ArenaInv
<1>9. \A i \in 1 .. Len(paths') : paths'[i].last < p_app_len'
  <2> SUFFICES ASSUME NEW i \in 1 .. Len(paths') PROVE paths'[i].last < a + n + 2
    BY <1>4
  <2>1. CASE i \in 1 .. Len(paths)
    <3>1. paths'[i] = paths[i] /\ paths[i].last < a /\ paths[i].last \in Nat
      BY <1>7, <1>8, <2>1
    <3> QED
      BY <3>1
  <2>2. CASE i = Len(paths) + 1
    BY <1>5, <1>7, <2>2
  <2> QED
    BY <1>7, <2>1, <2>2
<1>10. PathsApart'
  <2> SUFFICES ASSUME NEW i \in 1 .. Len(paths'), NEW j \in 1 .. Len(paths'), i < j
               PROVE  paths'[i].last < paths'[j].first
    BY DEF PathsApart
  <2>1. i \in 1 .. Len(paths) /\ paths'[i] = paths[i]
    BY <1>7
  <2>2. CASE j \in 1 .. Len(paths)
    BY <1>7, <2>1, <2>2 DEF ArenaInv, PathsApart
  <2>3. CASE j = Len(paths) + 1
    BY <1>5, <1>7, <1>8, <2>1, <2>3
  <2> QED
    BY <1>7, <2>2, <2>3
<1>11. p_app_len' \in Nat
  BY <1>4
<1> QED
  BY <1>3, <1>7, <1>9, <1>10, <1>11 DEF ArenaInv, ArenaTyped, Extents

LEMMA DueKeeps ==
  ASSUME ArenaInv, UNCHANGED <<p_app_len, paths>>, due' \in Seq(Nat)
  PROVE  ArenaInv'
BY DEF ArenaInv, ArenaTyped, PathsApart

(***************************************************************************)
(* No two of the paths that path_append() hands out share a byte, however   *)
(* long they are and however many.                                          *)
(***************************************************************************)
THEOREM PathsStayApart == ArenaSpec => []PathsApart
<1>1. ArenaInv /\ [ArenaNext]_arenaVars => ArenaInv'
  <2> SUFFICES ASSUME ArenaInv, [ArenaNext]_arenaVars PROVE ArenaInv'
    OBVIOUS
  <2>1. CASE path_append
    BY <2>1, PathKeeps
  <2>2. ASSUME NEW lengths \in Seq(Nat), Ask(lengths)
        PROVE  ArenaInv'
    BY <2>2, DueKeeps DEF Ask
  <2>3. CASE UNCHANGED arenaVars
    BY <2>3, DueKeeps DEF arenaVars, ArenaInv, ArenaTyped
  <2> QED
    BY <2>1, <2>2, <2>3 DEF ArenaNext
<1>2. ArenaInv => PathsApart
  BY DEF ArenaInv
<1> QED
  BY <1>1, <1>2, ArenaStarts, PTL DEF ArenaSpec

-----------------------------------------------------------------------------
(* Info: the line that opens a piece, and the lines that close a field. *)

LEMMA OpenerIs ==
  ASSUME text \in Seq(TextLines), NEW c \in 1 .. Len(text), NEW i \in 1 .. c, Opens(i, c)
  PROVE  Opener(c) = i
<1>1. Len(text) \in Nat
  OBVIOUS
<1>2. ASSUME NEW k \in 1 .. c, NEW m \in 1 .. c, Opens(k, c), Opens(m, c), k < m
      PROVE  FALSE
  <2>1. k \in 1 .. m - 1 /\ text[k].name # NoKey
    BY <1>1, <1>2 DEF Opens
  <2>2. PICK b \in k .. m - 1 : text[b].closed
    BY <1>2, <2>1 DEF Opens
  <2>3. b \in k .. c - 1
    BY <1>1, <1>2, <2>2
  <2> QED
    BY <1>2, <2>2, <2>3 DEF Opens
<1>3. PICK k \in 1 .. c : k = Opener(c) /\ Opens(k, c)
  BY DEF Opener
<1>4. k \in Int /\ i \in Int
  BY <1>1
<1> QED
  BY <1>2, <1>3, <1>4

LEMMA ClosersFinite ==
  ASSUME NEW n \in Nat
  PROVE  /\ IsFiniteSet(Closers(n)) /\ Cardinality(Closers(n)) \in Nat
         /\ Closers(n) \subseteq 1 .. n
<1>1. Closers(n) \subseteq 1 .. n
  BY DEF Closers
<1>2. IsFiniteSet(1 .. n)
  BY FS_Interval
<1> QED
  BY <1>1, <1>2, FS_Subset, FS_CardinalityType

(* The rank of a closing line among those up to n. *)
LEMMA ClosersRank ==
  ASSUME NEW n \in Nat, NEW c \in Closers(n)
  PROVE  Cardinality(Closers(c)) \in 1 .. Cardinality(Closers(n))
<1>1. c \in 1 .. n /\ c \in Nat /\ c \in Closers(c) /\ Closers(c) \subseteq Closers(n)
  BY DEF Closers
<1>2. Cardinality(Closers(c)) \in Nat /\ Cardinality(Closers(n)) \in Nat
      /\ IsFiniteSet(Closers(c)) /\ IsFiniteSet(Closers(n))
  BY <1>1, ClosersFinite
<1>3. Cardinality(Closers(c)) <= Cardinality(Closers(n))
  BY <1>1, <1>2, FS_Subset
<1>4. Cardinality(Closers(c)) # 0
  BY <1>1, <1>2, FS_EmptySet
<1> QED
  BY <1>2, <1>3, <1>4

LEMMA ClosersOrder ==
  ASSUME NEW n \in Nat, NEW b \in Closers(n), NEW c \in Closers(n), b < c
  PROVE  Cardinality(Closers(b)) < Cardinality(Closers(c))
<1>1. b \in Nat /\ c \in Nat /\ c \in Closers(c) /\ c \notin Closers(b) /\ Closers(b) \subseteq Closers(c)
  BY DEF Closers
<1>2. /\ Cardinality(Closers(b)) \in Nat /\ Cardinality(Closers(c)) \in Nat
      /\ IsFiniteSet(Closers(c))
  BY <1>1, ClosersFinite
<1>3. /\ Cardinality(Closers(b)) <= Cardinality(Closers(c))
      /\ Cardinality(Closers(b)) # Cardinality(Closers(c))
  BY <1>1, <1>2, FS_Subset
<1> QED
  BY <1>2, <1>3

(* One piece further there is at most one more of them. *)
LEMMA ClosersGrow ==
  ASSUME NEW p \in Nat, NEW c \in Nat, p < c, text[c].closed,
         \A j \in p + 1 .. c - 1 : ~text[j].closed
  PROVE  IF text[Opener(c)].name \in FieldNames
         THEN /\ Closers(c) = Closers(p) \cup {c} /\ c \notin Closers(p)
              /\ Cardinality(Closers(c)) = Cardinality(Closers(p)) + 1
         ELSE Closers(c) = Closers(p)
<1>1. \A j \in 1 .. c : j \in 1 .. p \/ j \in p + 1 .. c - 1 \/ j = c
  OBVIOUS
<1>2. c \notin Closers(p) /\ c \in 1 .. c /\ 1 .. p \subseteq 1 .. c
  BY DEF Closers
<1>3. text[Opener(c)].name \in FieldNames => Closers(c) = Closers(p) \cup {c}
  BY <1>1, <1>2 DEF Closers
<1>4. text[Opener(c)].name \notin FieldNames => Closers(c) = Closers(p)
  BY <1>1, <1>2 DEF Closers
<1>5. Cardinality(Closers(p) \cup {c}) = Cardinality(Closers(p)) + 1
  BY <1>2, ClosersFinite, FS_AddElement
<1> QED
  BY <1>2, <1>3, <1>4, <1>5

(* The lines behind the p-th are still to cut, and the p-th ends a piece. *)
CutAt(p, string) ==
  /\ p \in 0 .. Len(text) /\ string = SubSeq(text, p + 1, Len(text))
  /\ p > 0 => text[p].closed

LEMMA PieceIs ==
  ASSUME text \in Seq(TextLines), NEW p, CutAt(p, rest), NEW n \in 1 .. Len(rest), _strsep(n)
  PROVE  /\ p \in Nat /\ p + n \in p + 1 .. Len(text) /\ text[p + n].closed
         /\ \A j \in p + 1 .. p + n - 1 : ~text[j].closed
         /\ CutAt(p + n, SubSeq(rest, n + 1, Len(rest)))
         /\ Len(SubSeq(rest, 1, n)) = n
         /\ \A j \in 1 .. n : SubSeq(rest, 1, n)[j] = text[p + j]
<1>1. PICK l \in Nat : l = Len(text)
  OBVIOUS
<1>2. p \in 0 .. l /\ rest = SubSeq(text, p + 1, l)
  BY <1>1 DEF CutAt
<1>3. /\ rest \in Seq(TextLines) /\ Len(rest) = l - p
      /\ \A j \in 1 .. l - p : rest[j] = text[p + j]
  <2>1. p + 1 \in Int /\ l \in Int /\ \A j \in p + 1 .. l : text[j] \in TextLines
    BY <1>1, <1>2
  <2>2. /\ SubSeq(text, p + 1, l) \in Seq(TextLines)
        /\ Len(SubSeq(text, p + 1, l)) = IF p + 1 <= l THEN l - (p + 1) + 1 ELSE 0
        /\ \A j \in 1 .. l - (p + 1) + 1 : SubSeq(text, p + 1, l)[j] = text[p + 1 + j - 1]
    BY <2>1, SubSeqProperties, SMTT(30)
  <2>3. l - (p + 1) + 1 = l - p /\ (p + 1 <= l \/ l - p = 0)
    BY <1>2
  <2>4. \A j \in Int : p + 1 + j - 1 = p + j
    BY <1>2
  <2>5. Len(rest) = l - p
    BY <1>2, <2>2, <2>3
  <2>6. \A j \in 1 .. l - p : rest[j] = text[p + j]
    BY <1>2, <2>2, <2>3, <2>4
  <2> QED
    BY <1>2, <2>2, <2>5, <2>6
<1>4. /\ n \in 1 .. l - p /\ rest[n].closed /\ \A j \in 1 .. n - 1 : ~rest[j].closed
  BY <1>3 DEF _strsep
<1>5. p \in Nat /\ p + n \in p + 1 .. l /\ text[p + n].closed
  BY <1>2, <1>3, <1>4
<1>6. \A j \in p + 1 .. p + n - 1 : ~text[j].closed
  <2> SUFFICES ASSUME NEW j \in p + 1 .. p + n - 1 PROVE ~text[j].closed
    OBVIOUS
  <2>1. PICK k : k = j - p
    OBVIOUS
  <2>2. k \in 1 .. n - 1 /\ k \in 1 .. l - p /\ p + k = j
    BY <1>2, <1>4, <2>1
  <2>3. rest[k] = text[j] /\ ~rest[k].closed
    BY <1>3, <1>4, <2>2
  <2> QED
    BY <2>3
<1>7. SubSeq(rest, n + 1, Len(rest)) = SubSeq(text, p + n + 1, l)
  <2> DEFINE a == SubSeq(rest, n + 1, Len(rest))
             b == SubSeq(text, p + n + 1, l)
  <2>1. n + 1 \in Int /\ Len(rest) \in Int /\ \A j \in n + 1 .. Len(rest) : rest[j] \in TextLines
    BY <1>3
  <2>2. /\ a \in Seq(TextLines)
        /\ Len(a) = IF n + 1 <= Len(rest) THEN Len(rest) - (n + 1) + 1 ELSE 0
        /\ \A j \in 1 .. Len(rest) - (n + 1) + 1 : a[j] = rest[n + 1 + j - 1]
    BY <2>1, SubSeqProperties
  <2>3. p + n + 1 \in Int /\ l \in Int /\ \A j \in p + n + 1 .. l : text[j] \in TextLines
    BY <1>1, <1>2, <1>4
  <2>4. /\ b \in Seq(TextLines)
        /\ Len(b) = IF p + n + 1 <= l THEN l - (p + n + 1) + 1 ELSE 0
        /\ \A j \in 1 .. l - (p + n + 1) + 1 : b[j] = text[p + n + 1 + j - 1]
    BY <2>3, SubSeqProperties, SMTT(30)
  <2> HIDE DEF a, b
  <2>5. PICK m \in Nat : m = l - p - n
    BY <1>4, <1>2
  <2>6. Len(a) = m /\ Len(b) = m
    BY <1>1, <1>2, <1>3, <1>4, <2>2, <2>4, <2>5
  <2>7. ASSUME NEW j \in 1 .. Len(a) PROVE a[j] = b[j]
    <3>1. j \in 1 .. Len(rest) - (n + 1) + 1 /\ j \in 1 .. l - (p + n + 1) + 1
      BY <1>2, <1>3, <1>4, <2>5, <2>6
    <3>2. n + 1 + j - 1 = n + j /\ p + n + 1 + j - 1 = p + (n + j) /\ n + j \in 1 .. l - p
      BY <1>2, <1>4, <2>5, <2>6
    <3>3. a[j] = rest[n + j] /\ b[j] = text[p + (n + j)]
      BY <2>2, <2>4, <3>1, <3>2
    <3> QED
      BY <1>3, <3>2, <3>3
  <2>8. a = b
    BY <2>2, <2>4, <2>6, <2>7, SeqEqual
  <2> QED
    BY <2>8 DEF a, b
<1>8. CutAt(p + n, SubSeq(rest, n + 1, Len(rest)))
  BY <1>1, <1>2, <1>5, <1>7 DEF CutAt
<1>9. /\ Len(SubSeq(rest, 1, n)) = n
      /\ \A j \in 1 .. n : SubSeq(rest, 1, n)[j] = text[p + j]
  <2>1. 1 \in Int /\ n \in Int /\ \A j \in 1 .. n : rest[j] \in TextLines
    <3>1. 1 \in Int /\ n \in Int /\ 1 .. n \subseteq 1 .. Len(rest)
      BY <1>2, <1>3, <1>4, SMTT(30)
    <3>2. \A j \in 1 .. Len(rest) : rest[j] \in TextLines
      BY <1>3
    <3> QED
      BY <3>1, <3>2
  <2>2. /\ Len(SubSeq(rest, 1, n)) = IF 1 <= n THEN n - 1 + 1 ELSE 0
        /\ \A j \in 1 .. n - 1 + 1 : SubSeq(rest, 1, n)[j] = rest[1 + j - 1]
    BY <2>1, SubSeqProperties
  <2>3. \A j \in 1 .. n : j \in 1 .. n - 1 + 1 /\ 1 + j - 1 = j /\ j \in 1 .. l - p
    BY <1>2, <1>4
  <2>4. \A j \in 1 .. n : SubSeq(rest, 1, n)[j] = rest[j]
    BY <2>2, <2>3
  <2> QED
    BY <1>3, <1>4, <2>1, <2>2, <2>3, <2>4
<1> QED
  BY <1>1, <1>5, <1>6, <1>8, <1>9

LEMMA FunctionIsSeq ==
  ASSUME NEW S, NEW m \in Nat, NEW f \in [1 .. m -> S]
  PROVE  f \in Seq(S) /\ Len(f) = m
<1>1. f \in Seq(S)
  BY SeqDef
<1>2. DOMAIN f = 1 .. m /\ DOMAIN f = 1 .. Len(f) /\ Len(f) \in Nat
  BY <1>1, LenProperties
<1> QED
  BY <1>1, <1>2

(* The first line with a key opens the piece, whatever lines follow it. *)
LEMMA FieldIs ==
  ASSUME text \in Seq(TextLines), NEW p, CutAt(p, rest), NEW n \in 1 .. Len(rest), _strsep(n),
         NEW piece, piece = SubSeq(rest, 1, n), Keyed(piece)
  PROVE  /\ Opener(p + n) \in 1 .. p + n
         /\ info_new_field(piece).name = text[Opener(p + n)].name
         /\ info_new_field(piece).str = Str(Opener(p + n), p + n)
         /\ info_new_field(piece) \in
              [name : FieldNames \cup {Unknown}, type : {"str", "nul"}, str : Seq(Values \cup {Garbage})]
<1>1. /\ p \in Nat /\ p + n \in p + 1 .. Len(text) /\ text[p + n].closed
      /\ \A j \in p + 1 .. p + n - 1 : ~text[j].closed
      /\ Len(piece) = n /\ \A j \in 1 .. n : piece[j] = text[p + j]
      /\ p > 0 => text[p].closed
  <2>1. p > 0 => text[p].closed
    BY DEF CutAt
  <2>2. /\ p \in Nat /\ p + n \in p + 1 .. Len(text) /\ text[p + n].closed
        /\ \A j \in p + 1 .. p + n - 1 : ~text[j].closed
        /\ Len(SubSeq(rest, 1, n)) = n
        /\ \A j \in 1 .. n : SubSeq(rest, 1, n)[j] = text[p + j]
    BY PieceIs
  <2> QED
    BY <2>1, <2>2
<1>2. n \in Nat /\ n > 0 /\ Len(text) \in Nat /\ \A k \in 1 .. Len(text) : text[k] \in TextLines
  OBVIOUS
<1> DEFINE keyed == {i \in 1 .. Len(piece) : piece[i].name # NoKey}
<1>3. PICK f \in keyed : \A j \in keyed : f <= j
  <2>1. keyed \subseteq Nat /\ keyed # {}
    BY <1>1, <1>2 DEF Keyed
  <2> QED
    BY <2>1, Smallest
<1>4. (CHOOSE i \in keyed : \A j \in keyed : i <= j) = f
  <2>1. \A i \in keyed : (\A j \in keyed : i <= j) => i = f
    BY <1>3
  <2> QED
    BY <1>3, <2>1
<1>5. f \in 1 .. n /\ piece[f].name # NoKey /\ \A j \in 1 .. n : j < f => piece[j].name = NoKey
  BY <1>1, <1>3, SMTT(30)
<1>6. PICK o \in Nat, c \in Nat : o = p + f /\ c = p + n /\ o \in 1 .. c /\ c \in 1 .. Len(text)
  BY <1>1, <1>2, <1>5
<1>7. Opens(o, c)
  <2>1. text[o].name # NoKey
    BY <1>1, <1>5, <1>6
  <2>2. \A j \in o .. c - 1 : ~text[j].closed
    <3>1. \A j \in o .. c - 1 : j \in p + 1 .. p + n - 1
      BY <1>1, <1>2, <1>5, <1>6
    <3> QED
      BY <1>1, <3>1
  <2>3. ASSUME NEW j \in 1 .. o - 1, text[j].name # NoKey
        PROVE  \E b \in j .. o - 1 : text[b].closed
    <3>1. CASE j <= p
      <4>1. p \in j .. o - 1 /\ p > 0
        BY <1>1, <1>5, <1>6, <3>1
      <4> QED
        BY <1>1, <4>1
    <3>2. CASE j > p
      <4>1. PICK k : k = j - p
        OBVIOUS
      <4>2. k \in 1 .. n /\ k < f /\ p + k = j
        BY <1>1, <1>5, <1>6, <3>2, <4>1
      <4> QED
        BY <1>1, <1>5, <2>3, <4>2
    <3> QED
      BY <1>1, <1>6, <3>1, <3>2
  <2> QED
    BY <2>1, <2>2, <2>3 DEF Opens
<1>8. Opener(c) = o
  BY <1>6, <1>7, OpenerIs
<1> DEFINE val == [j \in 1 .. Len(piece) - f + 1 |-> piece[f + j - 1].val]
<1>9. \A j \in 1 .. n - f + 1 : f + j - 1 \in 1 .. n /\ p + (f + j - 1) = o + j - 1
                                /\ o + j - 1 \in 1 .. Len(text)
  BY <1>1, <1>5, <1>6
<1>10. Len(piece) - f + 1 = c - o + 1 /\ n - f + 1 = c - o + 1
  BY <1>1, <1>5, <1>6
<1>11. val = [j \in 1 .. c - o + 1 |-> text[o + j - 1].val]
  <2>1. \A j \in 1 .. c - o + 1 : piece[f + j - 1] = text[o + j - 1]
    BY <1>1, <1>9, <1>10
  <2> QED
    BY <1>10, <2>1
<1>12. c - o + 1 \in Nat /\ \A j \in 1 .. c - o + 1 : val[j] = text[o + j - 1].val /\ val[j] \in Values
  <2>1. \A j \in 1 .. c - o + 1 : text[o + j - 1] \in TextLines
    BY <1>2, <1>9, <1>10
  <2>2. \A t \in TextLines : t.val \in Values
    BY DEF TextLines
  <2>3. c - o + 1 \in Nat
    BY <1>6
  <2> HIDE DEF val
  <2> QED
    BY <1>11, <2>1, <2>2, <2>3
<1>13. val \in Seq(Values) /\ Len(val) = c - o + 1
  <2>1. val \in [1 .. c - o + 1 -> Values]
    BY <1>11, <1>12
  <2> HIDE DEF val
  <2> QED
    BY <1>12, <2>1, FunctionIsSeq
<1>14. val = <<Empty>> <=> o = c /\ text[c].val = Empty
  <2>1. ASSUME val = <<Empty>> PROVE o = c /\ text[c].val = Empty
    <3>1. Len(val) = 1 /\ val[1] = Empty
      BY <2>1
    <3>2. o = c
      BY <1>6, <1>13, <3>1
    <3>3. 1 \in 1 .. c - o + 1 /\ o + 1 - 1 = c
      BY <1>6, <3>2
    <3> HIDE DEF val
    <3> QED
      BY <1>12, <3>1, <3>2, <3>3
  <2>2. ASSUME o = c, text[c].val = Empty PROVE val = <<Empty>>
    <3>1. 1 \in 1 .. c - o + 1 /\ o + 1 - 1 = c /\ c - o + 1 = 1
      BY <1>6, <2>2
    <3> HIDE DEF val
    <3>2. Len(val) = 1 /\ val[1] = Empty
      BY <1>12, <1>13, <2>2, <3>1
    <3> QED
      BY <1>13, <3>2
  <2> QED
    BY <2>1, <2>2
<1>15. PICK v : v = val
  OBVIOUS
<1>22. PICK r : r = info_new_field(piece)
  OBVIOUS
<1>16. r = IF v = <<Empty>>
          THEN [name |-> piece[f].name, type |-> "nul", str |-> <<Garbage>>]
          ELSE [name |-> piece[f].name, type |-> "str", str |-> v]
  <2> DEFINE first == CHOOSE i \in keyed : \A j \in keyed : i <= j
             vals  == [j \in 1 .. Len(piece) - first + 1 |-> piece[first + j - 1].val]
  <2>1. r = IF vals = <<Empty>>
          THEN [name |-> piece[first].name, type |-> "nul", str |-> <<Garbage>>]
          ELSE [name |-> piece[first].name, type |-> "str", str |-> vals]
    BY <1>22 DEF info_new_field
  <2>2. first = f
    BY <1>4
  <2> HIDE DEF first
  <2>3. vals = v
    BY <1>15, <2>2
  <2> HIDE DEF vals
  <2> QED
    BY <2>1, <2>2, <2>3
<1>17. piece[f] = text[o] /\ text[o].name \in FieldNames \cup {Unknown}
  <2>1. piece[f] = text[o]
    BY <1>1, <1>5, <1>6
  <2>2. text[o] \in TextLines /\ text[o].name # NoKey
    BY <1>5, <1>6, <2>1
  <2> QED
    BY <2>1, <2>2 DEF TextLines
<1>18. v \in Seq(Values \cup {Garbage}) /\ <<Garbage>> \in Seq(Values \cup {Garbage})
  <2>1. Values \subseteq Values \cup {Garbage} /\ Garbage \in Values \cup {Garbage}
    OBVIOUS
  <2>2. v \in Seq(Values)
    BY <1>13, <1>15
  <2>3. v \in Seq(Values \cup {Garbage})
    BY <2>1, <2>2, SeqMonotonic
  <2> QED
    BY <2>1, <2>3
<1>19. Str(o, c) = IF v = <<Empty>> THEN <<Garbage>> ELSE v
  BY <1>11, <1>14, <1>15 DEF Str
<1> HIDE DEF val, keyed
<1>20. r.name = text[o].name /\ r.str = Str(o, c)
  <2>1. CASE v = <<Empty>>
    <3>1. r = [name |-> piece[f].name, type |-> "nul", str |-> <<Garbage>>]
      BY <1>16, <2>1
    <3> QED
      BY <1>17, <1>19, <2>1, <3>1
  <2>2. CASE v # <<Empty>>
    <3>1. r = [name |-> piece[f].name, type |-> "str", str |-> v]
      BY <1>16, <2>2
    <3> QED
      BY <1>17, <1>19, <2>2, <3>1
  <2> QED
    BY <2>1, <2>2
<1>21. r \in
         [name : FieldNames \cup {Unknown}, type : {"str", "nul"}, str : Seq(Values \cup {Garbage})]
  <2>1. CASE v = <<Empty>>
    <3>1. r = [name |-> piece[f].name, type |-> "nul", str |-> <<Garbage>>]
      BY <1>16, <2>1
    <3> QED
      BY <1>17, <1>18, <3>1
  <2>2. CASE v # <<Empty>>
    <3>1. r = [name |-> piece[f].name, type |-> "str", str |-> v]
      BY <1>16, <2>2
    <3> QED
      BY <1>17, <1>18, <3>1
  <2> QED
    BY <2>1, <2>2
<1> QED
  BY <1>6, <1>8, <1>20, <1>21, <1>22

(* The fields of the list are those of the pieces up to line p, in order.   *)
ListOf(list, p) ==
  /\ Len(list) = Cardinality(Closers(p))
  /\ \A c \in Closers(p) :
       LET fld == list[Cardinality(Closers(c))]
       IN  fld.name = text[Opener(c)].name /\ fld.str = Str(Opener(c), c)
  /\ \A x \in 1 .. Len(list) : \E c \in Closers(p) : Cardinality(Closers(c)) = x

Closed(a, b) == \E c \in a .. b : text[c].closed

(* What has been cut is in the list, and nothing else. *)
InfoInv ==
  /\ InfoTyped
  /\ info \in {"unset", "loading"} => fld_list \in Seq(Fields)
  /\ info = "unset" => text = <<>> /\ rest = <<>> /\ fld_list = <<>> /\ ~cut
  /\ fld_list = Garbage => ~Closed(1, Len(text))
  /\ \E p \in Nat :
       /\ CutAt(p, rest) /\ (cut <=> p > 0)
       /\ EveryPieceKeyed /\ info \notin {"unset", "loading"} => ~Closed(p + 1, Len(text))
       /\ EveryPieceKeyed /\ fld_list # Garbage => ListOf(fld_list, p)

LEMMA SameText ==
  ASSUME text' = text
  PROVE  /\ \A c : Opener(c)' = Opener(c) /\ Closers(c)' = Closers(c)
         /\ \A p, s : CutAt(p, s)' <=> CutAt(p, s)
         /\ \A a, b : Closed(a, b)' <=> Closed(a, b)
         /\ EveryPieceKeyed' <=> EveryPieceKeyed
         /\ \A l, p : ListOf(l, p)' <=> ListOf(l, p)
<1>1. \A i, c : Opens(i, c)' <=> Opens(i, c)
  BY DEF Opens
<1>2. \A c : Opener(c)' = Opener(c)
  BY DEF Opener, Opens
<1>3. \A c : Closers(c)' = Closers(c)
  BY <1>2 DEF Closers
<1>4. \A p, s : CutAt(p, s)' <=> CutAt(p, s)
  BY DEF CutAt
<1>5. \A a, b : Closed(a, b)' <=> Closed(a, b)
  BY DEF Closed
<1>6. EveryPieceKeyed' <=> EveryPieceKeyed
  BY <1>1 DEF EveryPieceKeyed
<1>7. \A i, c : Str(i, c)' = Str(i, c)
  BY DEF Str
<1>8. \A l, p : ListOf(l, p)' <=> ListOf(l, p)
  BY <1>2, <1>3, <1>7 DEF ListOf, Str
<1> QED
  BY <1>2, <1>3, <1>4, <1>5, <1>6, <1>8

LEMMA InfoStarts ==
  ASSUME InfoInit
  PROVE  InfoInv
<1>1. text = <<>> /\ rest = <<>> /\ fld_list = <<>> /\ cut = FALSE /\ info = "unset"
      /\ commands = <<>> /\ printed = <<>>
  BY DEF InfoInit
<1>2. InfoTyped
  <2>1. /\ text \in Seq(TextLines) /\ rest \in Seq(TextLines) /\ fld_list \in Seq(Fields)
        /\ commands \in Seq(Commands) /\ printed \in Seq(Fields)
    BY <1>1
  <2> QED
    BY <1>1, <2>1 DEF InfoTyped
<1>3. Len(text) = 0 /\ SubSeq(text, 1, 0) = <<>>
  BY <1>1
<1>4. CutAt(0, rest) /\ ~Closed(1, Len(text))
  BY <1>1, <1>3 DEF CutAt, Closed
<1>5. ListOf(fld_list, 0)
  <2>1. Closers(0) = {} /\ Len(fld_list) = 0
    BY <1>1 DEF Closers
  <2> QED
    BY <2>1, FS_EmptySet DEF ListOf
<1>6. fld_list \in Seq(Fields)
  BY <1>1
<1> QED
  BY <1>1, <1>2, <1>4, <1>5, <1>6 DEF InfoInv

LEMMA LoadKeeps ==
  ASSUME InfoInv, NEW string \in Seq(TextLines), Load(string)
  PROVE  InfoInv'
<1>1. /\ info = "unset" /\ info' = "loading" /\ text' = string /\ rest' = string
      /\ fld_list' = <<>> /\ ~cut /\ UNCHANGED <<fld_list, cut, commands, printed>>
  BY DEF InfoInv, Load
<1>2. InfoTyped'
  BY <1>1 DEF InfoInv, InfoTyped
<1>3. fld_list' \in Seq(Fields) /\ fld_list' # Garbage
  BY <1>1, FieldAssumption DEF InfoInv
<1>4. CutAt(0, rest)'
  BY <1>1, SubSeqFull DEF CutAt
<1>5. ListOf(fld_list, 0)'
  <2>1. Closers(0)' = {} /\ Len(fld_list') = 0
    BY <1>1 DEF Closers
  <2>2. Cardinality(Closers(0)') = 0 /\ 1 .. Len(fld_list') = {}
    BY <2>1, FS_EmptySet
  <2> QED
    BY <2>1, <2>2 DEF ListOf
<1> QED
  BY <1>1, <1>2, <1>3, <1>4, <1>5 DEF InfoInv

LEMMA LoadFieldKeeps ==
  ASSUME InfoInv, LoadField
  PROVE  InfoInv'
<1>1. /\ InfoTyped /\ info = "loading" /\ fld_list \in Seq(Fields) /\ text \in Seq(TextLines)
      /\ fld_list # Garbage
  BY FieldAssumption DEF InfoInv, InfoTyped, LoadField
<1>2. PICK p \in Nat :
        CutAt(p, rest) /\ (EveryPieceKeyed /\ fld_list # Garbage => ListOf(fld_list, p))
  BY DEF InfoInv
<1>3. PICK n, piece :
        /\ n \in 1 .. Len(rest) /\ piece = SubSeq(rest, 1, n) /\ _strsep(n) /\ Keyed(piece)
        /\ fld_list' = (LET new == info_new_field(piece)
                        IN  IF new.name \in FieldNames THEN Append(fld_list, new) ELSE fld_list)
        /\ rest' = SubSeq(rest, n + 1, Len(rest))
  BY DEF LoadField
<1>4. cut' = TRUE /\ UNCHANGED <<info, text, commands, printed>>
  BY DEF LoadField
<1>5. PICK c : c = p + n
  OBVIOUS
<1>6. /\ c \in p + 1 .. Len(text) /\ text[c].closed
      /\ \A j \in p + 1 .. c - 1 : ~text[j].closed
      /\ CutAt(c, rest')
  <2>1. /\ p + n \in p + 1 .. Len(text) /\ text[p + n].closed
        /\ \A j \in p + 1 .. p + n - 1 : ~text[j].closed
        /\ CutAt(p + n, SubSeq(rest, n + 1, Len(rest)))
    BY <1>1, <1>2, <1>3, PieceIs
  <2> QED
    BY <1>3, <1>5, <2>1
<1>7. c \in Nat /\ c > p /\ c > 0
  BY <1>1, <1>2, <1>6
<1>8. PICK new : new = info_new_field(piece)
  OBVIOUS
<1>9. /\ new.name = text[Opener(c)].name /\ new.str = Str(Opener(c), c)
      /\ new \in [name : FieldNames \cup {Unknown}, type : {"str", "nul"}, str : Seq(Values \cup {Garbage})]
  BY <1>1, <1>2, <1>3, <1>5, <1>8, FieldIs
<1>10. fld_list' = IF new.name \in FieldNames THEN Append(fld_list, new) ELSE fld_list
  BY <1>3, <1>8
<1>11. new.name \in FieldNames => new \in Fields
  BY <1>9 DEF Fields
<1>12. fld_list' \in Seq(Fields)
  BY <1>1, <1>10, <1>11, AppendProperties
<1>13. fld_list' # Garbage
  BY <1>12, FieldAssumption
<1>14. rest' \in Seq(TextLines)
  <2>1. c + 1 \in Int /\ Len(text) \in Int /\ \A j \in c + 1 .. Len(text) : text[j] \in TextLines
    BY <1>1, <1>7
  <2>2. SubSeq(text, c + 1, Len(text)) \in Seq(TextLines)
    BY <2>1, SubSeqProperties
  <2> QED
    BY <1>6, <2>2 DEF CutAt
<1>15. InfoTyped'
  BY <1>1, <1>4, <1>12, <1>14 DEF InfoTyped
<1>16. ASSUME EveryPieceKeyed PROVE ListOf(fld_list', c)
  <2>1. ListOf(fld_list, p)
    BY <1>1, <1>2, <1>16
  <2>2. PICK k \in Nat : k = Len(fld_list) /\ k = Cardinality(Closers(p))
    BY <1>1, <2>1 DEF ListOf
  <2>3. \A b \in Closers(p) : Cardinality(Closers(b)) \in 1 .. k
    BY <2>2, ClosersRank
  <2>4. CASE text[Opener(c)].name \in FieldNames
    <3>1. /\ Closers(c) = Closers(p) \cup {c} /\ c \notin Closers(p)
          /\ Cardinality(Closers(c)) = k + 1
      BY <1>6, <1>7, <2>2, <2>4, ClosersGrow
    <3>2. /\ Len(fld_list') = k + 1 /\ fld_list'[k + 1] = new
          /\ \A x \in 1 .. k : fld_list'[x] = fld_list[x]
      <4>1. new \in Fields /\ fld_list' = Append(fld_list, new)
        BY <1>9, <1>10, <1>11, <2>4
      <4>2. /\ Len(Append(fld_list, new)) = Len(fld_list) + 1
            /\ Append(fld_list, new)[Len(fld_list) + 1] = new
            /\ \A x \in 1 .. Len(fld_list) : Append(fld_list, new)[x] = fld_list[x]
        BY <1>1, <4>1, AppendProperties
      <4> QED
        BY <2>2, <4>1, <4>2
    <3>3. ASSUME NEW b \in Closers(c)
          PROVE  /\ fld_list'[Cardinality(Closers(b))].name = text[Opener(b)].name
                 /\ fld_list'[Cardinality(Closers(b))].str = Str(Opener(b), b)
      <4>1. CASE b = c
        BY <1>9, <3>1, <3>2, <4>1
      <4>2. CASE b \in Closers(p)
        <5>1. fld_list'[Cardinality(Closers(b))] = fld_list[Cardinality(Closers(b))]
          BY <2>3, <3>2, <4>2
        <5> QED
          BY <2>1, <4>2, <5>1 DEF ListOf
      <4> QED
        BY <3>1, <4>1, <4>2
    <3>4. ASSUME NEW x \in 1 .. Len(fld_list')
          PROVE  \E b \in Closers(c) : Cardinality(Closers(b)) = x
      <4>1. x = k + 1 \/ x \in 1 .. Len(fld_list)
        BY <2>2, <3>2
      <4> QED
        BY <2>1, <3>1, <4>1 DEF ListOf
    <3> QED
      BY <3>1, <3>2, <3>3, <3>4 DEF ListOf
  <2>5. CASE text[Opener(c)].name \notin FieldNames
    <3>1. Closers(c) = Closers(p)
      BY <1>6, <1>7, <2>5, ClosersGrow
    <3>2. fld_list' = fld_list
      BY <1>9, <1>10, <2>5
    <3> QED
      BY <2>1, <3>1, <3>2 DEF ListOf
  <2> QED
    BY <2>4, <2>5
<1>17. /\ CutAt(c, rest)' /\ cut' /\ c > 0
       /\ (EveryPieceKeyed /\ fld_list # Garbage => ListOf(fld_list, c))'
  <2>1. CutAt(c, rest)'
    BY <1>4, <1>6 DEF CutAt
  <2>2. EveryPieceKeyed' <=> EveryPieceKeyed
    BY <1>4, SameText
  <2>3. ListOf(fld_list, c)' <=> ListOf(fld_list', c)
    BY <1>4, SameText DEF ListOf, Str
  <2> QED
    BY <1>4, <1>7, <1>16, <2>1, <2>2, <2>3
<1> QED
  BY <1>1, <1>4, <1>7, <1>12, <1>13, <1>15, <1>17 DEF InfoInv

(* A piece without a key is closed by a line that nothing opens. *)
LEMMA UnmatchedIs ==
  ASSUME text \in Seq(TextLines), NEW p, CutAt(p, rest), NEW n \in 1 .. Len(rest), _strsep(n),
         ~Keyed(SubSeq(rest, 1, n))
  PROVE  ~EveryPieceKeyed
<1>1. /\ p \in Nat /\ p + n \in p + 1 .. Len(text) /\ text[p + n].closed
      /\ Len(SubSeq(rest, 1, n)) = n
      /\ \A j \in 1 .. n : SubSeq(rest, 1, n)[j] = text[p + j]
  BY PieceIs
<1>2. p > 0 => text[p].closed
  BY DEF CutAt
<1>3. PICK c \in 1 .. Len(text) : c = p + n
  BY <1>1
<1> SUFFICES ASSUME EveryPieceKeyed PROVE FALSE
  OBVIOUS
<1>4. PICK i \in 1 .. c : Opens(i, c)
  BY <1>1, <1>3 DEF EveryPieceKeyed
<1>5. CASE i <= p
  <2>1. p \in i .. c - 1 /\ p > 0
    BY <1>1, <1>3, <1>5
  <2> QED
    BY <1>2, <1>4, <2>1 DEF Opens
<1>6. CASE i > p
  <2>1. PICK k : k = i - p
    OBVIOUS
  <2>2. k \in 1 .. n /\ p + k = i
    BY <1>1, <1>3, <1>6, <2>1
  <2>3. SubSeq(rest, 1, n)[k].name # NoKey
    BY <1>1, <1>4, <2>2 DEF Opens
  <2> QED
    BY <1>1, <2>2, <2>3 DEF Keyed
<1> QED
  BY <1>1, <1>3, <1>5, <1>6

LEMMA LoadUnmatchedKeeps ==
  ASSUME InfoInv, LoadUnmatched
  PROVE  InfoInv' /\ ~EveryPieceKeyed'
<1>1. /\ InfoTyped /\ info = "loading" /\ fld_list \in Seq(Fields) /\ text \in Seq(TextLines)
  BY DEF InfoInv, InfoTyped, LoadUnmatched
<1>2. PICK p \in Nat : CutAt(p, rest)
  BY DEF InfoInv
<1>3. PICK n \in 1 .. Len(rest) :
        /\ _strsep(n) /\ ~Keyed(SubSeq(rest, 1, n))
        /\ rest' = SubSeq(rest, n + 1, Len(rest))
  BY DEF LoadUnmatched
<1>4. cut' = TRUE /\ UNCHANGED <<text, commands, printed>> /\ info' \in {"loading", "crashed"}
  BY <1>1 DEF LoadUnmatched
<1>5. /\ p + n \in p + 1 .. Len(text) /\ text[p + n].closed
      /\ CutAt(p + n, rest')
  BY <1>1, <1>2, <1>3, PieceIs
<1>6. ~EveryPieceKeyed
  BY <1>1, <1>2, <1>3, UnmatchedIs
<1>7. fld_list' \in Seq(Fields)
  <2>1. CASE fld_list' = fld_list
    BY <1>1, <2>1
  <2>2. CASE \E f \in FieldNames, t \in {"str", "nul"} :
               fld_list' = Append(fld_list, [name |-> f, type |-> t, str |-> <<Garbage>>])
    <3>1. PICK f \in FieldNames, t \in {"str", "nul"} :
            fld_list' = Append(fld_list, [name |-> f, type |-> t, str |-> <<Garbage>>])
      BY <2>2
    <3>2. <<Garbage>> \in Seq(Values \cup {Garbage})
      OBVIOUS
    <3>3. [name |-> f, type |-> t, str |-> <<Garbage>>] \in Fields
      BY <3>2 DEF Fields
    <3> QED
      BY <1>1, <3>1, <3>3, AppendProperties
  <2> QED
    BY <2>1, <2>2 DEF LoadUnmatched
<1>8. fld_list' # Garbage
  BY <1>7, FieldAssumption
<1>9. rest' \in Seq(TextLines)
  <2>1. PICK c \in Nat : c = p + n
    BY <1>2, <1>5
  <2>2. c + 1 \in Int /\ Len(text) \in Int /\ \A j \in c + 1 .. Len(text) : text[j] \in TextLines
    BY <1>1, <2>1
  <2>3. SubSeq(text, c + 1, Len(text)) \in Seq(TextLines)
    BY <2>2, SubSeqProperties
  <2> QED
    BY <1>5, <2>1, <2>3 DEF CutAt
<1>10. InfoTyped'
  BY <1>1, <1>4, <1>7, <1>9 DEF InfoTyped
<1>11. ~EveryPieceKeyed'
  BY <1>4, <1>6, SameText
<1>12. PICK c \in Nat : c = p + n /\ c > 0
  BY <1>2, <1>5
<1>13. CutAt(c, rest)'
  BY <1>4, <1>5, <1>12 DEF CutAt
<1> QED
  BY <1>4, <1>7, <1>8, <1>10, <1>11, <1>12, <1>13 DEF InfoInv

LEMMA LoadEndsKeeps ==
  ASSUME InfoInv, LoadEnds
  PROVE  InfoInv'
<1>1. /\ InfoTyped /\ info = "loading" /\ fld_list \in Seq(Fields) /\ text \in Seq(TextLines)
      /\ fld_list # Garbage
  BY FieldAssumption DEF InfoInv, InfoTyped, LoadEnds
<1>2. PICK p \in Nat :
        /\ CutAt(p, rest) /\ (cut <=> p > 0)
        /\ EveryPieceKeyed /\ fld_list # Garbage => ListOf(fld_list, p)
  BY DEF InfoInv
<1>3. /\ \A n \in 1 .. Len(rest) : ~rest[n].closed
      /\ info' = "loaded" /\ UNCHANGED <<text, rest, cut, commands, printed>>
      /\ fld_list' = fld_list \/ (~cut /\ fld_list' = Garbage)
  BY DEF LoadEnds
<1>4. InfoTyped'
  BY <1>1, <1>3 DEF InfoTyped
<1>5. ~Closed(p + 1, Len(text))
  <2>1. PICK l \in Nat : l = Len(text)
    BY <1>1
  <2>2. p \in 0 .. l /\ rest = SubSeq(text, p + 1, l)
    BY <1>2, <2>1 DEF CutAt
  <2>3. p + 1 \in Int /\ l \in Int /\ \A j \in p + 1 .. l : text[j] \in TextLines
    BY <1>1, <2>1
  <2>4. /\ Len(SubSeq(text, p + 1, l)) = IF p + 1 <= l THEN l - (p + 1) + 1 ELSE 0
        /\ \A j \in 1 .. l - (p + 1) + 1 : SubSeq(text, p + 1, l)[j] = text[p + 1 + j - 1]
    BY <2>3, SubSeqProperties
  <2> SUFFICES ASSUME NEW c \in p + 1 .. l PROVE ~text[c].closed
    BY <2>1 DEF Closed
  <2>5. PICK k : k = c - p
    OBVIOUS
  <2>6. /\ k \in 1 .. l - (p + 1) + 1 /\ p + 1 <= l /\ p + 1 + k - 1 = c
        /\ k \in 1 .. (IF p + 1 <= l THEN l - (p + 1) + 1 ELSE 0)
    BY <2>2, <2>5
  <2> QED
    BY <1>3, <2>2, <2>4, <2>6
<1>6. fld_list' = Garbage => p = 0 /\ ~Closed(1, Len(text))
  <2> SUFFICES ASSUME fld_list' = Garbage PROVE p = 0 /\ ~Closed(1, Len(text))
    OBVIOUS
  <2>1. p = 0 /\ p + 1 = 1
    BY <1>1, <1>2, <1>3
  <2> QED
    BY <1>5, <2>1
<1>7. /\ \A s : CutAt(p, s)' <=> CutAt(p, s)
      /\ \A a, b : Closed(a, b)' <=> Closed(a, b)
      /\ EveryPieceKeyed' <=> EveryPieceKeyed
      /\ \A l : ListOf(l, p)' <=> ListOf(l, p)
  BY <1>3, SameText
<1>8. CutAt(p, rest)'
  BY <1>2, <1>3 DEF CutAt
<1>9. ~Closed(p + 1, Len(text))' /\ (fld_list' = Garbage => ~Closed(1, Len(text))')
  BY <1>3, <1>5, <1>6 DEF Closed
<1>10. fld_list' = fld_list => (ListOf(fld_list, p) => ListOf(fld_list, p)')
  BY <1>3, <1>7 DEF ListOf, Str
<1> QED
  BY <1>1, <1>2, <1>3, <1>4, <1>7, <1>8, <1>9, <1>10 DEF InfoInv

(* Printing and unloading leave the list alone. *)
LEMMA ListKept ==
  ASSUME InfoInv, InfoTyped', UNCHANGED <<text, rest, fld_list, cut>>,
         info' \notin {"unset", "loading"},
         info \in {"unset", "loading"} => text = <<>>
  PROVE  InfoInv'
<1>1. PICK p \in Nat :
       /\ CutAt(p, rest) /\ (cut <=> p > 0)
       /\ EveryPieceKeyed /\ info \notin {"unset", "loading"} => ~Closed(p + 1, Len(text))
       /\ EveryPieceKeyed /\ fld_list # Garbage => ListOf(fld_list, p)
  BY DEF InfoInv
<1>2. text = <<>> => ~Closed(p + 1, Len(text))
  BY DEF Closed
<1>3. CutAt(p, rest)' <=> CutAt(p, rest)
  BY DEF CutAt
<1>4. EveryPieceKeyed' <=> EveryPieceKeyed
  BY SameText
<1>5. Closed(p + 1, Len(text))' <=> Closed(p + 1, Len(text))
  BY DEF Closed
<1>6. Closed(1, Len(text))' <=> Closed(1, Len(text))
  BY DEF Closed
<1>7. ListOf(fld_list, p)' <=> ListOf(fld_list, p)
  <2>1. PICK list : list = fld_list /\ list = fld_list'
    OBVIOUS
  <2>2. ListOf(list, p)' <=> ListOf(list, p)
    BY SameText
  <2>3. ListOf(fld_list, p)' <=> ListOf(list, p)'
    BY <2>1 DEF ListOf
  <2> QED
    BY <2>1, <2>2, <2>3
<1> QED
  BY <1>1, <1>2, <1>3, <1>4, <1>5, <1>6, <1>7 DEF InfoInv

(* info_get_fld() finds the first field of the name. *)
LEMMA FieldFound ==
  ASSUME fld_list \in Seq(Fields) \cup {Garbage}, NEW name, Has(name)
  PROVE  /\ fld_list \in Seq(Fields) /\ First(name) \in 1 .. Len(fld_list)
         /\ info_get_fld(name) = fld_list[First(name)] /\ info_get_fld(name) \in Fields
         /\ fld_list[First(name)].name = name
         /\ \A j \in 1 .. First(name) - 1 : fld_list[j].name # name
<1>1. fld_list \in Seq(Fields) /\ \E i \in 1 .. Len(fld_list) : fld_list[i].name = name
  BY DEF Has
<1> DEFINE T == {i \in 1 .. Len(fld_list) : fld_list[i].name = name}
<1>2. T \subseteq Nat /\ T # {}
  BY <1>1
<1>3. PICK i \in T : \A j \in T : i <= j
  BY <1>2, Smallest
<1>4. i \in 1 .. Len(fld_list) /\ fld_list[i].name = name /\ \A j \in 1 .. i - 1 : fld_list[j].name # name
  <2>1. ASSUME NEW j \in 1 .. i - 1, fld_list[j].name = name PROVE FALSE
    <3>1. j \in T /\ j < i
      BY <1>1, <1>3, <2>1
    <3> QED
      BY <1>3, <3>1
  <2> QED
    BY <1>3, <2>1
<1>5. \E k \in 1 .. Len(fld_list) :
        fld_list[k].name = name /\ \A j \in 1 .. k - 1 : fld_list[j].name # name
  BY <1>4
<1>6. /\ First(name) \in 1 .. Len(fld_list) /\ fld_list[First(name)].name = name
      /\ \A j \in 1 .. First(name) - 1 : fld_list[j].name # name
  BY <1>5, Zenon DEF First
<1>7. info_get_fld(name) = fld_list[First(name)]
  BY DEF info_get_fld, First
<1>8. fld_list[First(name)] \in Fields
  BY <1>1, <1>6
<1> QED
  BY <1>1, <1>6, <1>7, <1>8

(* "all" stands for nine fields, in the order of the usage text. *)
LEMMA AllIs ==
  /\ All = NamedByAll /\ All \in Seq(FieldNames) /\ Len(All) = 9
  /\ FieldNames \subseteq Commands /\ "all" \notin FieldNames
  /\ \A name \in {"package"} \cup {c[2] : c \in TableColumns} : \E k \in 1 .. 9 : All[k] = name
<1>1. Len(fld_map) = 10
  BY DEF fld_map
<1>2. FieldNames = {"package", "maintainer", "branch", "architecture", "version", "release",
                    "installed-size", "dependancies", "homepage", "description"}
  BY <1>1 DEF FieldNames, fld_map
<1>3. ASSUME NEW S, NEW a \in S, NEW b \in S, NEW c \in S, NEW d \in S, NEW e \in S, NEW f \in S,
             NEW g \in S, NEW h \in S, NEW i \in S
      PROVE  <<a, b, c, d, e, f, g, h, i>> \in Seq(S)
  OBVIOUS
<1>4. PICK S : S = FieldNames
  OBVIOUS
<1>5. /\ "package" \in S /\ "maintainer" \in S /\ "architecture" \in S /\ "version" \in S
      /\ "dependancies" \in S /\ "homepage" \in S /\ "release" \in S /\ "description" \in S
      /\ "installed-size" \in S
  BY <1>2, <1>4
<1>6. All \in Seq(S)
  BY <1>3, <1>5 DEF All
<1>7. Len(All) = 9
  BY DEF All
<1>8. FieldNames \subseteq Commands /\ "all" \notin FieldNames
  BY <1>2, FieldAssumption
<1>9. All = NamedByAll
  BY DEF All, NamedByAll
<1>10. \A name \in {"package"} \cup {c[2] : c \in TableColumns} : \E k \in 1 .. 9 : All[k] = name
  <2>1. {"package"} \cup {c[2] : c \in TableColumns} \subseteq
          {"package", "maintainer", "architecture", "version", "dependancies", "homepage", "release",
           "description", "installed-size"}
    BY DEF TableColumns
  <2>2. /\ All[1] = "package" /\ All[2] = "maintainer" /\ All[3] = "architecture" /\ All[4] = "version"
        /\ All[5] = "dependancies" /\ All[6] = "homepage" /\ All[7] = "release"
        /\ All[8] = "description" /\ All[9] = "installed-size"
    BY DEF All
  <2>3. \A k \in {1, 2, 3, 4, 5, 6, 7, 8, 9} : k \in 1 .. 9
    OBVIOUS
  <2> QED
    BY <2>1, <2>2, <2>3
<1> QED
  BY <1>4, <1>6, <1>7, <1>8, <1>9, <1>10

LEMMA PrintKeeps ==
  ASSUME InfoInv,
         PrintNothing \/ PrintAll \/ PrintField \/ PrintEnds \/ \E words \in Seq(Commands) : PrintStart(words)
  PROVE  InfoInv'
<1>1. InfoTyped
  BY DEF InfoInv
<1>2. CASE PrintNothing
  <2>1. InfoTyped' /\ UNCHANGED <<text, rest, fld_list, cut>> /\ info' = "crashed" /\ info = "loaded"
    BY <1>1, <1>2 DEF PrintNothing, InfoTyped
  <2> QED
    BY <2>1, ListKept
<1>3. CASE PrintAll
  <2>1. All \in Seq(Commands)
    BY AllIs, SeqMonotonic
  <2>2. InfoTyped' /\ UNCHANGED <<text, rest, fld_list, cut>> /\ info' = "printing" /\ info = "printing"
    BY <1>1, <1>3, <2>1 DEF PrintAll, InfoTyped
  <2> QED
    BY <2>2, ListKept
<1>4. CASE PrintField
  <2>1. /\ info = "printing" /\ info' \in {"printing", "crashed"} /\ commands # <<>>
        /\ UNCHANGED <<text, rest, fld_list, cut>>
    BY <1>4 DEF PrintField
  <2>2. commands' \in Seq(Commands) /\ printed' \in Seq(Fields)
    <3>1. CASE ~Has(Head(commands))
      BY <1>1, <1>4, <3>1 DEF PrintField, InfoTyped
    <3>2. CASE Has(Head(commands))
      <4>1. PICK fld \in Fields : fld = info_get_fld(Head(commands))
        BY <1>1, <3>2, FieldFound DEF InfoTyped
      <4>2. /\ printed' = (IF fld.type = "str" THEN Append(printed, fld) ELSE printed)
            /\ commands' = Tail(commands)
        BY <1>4, <3>2, <4>1 DEF PrintField
      <4>3. printed' \in Seq(Fields)
        BY <1>1, <4>1, <4>2, AppendProperties DEF InfoTyped
      <4>4. commands' \in Seq(Commands)
        BY <1>1, <2>1, <4>2, HeadTailProperties DEF InfoTyped
      <4> QED
        BY <4>3, <4>4
    <3> QED
      BY <3>1, <3>2
  <2>3. InfoTyped'
    BY <1>1, <2>1, <2>2 DEF InfoTyped
  <2> QED
    BY <2>1, <2>3, ListKept
<1>5. CASE PrintEnds
  <2>1. <<>> \in Seq(Commands)
    OBVIOUS
  <2>2. InfoTyped' /\ UNCHANGED <<text, rest, fld_list, cut>> /\ info' = "loaded" /\ info = "printing"
    BY <1>1, <1>5, <2>1 DEF PrintEnds, InfoTyped
  <2> QED
    BY <2>2, ListKept
<1>6. ASSUME NEW words \in Seq(Commands), PrintStart(words)
      PROVE  InfoInv'
  <2>1. InfoTyped' /\ UNCHANGED <<text, rest, fld_list, cut>> /\ info' = "printing" /\ info = "loaded"
    BY <1>1, <1>6 DEF PrintStart, InfoTyped
  <2> QED
    BY <2>1, ListKept
<1> QED
  BY <1>2, <1>3, <1>4, <1>5, <1>6

LEMMA UnloadKeeps ==
  ASSUME InfoInv, Unload
  PROVE  InfoInv'
<1>1. /\ info \in {"unset", "loaded"} /\ info' \in {"unloaded", "crashed"}
      /\ UNCHANGED <<text, rest, fld_list, cut, commands, printed>>
  BY DEF Unload
<1>2. InfoTyped'
  BY <1>1 DEF InfoInv, InfoTyped
<1>3. info = "unset" => text = <<>>
  BY DEF InfoInv
<1> QED
  BY <1>1, <1>2, <1>3, ListKept

LEMMA SameInfoKeeps ==
  ASSUME InfoInv, UNCHANGED infoVars
  PROVE  InfoInv'
<1>1. PICK p \in Nat :
       /\ CutAt(p, rest) /\ (cut <=> p > 0)
       /\ EveryPieceKeyed /\ info \notin {"unset", "loading"} => ~Closed(p + 1, Len(text))
       /\ EveryPieceKeyed /\ fld_list # Garbage => ListOf(fld_list, p)
  BY DEF InfoInv
<1>2. UNCHANGED <<info, text, rest, fld_list, cut, commands, printed>>
  BY DEF infoVars
<1>3. /\ CutAt(p, rest)' <=> CutAt(p, rest)
      /\ Closed(p + 1, Len(text))' <=> Closed(p + 1, Len(text))
      /\ Closed(1, Len(text))' <=> Closed(1, Len(text))
  BY <1>2 DEF CutAt, Closed
<1>4. EveryPieceKeyed' <=> EveryPieceKeyed
  BY <1>2, SameText
<1>5. ListOf(fld_list, p)' <=> ListOf(fld_list, p)
  <2>1. PICK list : list = fld_list /\ list = fld_list'
    BY <1>2
  <2>2. ListOf(list, p)' <=> ListOf(list, p)
    BY <1>2, SameText
  <2>3. ListOf(fld_list, p)' <=> ListOf(list, p)'
    BY <2>1 DEF ListOf
  <2> QED
    BY <2>1, <2>2, <2>3
<1>6. InfoTyped'
  BY <1>2 DEF InfoInv, InfoTyped
<1> QED
  BY <1>1, <1>2, <1>3, <1>4, <1>5, <1>6 DEF InfoInv

(* The list is as the text says once it is loaded. *)
LEMMA ListIsFaithful ==
  ASSUME InfoInv, info \notin {"unset", "loading"}, fld_list # Garbage, EveryPieceKeyed
  PROVE  ListOf(fld_list, Len(text))
<1>1. text \in Seq(TextLines) /\ Len(text) \in Nat
  BY DEF InfoInv, InfoTyped
<1>2. PICK p \in Nat : CutAt(p, rest) /\ ~Closed(p + 1, Len(text)) /\ ListOf(fld_list, p)
  BY DEF InfoInv
<1>3. Closers(Len(text)) = Closers(p)
  <2>1. p \in 0 .. Len(text)
    BY <1>2 DEF CutAt
  <2>2. \A c \in 1 .. Len(text) : text[c].closed => c \in 1 .. p
    BY <1>1, <1>2, <2>1 DEF Closed
  <2>3. 1 .. p \subseteq 1 .. Len(text)
    BY <1>1, <2>1
  <2> QED
    BY <2>2, <2>3 DEF Closers
<1> QED
  BY <1>2, <1>3 DEF ListOf

-----------------------------------------------------------------------------
(* Deps: the places of the text, and how many of them stand up to one.      *)

LEMMA PlaceIs ==
  ASSUME dep_str \in Groups
  PROVE  /\ \A p \in Places : /\ p = <<p[1], p[2]>> /\ p[1] \in 1 .. Len(dep_str)
                              /\ p[2] \in 1 .. Len(dep_str[p[1]])
         /\ \A g \in 1 .. Len(dep_str) : \A a \in 1 .. Len(dep_str[g]) : <<g, a>> \in Places
         /\ \A g \in 1 .. Len(dep_str) : dep_str[g] \in Seq(Alternatives) /\ Len(dep_str[g]) \in Nat
                                          /\ Len(dep_str[g]) > 0
<1>1. dep_str \in Seq(Seq(Alternatives) \ {<<>>})
  BY DEF Groups
<1>2. \A g \in 1 .. Len(dep_str) : dep_str[g] \in Seq(Alternatives) /\ Len(dep_str[g]) \in Nat
                                     /\ Len(dep_str[g]) > 0
  <2> TAKE g \in 1 .. Len(dep_str)
  <2>1. dep_str[g] \in Seq(Alternatives) /\ dep_str[g] # <<>>
    BY <1>1
  <2> QED
    BY <2>1
<1>3. \A p \in Places : \E g \in 1 .. Len(dep_str) : p \in {g} \X (1 .. Len(dep_str[g]))
  BY DEF Places
<1>4. \A g \in 1 .. Len(dep_str) : \A a \in 1 .. Len(dep_str[g]) : <<g, a>> \in Places
  BY DEF Places
<1> QED
  BY <1>2, <1>3, <1>4

LEMMA PlacesFinite ==
  ASSUME dep_str \in Groups
  PROVE  IsFiniteSet(Places)
<1>1. Len(dep_str) \in Nat /\ IsFiniteSet(1 .. Len(dep_str))
  BY FS_Interval DEF Groups
<1> DEFINE f == [g \in 1 .. Len(dep_str) |-> {g} \X (1 .. Len(dep_str[g]))]
           T == {{g} \X (1 .. Len(dep_str[g])) : g \in 1 .. Len(dep_str)}
<1>2. f \in Surjection(1 .. Len(dep_str), T)
  BY DEF Surjection
<1>3. IsFiniteSet(T)
  <2> HIDE DEF f, T
  <2> QED
    BY <1>1, <1>2, FS_Surjection
<1>4. \A S \in T : IsFiniteSet(S)
  <2> SUFFICES ASSUME NEW g \in 1 .. Len(dep_str) PROVE IsFiniteSet({g} \X (1 .. Len(dep_str[g])))
    OBVIOUS
  <2>1. PICK n \in Int : n = Len(dep_str[g])
    BY PlaceIs
  <2>2. IsFiniteSet(1 .. n) /\ IsFiniteSet({g})
    <3>1. IsFiniteSet(1 .. n)
      BY FS_Interval
    <3>2. IsFiniteSet({g})
      BY FS_Singleton
    <3> QED
      BY <3>1, <3>2
  <2> QED
    BY <2>1, <2>2, FS_Product
<1> HIDE DEF f, T
<1>5. IsFiniteSet(UNION T)
  BY <1>3, <1>4, FS_UNION
<1> QED
  BY <1>5 DEF Places, T

LEMMA UpToIs ==
  ASSUME dep_str \in Groups, NEW g, NEW r
  PROVE  /\ \A q : q \in UpTo(<<g, r>>) <=> q \in Places /\ (q[1] < g \/ (q[1] = g /\ q[2] <= r))
         /\ IsFiniteSet(UpTo(<<g, r>>)) /\ Rank(<<g, r>>) \in Nat
         /\ Rank(<<g, r>>) = Cardinality(UpTo(<<g, r>>))
<1>1. UpTo(<<g, r>>) = {q \in Places : q[1] < g \/ (q[1] = g /\ q[2] <= r)}
  BY DEF UpTo
<1>2. UpTo(<<g, r>>) \subseteq Places
  BY <1>1
<1>3. IsFiniteSet(UpTo(<<g, r>>))
  BY <1>2, PlacesFinite, FS_Subset
<1> QED
  BY <1>1, <1>3, FS_CardinalityType DEF Rank

Precedes(p, q) == p[1] < q[1] \/ (p[1] = q[1] /\ p[2] < q[2])

LEMMA RankOrder ==
  ASSUME dep_str \in Groups, NEW p \in Places, NEW q \in Places, Precedes(p, q)
  PROVE  Rank(p) \in Nat /\ Rank(q) \in Nat /\ Rank(p) < Rank(q)
<1>1. PICK g \in Nat, a \in Nat : p = <<g, a>>
  BY PlaceIs
<1>2. PICK h \in Nat, b \in Nat : q = <<h, b>>
  BY PlaceIs
<1>3. g < h \/ (g = h /\ a < b)
  BY <1>1, <1>2 DEF Precedes
<1>4. \A o \in Places : o[1] \in Nat /\ o[2] \in Nat
  BY PlaceIs
<1>5. UpTo(p) \subseteq UpTo(q)
  BY <1>1, <1>2, <1>3, <1>4, UpToIs
<1>6. q \in UpTo(q) /\ q \notin UpTo(p)
  BY <1>1, <1>2, <1>3, UpToIs
<1>7. IsFiniteSet(UpTo(q)) /\ Rank(p) \in Nat /\ Rank(q) \in Nat
      /\ Rank(p) = Cardinality(UpTo(p)) /\ Rank(q) = Cardinality(UpTo(q))
  BY <1>1, <1>2, UpToIs
<1>8. Rank(p) <= Rank(q) /\ Rank(p) # Rank(q)
  BY <1>5, <1>6, <1>7, FS_Subset
<1> QED
  BY <1>7, <1>8

(* Every place has an entry of its own among those up to it. *)
LEMMA RankWithin ==
  ASSUME dep_str \in Groups, NEW g, NEW r, NEW p \in UpTo(<<g, r>>), g \in Nat, r \in Nat
  PROVE  Rank(p) \in 1 .. Rank(<<g, r>>)
<1>1. PICK h \in Nat, b \in Nat : p = <<h, b>> /\ p \in Places /\ (h < g \/ (h = g /\ b <= r))
  <2>1. p \in Places /\ (p[1] < g \/ (p[1] = g /\ p[2] <= r))
    BY UpToIs
  <2>2. p = <<p[1], p[2]>> /\ p[1] \in Nat /\ p[2] \in Nat
    BY <2>1, PlaceIs
  <2> QED
    BY <2>1, <2>2
<1>2. \A o \in Places : o[1] \in Nat /\ o[2] \in Nat
  BY PlaceIs
<1>3. UpTo(<<h, b>>) \subseteq UpTo(<<g, r>>) /\ p \in UpTo(<<h, b>>)
  BY <1>1, <1>2, UpToIs
<1>4. /\ IsFiniteSet(UpTo(<<g, r>>)) /\ IsFiniteSet(UpTo(<<h, b>>))
      /\ Rank(<<g, r>>) \in Nat /\ Rank(<<g, r>>) = Cardinality(UpTo(<<g, r>>))
      /\ Rank(<<h, b>>) \in Nat /\ Rank(<<h, b>>) = Cardinality(UpTo(<<h, b>>))
  BY UpToIs
<1>5. Rank(<<h, b>>) <= Rank(<<g, r>>)
  BY <1>3, <1>4, FS_Subset
<1>6. Rank(<<h, b>>) # 0
  BY <1>3, <1>4, FS_EmptySet
<1> QED
  BY <1>1, <1>4, <1>5, <1>6

(* The next alternative of a group, and the first of the next one. *)
LEMMA RankNext ==
  ASSUME dep_str \in Groups, NEW g \in Nat, NEW r \in Nat, <<g, r + 1>> \in Places
  PROVE  /\ UpTo(<<g, r + 1>>) = UpTo(<<g, r>>) \cup {<<g, r + 1>>}
         /\ <<g, r + 1>> \notin UpTo(<<g, r>>)
         /\ Rank(<<g, r + 1>>) = Rank(<<g, r>>) + 1
<1>1. \A o \in Places : o = <<o[1], o[2]>> /\ o[1] \in Nat /\ o[2] \in Nat
  BY PlaceIs
<1>2. PICK n \in Nat : n = r + 1
  OBVIOUS
<1>3. UpTo(<<g, n>>) = UpTo(<<g, r>>) \cup {<<g, n>>}
  <2>1. ASSUME NEW q \in UpTo(<<g, n>>) PROVE q \in UpTo(<<g, r>>) \cup {<<g, n>>}
    <3>1. q \in Places /\ q = <<q[1], q[2]>> /\ q[1] \in Nat /\ q[2] \in Nat
          /\ (q[1] < g \/ (q[1] = g /\ q[2] <= n))
      BY <1>1, UpToIs
    <3>2. q[1] < g \/ (q[1] = g /\ q[2] <= r) \/ (q[1] = g /\ q[2] = n)
      BY <1>2, <3>1
    <3> QED
      BY <3>1, <3>2, UpToIs
  <2>2. UpTo(<<g, r>>) \subseteq UpTo(<<g, n>>)
    BY <1>1, <1>2, UpToIs
  <2>3. <<g, n>> \in UpTo(<<g, n>>)
    BY <1>2, UpToIs
  <2> QED
    BY <2>1, <2>2, <2>3
<1>4. <<g, n>> \notin UpTo(<<g, r>>)
  BY <1>2, UpToIs
<1>5. IsFiniteSet(UpTo(<<g, r>>)) /\ Rank(<<g, r>>) = Cardinality(UpTo(<<g, r>>))
      /\ Rank(<<g, n>>) = Cardinality(UpTo(<<g, n>>))
  BY UpToIs
<1>6. Rank(<<g, n>>) = Rank(<<g, r>>) + 1
  BY <1>3, <1>4, <1>5, FS_AddElement
<1> QED
  BY <1>2, <1>3, <1>4, <1>6

LEMMA RankNextGroup ==
  ASSUME dep_str \in Groups, NEW g \in Nat, NEW r \in Nat, g = 0 \/ r = Len(dep_str[g])
  PROVE  UpTo(<<g + 1, 0>>) = UpTo(<<g, r>>) /\ Rank(<<g + 1, 0>>) = Rank(<<g, r>>)
<1>1. \A o \in Places : o[1] \in Nat /\ o[2] \in Nat /\ o[1] # 0 /\ o[2] # 0 /\ o[2] <= Len(dep_str[o[1]])
  BY PlaceIs
<1>2. PICK h \in Nat : h = g + 1
  OBVIOUS
<1>3. ASSUME NEW q PROVE q \in UpTo(<<h, 0>>) <=> q \in UpTo(<<g, r>>)
  <2>1. q \in Places => ((q[1] < h \/ (q[1] = h /\ q[2] <= 0)) <=> (q[1] < g \/ (q[1] = g /\ q[2] <= r)))
    BY <1>1, <1>2
  <2>2. q \in UpTo(<<h, 0>>) <=> q \in Places /\ (q[1] < h \/ (q[1] = h /\ q[2] <= 0))
    BY UpToIs
  <2>3. q \in UpTo(<<g, r>>) <=> q \in Places /\ (q[1] < g \/ (q[1] = g /\ q[2] <= r))
    BY UpToIs
  <2> QED
    BY <2>1, <2>2, <2>3
<1>4. UpTo(<<h, 0>>) = UpTo(<<g, r>>)
  BY <1>3
<1> QED
  BY <1>2, <1>4 DEF Rank

(* The entry for a place: an alternative as it is written, of the type that *)
(* the length of its group gives.                                           *)
EntryOf(dep, p) ==
  /\ dep.dep_type = (IF Len(dep_str[p[1]]) = 1 THEN "no" ELSE "or")
  /\ Written(p) # Bad => dep = new_dep(Written(p), dep.dep_type)

EntriesTo(list, g, r) ==
  /\ Len(list) = Rank(<<g, r>>)
  /\ \A p \in UpTo(<<g, r>>) : EntryOf(list[Rank(p)], p)

(* load_deps() is behind the r-th alternative of group g. *)
ReadTo(g, r) ==
  /\ g \in 0 .. Len(dep_str) /\ s3 = SubSeq(dep_str, g + 1, Len(dep_str))
  /\ g = 0 => r = 0 /\ s1 = <<>>
  /\ g > 0 => r \in 0 .. Len(dep_str[g]) /\ s1 = SubSeq(dep_str[g], r + 1, Len(dep_str[g]))
  /\ g > 0 /\ Len(dep_str[g]) = 1 => r = 1

DepsInv ==
  /\ DepsTyped
  /\ deps = "unset" => dep_str = <<>> /\ s3 = <<>> /\ s1 = <<>> /\ dep_list = <<>>
  /\ deps = "crashed" => \E p \in Places : Written(p) = Bad
  /\ deps = "loaded" => s1 = <<>> /\ s3 = <<>>
  /\ deps # "crashed" => \E g \in Nat, r \in Nat : ReadTo(g, r) /\ EntriesTo(dep_list, g, r)

LEMMA SameDepStr ==
  ASSUME dep_str' = dep_str
  PROVE  /\ Places' = Places
         /\ \A p : UpTo(p)' = UpTo(p) /\ Rank(p)' = Rank(p) /\ Written(p)' = Written(p)
         /\ \A d, p : EntryOf(d, p)' <=> EntryOf(d, p)
         /\ \A l, g, r : EntriesTo(l, g, r)' <=> EntriesTo(l, g, r)
<1>1. Places' = Places
  BY DEF Places
<1>2. \A p : UpTo(p)' = UpTo(p)
  BY <1>1 DEF UpTo
<1>3. \A p : Rank(p)' = Rank(p)
  BY <1>2 DEF Rank
<1>4. \A p : Written(p)' = Written(p)
  BY DEF Written
<1>5. \A d, p : EntryOf(d, p)' <=> EntryOf(d, p)
  BY <1>4 DEF EntryOf
<1>6. \A l, g, r : EntriesTo(l, g, r)' <=> EntriesTo(l, g, r)
  BY <1>2, <1>3, <1>5 DEF EntriesTo, EntryOf, Written
<1> QED
  BY <1>1, <1>2, <1>3, <1>4, <1>5, <1>6

LEMMA DepsStarts ==
  ASSUME DepsInit
  PROVE  DepsInv
<1>1. deps = "unset" /\ dep_str = <<>> /\ s3 = <<>> /\ s1 = <<>> /\ dep_list = <<>>
  BY DEF DepsInit
<1>2. DepsTyped
  BY <1>1 DEF DepsTyped, Groups
<1>3. ReadTo(0, 0)
  BY <1>1 DEF ReadTo
<1>4. EntriesTo(dep_list, 0, 0)
  <2>1. Places = {} /\ Len(dep_list) = 0
    BY <1>1 DEF Places
  <2>2. UpTo(<<0, 0>>) = {}
    BY <2>1 DEF UpTo
  <2> QED
    BY <2>1, <2>2, FS_EmptySet DEF EntriesTo, Rank
<1> QED
  BY <1>1, <1>2, <1>3, <1>4 DEF DepsInv

LEMMA LoadDepsKeeps ==
  ASSUME DepsInv, NEW groups \in Groups, LoadDeps(groups)
  PROVE  DepsInv'
<1>1. /\ deps' = "loading" /\ dep_str' = groups /\ s3' = groups /\ s1' = <<>> /\ dep_list' = <<>>
  BY DEF DepsInv, LoadDeps
<1>2. DepsTyped'
  BY <1>1 DEF DepsTyped
<1>3. groups \in Seq(Seq(Alternatives) \ {<<>>}) /\ Len(groups) \in Nat
  BY DEF Groups
<1>4. ReadTo(0, 0)'
  BY <1>1, <1>3, SubSeqFull DEF ReadTo
<1>5. EntriesTo(<<>>, 0, 0)'
  <2>1. \A p \in Places' : \E g \in 1 .. Len(groups) : p \in {g} \X (1 .. Len(groups[g]))
    BY <1>1 DEF Places
  <2>2. \A p \in Places' : p[1] \in Nat /\ p[1] # 0
    BY <1>3, <2>1
  <2>3. UpTo(<<0, 0>>)' = {}
    BY <2>2 DEF UpTo
  <2> QED
    BY <2>3, FS_EmptySet DEF EntriesTo, Rank
<1> QED
  BY <1>1, <1>2, <1>4, <1>5 DEF DepsInv

LEMMA NumberIs ==
  /\ Number("=") = 1 /\ Number("<") = 2 /\ Number(">") = 4
  /\ \A op \in Seq({"=", "<", ">"}) \ {<<>>} : _am_binary(op) \in 1 .. gt + gt
<1>1. Number("=") = 1 /\ Number("<") = 2 /\ Number(">") = 4
  BY DEF Number, eq, lt, gt
<1>2. ASSUME NEW op \in Seq({"=", "<", ">"}) \ {<<>>} PROVE _am_binary(op) \in 1 .. gt + gt
  <2>1. PICK l \in Nat : l = Len(op) /\ l > 0
    OBVIOUS
  <2>2. \A c \in {"=", "<", ">"} : Number(c) \in 1 .. 4
    BY <1>1
  <2>3. CASE l = 1
    <3>1. Number(op[1]) \in 1 .. 4
      BY <2>1, <2>2, <2>3
    <3> QED
      BY <2>1, <2>3, <3>1 DEF _am_binary, gt
  <2>4. CASE l # 1
    <3>1. Number(op[1]) \in 1 .. 4 /\ Number(op[2]) \in 1 .. 4
      BY <2>1, <2>2, <2>4
    <3>2. _am_binary(op) = Number(op[1]) + Number(op[2])
      BY <2>1, <2>4 DEF _am_binary
    <3> QED
      BY <3>1, <3>2 DEF gt
  <2> QED
    BY <2>3, <2>4
<1> QED
  BY <1>1, <1>2

Entries == [name : Names \cup {Bad}, op : 1 .. gt + gt \cup {NoOp},
            v_num : Names \cup {Bad, Lost}, dep_type : {"no", "or"}]

(* What Add() appends is the entry for the next place. *)
LEMMA AddKeeps ==
  ASSUME dep_str \in Groups, dep_list \in Seq(Entries), deps = "loading",
         NEW g \in Nat, NEW r \in Nat, NEW n, n = r + 1, <<g, n>> \in Places, EntriesTo(dep_list, g, r),
         NEW type, type = (IF Len(dep_str[g]) = 1 THEN "no" ELSE "or"), Add(dep_str[g][n], type)
  PROVE  /\ dep_list' \in Seq(Entries) /\ deps' \in {"loading", "crashed"}
         /\ IF deps' = "crashed" THEN Written(<<g, n>>) = Bad ELSE EntriesTo(dep_list', g, n)
<1>1. PICK a : a = dep_str[g][n]
  OBVIOUS
<1>2. g \in 1 .. Len(dep_str) /\ n \in 1 .. Len(dep_str[g]) /\ dep_str[g] \in Seq(Alternatives)
  <2>1. <<g, n>>[1] = g /\ <<g, n>>[2] = n
    OBVIOUS
  <2> QED
    BY <2>1, PlaceIs
<1>3. a \in Alternatives /\ Written(<<g, n>>) = a
  BY <1>1, <1>2 DEF Written
<1>4. type \in {"no", "or"}
  OBVIOUS
<1>5. ASSUME NEW e \in Entries, e.dep_type = type, a # Bad => e = new_dep(a, type),
             dep_list' = Append(dep_list, e), deps' = deps
      PROVE  /\ dep_list' \in Seq(Entries) /\ deps' \in {"loading", "crashed"}
             /\ IF deps' = "crashed" THEN Written(<<g, n>>) = Bad ELSE EntriesTo(dep_list', g, n)
  <2>1. PICK k \in Nat : k = Len(dep_list) /\ k = Rank(<<g, r>>)
    BY DEF EntriesTo
  <2>2. /\ dep_list' \in Seq(Entries) /\ Len(dep_list') = k + 1 /\ dep_list'[k + 1] = e
        /\ \A x \in 1 .. k : dep_list'[x] = dep_list[x]
    <3>1. /\ Append(dep_list, e) \in Seq(Entries)
          /\ Len(Append(dep_list, e)) = Len(dep_list) + 1
          /\ Append(dep_list, e)[Len(dep_list) + 1] = e
          /\ \A x \in 1 .. Len(dep_list) : Append(dep_list, e)[x] = dep_list[x]
      BY AppendProperties
    <3> QED
      BY <1>5, <2>1, <3>1
  <2>3. /\ UpTo(<<g, n>>) = UpTo(<<g, r>>) \cup {<<g, n>>}
        /\ Rank(<<g, n>>) = k + 1
    <3>1. <<g, r + 1>> \in Places
      OBVIOUS
    <3>2. /\ UpTo(<<g, r + 1>>) = UpTo(<<g, r>>) \cup {<<g, r + 1>>}
          /\ Rank(<<g, r + 1>>) = Rank(<<g, r>>) + 1
      BY <3>1, RankNext
    <3> QED
      BY <2>1, <3>2
  <2>4. ASSUME NEW p \in UpTo(<<g, n>>) PROVE EntryOf(dep_list'[Rank(p)], p)
    <3>1. CASE p \in UpTo(<<g, r>>)
      <4>1. Rank(p) \in 1 .. k
        BY <2>1, <3>1, RankWithin
      <4> QED
        BY <2>2, <3>1, <4>1 DEF EntriesTo
    <3>2. CASE p = <<g, n>>
      <4>1. dep_list'[Rank(p)] = e
        BY <2>2, <2>3, <3>2
      <4>2. EntryOf(e, p)
        BY <1>3, <1>5, <3>2 DEF EntryOf
      <4> QED
        BY <4>1, <4>2
    <3> QED
      BY <2>3, <3>1, <3>2
  <2>5. EntriesTo(dep_list', g, n)
    BY <2>2, <2>3, <2>4 DEF EntriesTo
  <2> QED
    BY <1>5, <2>2, <2>5
<1>6. CASE a = Bad
  <2>1. Unmatched(type)
    BY <1>1, <1>6 DEF Add
  <2>2. CASE deps' = "crashed" /\ UNCHANGED dep_list
    BY <1>3, <1>6, <2>2
  <2>3. ASSUME NEW op \in {eq, NoOp}, deps' = deps,
               dep_list' = Append(dep_list, [name |-> Bad, op |-> op, v_num |-> Bad, dep_type |-> type])
        PROVE  /\ dep_list' \in Seq(Entries) /\ deps' \in {"loading", "crashed"}
               /\ IF deps' = "crashed" THEN Written(<<g, n>>) = Bad ELSE EntriesTo(dep_list', g, n)
    <3>1. [name |-> Bad, op |-> op, v_num |-> Bad, dep_type |-> type] \in Entries
      BY <1>4 DEF Entries, eq, gt
    <3>2. [name |-> Bad, op |-> op, v_num |-> Bad, dep_type |-> type].dep_type = type
      OBVIOUS
    <3> QED
      BY <1>5, <1>6, <2>3, <3>1, <3>2
  <2> QED
    BY <2>1, <2>2, <2>3 DEF Unmatched
<1>7. CASE a # Bad
  <2>1. dep_list' = Append(dep_list, new_dep(a, type)) /\ deps' = deps
    BY <1>1, <1>7 DEF Add
  <2>2. a \in [name : Names, op : Seq({"=", "<", ">"}) \ {<<>>}, blank : BOOLEAN, ver : Names]
    BY <1>3, <1>7 DEF Alternatives
  <2>3. new_dep(a, type) \in Entries /\ new_dep(a, type).dep_type = type
    <3>1. _am_binary(a.op) \in 1 .. gt + gt
      BY <2>2, NumberIs
    <3> QED
      BY <1>4, <2>2, <3>1 DEF new_dep, Entries
  <2> QED
    BY <1>5, <2>1, <2>3
<1> QED
  BY <1>6, <1>7

(* The group behind the g-th, if there is one. *)
LEMMA NextGroupIs ==
  ASSUME dep_str \in Groups, NEW g \in Nat, NEW r \in Nat, ReadTo(g, r), s1 = <<>>
  PROVE  /\ g = 0 \/ r = Len(dep_str[g])
         /\ s3 # <<>> => /\ g + 1 \in 1 .. Len(dep_str) /\ Head(s3) = dep_str[g + 1]
                         /\ Tail(s3) = SubSeq(dep_str, g + 1 + 1, Len(dep_str))
         /\ s3 = <<>> => g = Len(dep_str)
<1>1. PICK l \in Nat : l = Len(dep_str) /\ dep_str \in Seq(Seq(Alternatives) \ {<<>>})
  BY DEF Groups
<1>2. g \in 0 .. l /\ s3 = SubSeq(dep_str, g + 1, l)
  BY <1>1 DEF ReadTo
<1>3. g > 0 => r = Len(dep_str[g])
  <2> SUFFICES ASSUME g > 0 PROVE r = Len(dep_str[g])
    OBVIOUS
  <2>5. g \in 1 .. Len(dep_str)
    BY <1>1, <1>2
  <2>1. PICK k \in Nat : k = Len(dep_str[g]) /\ dep_str[g] \in Seq(Alternatives)
    BY <2>5, PlaceIs
  <2>2. r \in 0 .. k /\ SubSeq(dep_str[g], r + 1, k) = <<>>
    BY <2>1 DEF ReadTo
  <2>3. r + 1 \in Int /\ k \in Int /\ \A i \in r + 1 .. k : dep_str[g][i] \in Alternatives
    BY <2>1
  <2>4. Len(SubSeq(dep_str[g], r + 1, k)) = IF r + 1 <= k THEN k - (r + 1) + 1 ELSE 0
    BY <2>3, SubSeqProperties
  <2>6. ~(r + 1 <= k)
    <3>1. PICK s : s = SubSeq(dep_str[g], r + 1, k)
      OBVIOUS
    <3>2. Len(s) = 0
      BY <2>2, <3>1
    <3>3. r + 1 <= k => Len(s) = k - (r + 1) + 1
      BY <2>4, <3>1
    <3> QED
      BY <2>1, <2>2, <3>2, <3>3
  <2> QED
    BY <2>1, <2>2, <2>6
<1>4. PICK h \in Int : h = g + 1
  OBVIOUS
<1>5. /\ SubSeq(dep_str, h, l) \in Seq(Seq(Alternatives) \ {<<>>})
      /\ Len(SubSeq(dep_str, h, l)) = IF h <= l THEN l - h + 1 ELSE 0
  <2>1. l \in Int /\ \A i \in h .. l : dep_str[i] \in Seq(Alternatives) \ {<<>>}
    BY <1>1, <1>4
  <2> QED
    BY <2>1, SubSeqProperties
<1>6. s3 = <<>> => g = l
  <2> SUFFICES ASSUME s3 = <<>>, g # l PROVE FALSE
    OBVIOUS
  <2>1. h <= l
    BY <1>2, <1>4
  <2> QED
    BY <1>2, <1>4, <1>5, <2>1
<1>7. s3 # <<>> => h \in 1 .. l /\ Head(s3) = dep_str[h] /\ Tail(s3) = SubSeq(dep_str, h + 1, l)
  <2> SUFFICES ASSUME s3 # <<>> PROVE h \in 1 .. l /\ Head(s3) = dep_str[h] /\ Tail(s3) = SubSeq(dep_str, h + 1, l)
    OBVIOUS
  <2>1. h \in 1 .. Len(dep_str)
    <3>1. Len(s3) # 0
      BY <1>2, <1>4, <1>5
    <3> QED
      BY <1>1, <1>2, <1>4, <1>5, <3>1
  <2>2. l \in h .. Len(dep_str)
    BY <1>1, <2>1
  <2>3. Head(SubSeq(dep_str, h, l)) = dep_str[h] /\ Tail(SubSeq(dep_str, h, l)) = SubSeq(dep_str, h + 1, l)
    BY <1>1, <2>1, <2>2, HeadTailOfSubSeq
  <2> QED
    BY <1>1, <1>2, <1>4, <2>1, <2>3
<1> QED
  BY <1>1, <1>3, <1>4, <1>6, <1>7

LEMMA GroupKeeps ==
  ASSUME DepsInv, Group
  PROVE  DepsInv' /\ deps' \in {"loading", "crashed"}
<1>1. /\ DepsTyped /\ dep_str \in Groups /\ deps = "loading" /\ s1 = <<>> /\ s3 # <<>>
      /\ dep_list \in Seq(Entries) /\ s3 \in Groups
  BY DEF DepsInv, DepsTyped, Entries, Group
<1>2. PICK g \in Nat, r \in Nat : ReadTo(g, r) /\ EntriesTo(dep_list, g, r)
  BY <1>1 DEF DepsInv
<1>3. PICK h \in Nat : h = g + 1
  OBVIOUS
<1>4. /\ g = 0 \/ r = Len(dep_str[g])
      /\ h \in 1 .. Len(dep_str) /\ Head(s3) = dep_str[h] /\ Tail(s3) = SubSeq(dep_str, h + 1, Len(dep_str))
  BY <1>1, <1>2, <1>3, NextGroupIs
<1>5. /\ s3' = Tail(s3) /\ dep_str' = dep_str
      /\ IF Len(dep_str[h]) = 1 THEN Add(dep_str[h][1], "no") /\ s1' = s1
         ELSE s1' = dep_str[h] /\ UNCHANGED <<deps, dep_list>>
  BY <1>4 DEF Group
<1>6. s3' \in Groups
  BY <1>1, <1>5, HeadTailProperties DEF Groups
<1>7. EntriesTo(dep_list, h, 0)
  <2>1. UpTo(<<g + 1, 0>>) = UpTo(<<g, r>>) /\ Rank(<<g + 1, 0>>) = Rank(<<g, r>>)
    BY <1>1, <1>4, RankNextGroup
  <2> QED
    BY <1>2, <1>3, <2>1 DEF EntriesTo
<1>8. dep_str[h] \in Seq(Alternatives) /\ Len(dep_str[h]) \in Nat /\ Len(dep_str[h]) > 0
  BY <1>1, <1>4, PlaceIs
<1>9. ASSUME NEW n \in Nat, s1' \in Seq(Alternatives), dep_list' \in Seq(Entries), deps' \in {"loading", "crashed"},
             n \in 0 .. Len(dep_str[h]), s1' = SubSeq(dep_str[h], n + 1, Len(dep_str[h])),
             Len(dep_str[h]) = 1 => n = 1,
             IF deps' = "crashed" THEN \E p \in Places : Written(p) = Bad ELSE EntriesTo(dep_list', h, n)
      PROVE  DepsInv' /\ deps' \in {"loading", "crashed"}
  <2>1. DepsTyped'
    BY <1>1, <1>5, <1>6, <1>9 DEF DepsTyped, Entries
  <2>2. ReadTo(h, n)'
    BY <1>3, <1>4, <1>5, <1>9 DEF ReadTo
  <2>3. deps' = "crashed" => (\E p \in Places : Written(p) = Bad)'
    BY <1>5, <1>9, SameDepStr
  <2>4. deps' # "crashed" => EntriesTo(dep_list, h, n)'
    <3>1. EntriesTo(dep_list', h, n) <=> EntriesTo(dep_list, h, n)'
      BY <1>5, SameDepStr DEF EntriesTo, EntryOf, Written
    <3> QED
      BY <1>9, <3>1
  <2> QED
    BY <1>9, <2>1, <2>2, <2>3, <2>4 DEF DepsInv
<1>10. CASE Len(dep_str[h]) = 1
  <2>1. <<h, 1>> \in Places
    BY <1>1, <1>4, <1>10, PlaceIs, SMTT(60)
  <2>2. /\ dep_list' \in Seq(Entries) /\ deps' \in {"loading", "crashed"}
        /\ IF deps' = "crashed" THEN Written(<<h, 1>>) = Bad ELSE EntriesTo(dep_list', h, 1)
    <3>1. Add(dep_str[h][1], "no") /\ 1 = 0 + 1 /\ "no" = (IF Len(dep_str[h]) = 1 THEN "no" ELSE "or")
      BY <1>5, <1>10
    <3> QED
      BY <1>1, <1>7, <2>1, <3>1, AddKeeps
  <2>3. s1' = <<>> /\ s1' \in Seq(Alternatives)
    BY <1>1, <1>5, <1>10
  <2>4. SubSeq(dep_str[h], 1 + 1, 1) = <<>>
    BY <1>8
  <2>5. IF deps' = "crashed" THEN \E p \in Places : Written(p) = Bad ELSE EntriesTo(dep_list', h, 1)
    BY <2>1, <2>2
  <2> QED
    BY <1>9, <1>10, <2>2, <2>3, <2>4, <2>5
<1>11. CASE Len(dep_str[h]) # 1
  <2>1. s1' = dep_str[h] /\ deps' = "loading" /\ dep_list' = dep_list
    BY <1>1, <1>5, <1>11
  <2>2. SubSeq(dep_str[h], 0 + 1, Len(dep_str[h])) = dep_str[h]
    BY <1>8, SubSeqFull
  <2> QED
    BY <1>1, <1>7, <1>8, <1>9, <1>11, <2>1, <2>2
<1> QED
  BY <1>10, <1>11

LEMMA AlternativeKeeps ==
  ASSUME DepsInv, Alternative
  PROVE  DepsInv' /\ deps' \in {"loading", "crashed"}
<1>1. /\ DepsTyped /\ dep_str \in Groups /\ deps = "loading" /\ s1 # <<>> /\ s1 \in Seq(Alternatives)
      /\ dep_list \in Seq(Entries)
  BY DEF DepsInv, DepsTyped, Entries, Alternative
<1>2. PICK g \in Nat, r \in Nat : ReadTo(g, r) /\ EntriesTo(dep_list, g, r)
  BY <1>1 DEF DepsInv
<1>3. PICK n \in Nat : n = r + 1
  OBVIOUS
<1>4. g \in 1 .. Len(dep_str) /\ g > 0
  <2>1. Len(dep_str) \in Nat
    BY <1>1 DEF Groups
  <2> QED
    BY <1>1, <1>2, <2>1 DEF ReadTo
<1>5. PICK k \in Nat : k = Len(dep_str[g]) /\ k > 0 /\ dep_str[g] \in Seq(Alternatives)
  BY <1>1, <1>4, PlaceIs
<1>6. r \in 0 .. k /\ s1 = SubSeq(dep_str[g], n, k)
  BY <1>2, <1>3, <1>4, <1>5 DEF ReadTo
<1>7. n \in 1 .. k
  <2>1. n \in Int /\ k \in Int /\ \A i \in n .. k : dep_str[g][i] \in Alternatives
    BY <1>3, <1>5
  <2>2. Len(SubSeq(dep_str[g], n, k)) = IF n <= k THEN k - n + 1 ELSE 0
    BY <2>1, SubSeqProperties
  <2>3. Len(s1) # 0
    BY <1>1
  <2> QED
    BY <1>3, <1>5, <1>6, <2>2, <2>3
<1>8. Head(s1) = dep_str[g][n] /\ Tail(s1) = SubSeq(dep_str[g], n + 1, k)
  <2>1. n \in 1 .. Len(dep_str[g]) /\ k \in n .. Len(dep_str[g])
    BY <1>5, <1>7
  <2>2. /\ Head(SubSeq(dep_str[g], n, k)) = dep_str[g][n]
        /\ Tail(SubSeq(dep_str[g], n, k)) = SubSeq(dep_str[g], n + 1, k)
    BY <1>5, <2>1, HeadTailOfSubSeq
  <2> QED
    BY <1>6, <2>2
<1>9. Add(dep_str[g][n], "or") /\ s1' = Tail(s1) /\ UNCHANGED <<dep_str, s3>>
  BY <1>8 DEF Alternative
<1>10. k # 1
  <2>1. k = 1 => r = 1
    BY <1>2, <1>4, <1>5 DEF ReadTo
  <2> QED
    BY <1>3, <1>7, <2>1
<1>11. <<g, n>> \in Places
  BY <1>1, <1>4, <1>5, <1>7, PlaceIs
<1>12. /\ dep_list' \in Seq(Entries) /\ deps' \in {"loading", "crashed"}
       /\ IF deps' = "crashed" THEN Written(<<g, n>>) = Bad ELSE EntriesTo(dep_list', g, n)
  <2>1. "or" = (IF Len(dep_str[g]) = 1 THEN "no" ELSE "or")
    BY <1>5, <1>10
  <2> QED
    BY <1>1, <1>2, <1>3, <1>9, <1>11, <2>1, AddKeeps
<1>13. s1' \in Seq(Alternatives)
  BY <1>1, <1>9, HeadTailProperties
<1>14. DepsTyped'
  BY <1>1, <1>9, <1>12, <1>13 DEF DepsTyped, Entries
<1>15. ReadTo(g, n)'
  <2>1. g \in 0 .. Len(dep_str) /\ s3 = SubSeq(dep_str, g + 1, Len(dep_str))
    BY <1>2 DEF ReadTo
  <2>2. n \in 0 .. Len(dep_str[g]) /\ s1' = SubSeq(dep_str[g], n + 1, Len(dep_str[g])) /\ Len(dep_str[g]) # 1
    BY <1>5, <1>7, <1>8, <1>9, <1>10
  <2>3. dep_str' = dep_str /\ s3' = s3 /\ g # 0
    BY <1>4, <1>9
  <2> QED
    BY <2>1, <2>2, <2>3, Zenon DEF ReadTo
<1>16. deps' = "crashed" => (\E p \in Places : Written(p) = Bad)'
  <2>1. deps' = "crashed" => \E p \in Places : Written(p) = Bad
    BY <1>11, <1>12
  <2> QED
    BY <1>9, <2>1, SameDepStr
<1>17. deps' # "crashed" => EntriesTo(dep_list, g, n)'
  <2>1. EntriesTo(dep_list', g, n) <=> EntriesTo(dep_list, g, n)'
    BY <1>9, SameDepStr DEF EntriesTo, EntryOf, Written
  <2> QED
    BY <1>12, <2>1
<1> QED
  BY <1>12, <1>14, <1>15, <1>16, <1>17 DEF DepsInv

LEMMA DepsEndsKeeps ==
  ASSUME DepsInv, DepsEnd \/ UnloadDeps \/ UNCHANGED depsVars
  PROVE  DepsInv' /\ (deps' = "crashed" => deps = "crashed")
<1>1. /\ UNCHANGED <<dep_str, s3, s1, dep_list>> /\ (deps' = deps \/ deps' \in {"loaded", "unloaded"})
      /\ (deps' = "crashed" => deps = "crashed") /\ (deps' = "unset" => deps = "unset")
      /\ (deps = "crashed" => deps' = "crashed")
  BY DEF DepsEnd, UnloadDeps, depsVars
<1>2. deps' = "loaded" => s1 = <<>> /\ s3 = <<>>
  BY DEF DepsInv, DepsEnd, UnloadDeps, depsVars
<1>3. DepsTyped'
  BY <1>1 DEF DepsInv, DepsTyped
<1>4. ASSUME NEW g \in Nat, NEW r \in Nat, ReadTo(g, r), EntriesTo(dep_list, g, r)
      PROVE  ReadTo(g, r)' /\ EntriesTo(dep_list, g, r)'
  <2>1. ReadTo(g, r)'
    BY <1>1, <1>4 DEF ReadTo
  <2>2. PICK list : list = dep_list /\ list = dep_list'
    BY <1>1
  <2>3. EntriesTo(list, g, r)' <=> EntriesTo(list, g, r)
    BY <1>1, SameDepStr
  <2>4. EntriesTo(dep_list, g, r)' <=> EntriesTo(list, g, r)'
    BY <2>2 DEF EntriesTo
  <2> QED
    BY <1>4, <2>1, <2>2, <2>3, <2>4
<1>5. (\E p \in Places : Written(p) = Bad) => (\E p \in Places : Written(p) = Bad)'
  BY <1>1, SameDepStr
<1> QED
  BY <1>1, <1>2, <1>3, <1>4, <1>5 DEF DepsInv

LEMMA DepsKeeps ==
  ASSUME DepsInv, DepsNext \/ UNCHANGED depsVars
  PROVE  DepsInv'
BY GroupKeeps, AlternativeKeeps, DepsEndsKeeps DEF DepsNext

(* At the end the list has an entry for each place. *)
LEMMA LoadedIs ==
  ASSUME DepsInv, deps = "loaded"
  PROVE  /\ Len(dep_list) = Cardinality(Places)
         /\ \A p \in Places : EntryOf(dep_list[Rank(p)], p)
<1>1. s1 = <<>> /\ s3 = <<>> /\ dep_str \in Groups
  BY DEF DepsInv, DepsTyped
<1>2. PICK g \in Nat, r \in Nat : ReadTo(g, r) /\ EntriesTo(dep_list, g, r)
  BY DEF DepsInv
<1>3. g = Len(dep_str) /\ (g = 0 \/ r = Len(dep_str[g]))
  BY <1>1, <1>2, NextGroupIs
<1>4. UpTo(<<g, r>>) = Places
  <2>1. ASSUME NEW p \in Places PROVE p[1] < g \/ (p[1] = g /\ p[2] <= r)
    <3>1. p[1] \in 1 .. g /\ p[2] \in 1 .. Len(dep_str[p[1]])
      BY <1>1, <1>3, PlaceIs
    <3>2. p[1] = g => Len(dep_str[p[1]]) = r
      BY <1>3, <3>1
    <3> QED
      BY <3>1, <3>2
  <2>2. \A q : q \in UpTo(<<g, r>>) <=> q \in Places /\ (q[1] < g \/ (q[1] = g /\ q[2] <= r))
    BY <1>1, UpToIs
  <2> QED
    BY <2>1, <2>2
<1> QED
  BY <1>2, <1>4 DEF EntriesTo, Rank

LEMMA DepsAreFaithful ==
  ASSUME DepsInv
  PROVE  DepsFaithful
<1> SUFFICES ASSUME Loaded PROVE Len(dep_list) = Cardinality(Places) /\
        \A p \in Places :
          LET dep == dep_list[Rank(p)]
          IN  /\ dep.name = Written(p).name /\ dep.v_num = (IF Written(p).blank THEN Written(p).ver ELSE Lost)
              /\ \A d \in Documented : d.op = Written(p).op => dep.op = d.is
  BY DEF DepsFaithful
<1>1. \A p \in Places : Written(p) # Bad /\ EntryOf(dep_list[Rank(p)], p)
  BY LoadedIs DEF Loaded
<1>2. \A d \in Documented : _am_binary(d.op) = d.is
  <2>1. /\ _am_binary(<<"=">>) = 1 /\ _am_binary(<<"<">>) = 2 /\ _am_binary(<<">">>) = 4
        /\ _am_binary(<<"<", "=">>) = 3 /\ _am_binary(<<">", "=">>) = 5
    BY NumberIs DEF _am_binary
  <2> QED
    BY <2>1 DEF Documented, eq, lt, le, gt, ge
<1>3. ASSUME NEW p \in Places
      PROVE  LET dep == dep_list[Rank(p)]
             IN  /\ dep.name = Written(p).name /\ dep.v_num = (IF Written(p).blank THEN Written(p).ver ELSE Lost)
                 /\ \A d \in Documented : d.op = Written(p).op => dep.op = d.is
  <2>1. PICK dep : dep = dep_list[Rank(p)]
    OBVIOUS
  <2>2. dep = new_dep(Written(p), dep.dep_type)
    BY <1>1, <2>1 DEF EntryOf
  <2>3. dep.name = Written(p).name /\ dep.v_num = (IF Written(p).blank THEN Written(p).ver ELSE Lost) /\ dep.op = _am_binary(Written(p).op)
    BY <2>2 DEF new_dep
  <2> QED
    BY <1>2, <2>1, <2>3
<1> QED
  BY <1>3, LoadedIs DEF Loaded

LEMMA GroupsAreKept ==
  ASSUME DepsInv
  PROVE  GroupsKept
<1> SUFFICES ASSUME Loaded,
                    \A g \in 1 .. Len(dep_str) - 1 : Len(dep_str[g]) = 1 \/ Len(dep_str[g + 1]) = 1,
                    NEW p \in Places, NEW q \in Places, Rank(q) = Rank(p) + 1
             PROVE  (dep_list[Rank(p)].dep_type = "or" /\ dep_list[Rank(q)].dep_type = "or") <=> p[1] = q[1]
  BY DEF GroupsKept
<1>1. dep_str \in Groups
  BY DEF DepsInv, DepsTyped
<1>2. \A o \in Places : dep_list[Rank(o)].dep_type = "or" <=> Len(dep_str[o[1]]) # 1
  BY LoadedIs DEF Loaded, EntryOf
<1>3. PICK g \in Nat, a \in Nat : p = <<g, a>> /\ g \in 1 .. Len(dep_str) /\ a \in 1 .. Len(dep_str[g])
  BY <1>1, PlaceIs
<1>4. PICK h \in Nat, b \in Nat : q = <<h, b>> /\ h \in 1 .. Len(dep_str) /\ b \in 1 .. Len(dep_str[h])
  BY <1>1, PlaceIs
<1>5. Rank(p) \in Nat /\ Rank(q) \in Nat
  BY <1>1, <1>3, <1>4, UpToIs
<1>6. CASE g = h
  <2>1. a # b
    BY <1>3, <1>4, <1>5, <1>6
  <2>2. Len(dep_str[g]) # 1 /\ Len(dep_str[h]) # 1
    <3>1. PICK l : l = Len(dep_str[g]) /\ l = Len(dep_str[h])
      BY <1>6
    <3>2. a \in 1 .. l /\ b \in 1 .. l
      BY <1>3, <1>4, <3>1
    <3>3. l # 1
      <4> SUFFICES ASSUME l = 1 PROVE FALSE
        OBVIOUS
      <4>1. a = 1 /\ b = 1
        BY <3>2
      <4> QED
        BY <2>1, <4>1
    <3> QED
      BY <3>1, <3>3
  <2> QED
    BY <1>2, <1>3, <1>4, <1>6, <2>2
<1>7. CASE h < g
  <2>1. Precedes(q, p)
    BY <1>3, <1>4, <1>7 DEF Precedes
  <2> QED
    BY <1>1, <1>5, <2>1, RankOrder
<1>8. CASE g < h
  <2>1. h = g + 1
    <3> SUFFICES ASSUME h # g + 1 PROVE FALSE
      OBVIOUS
    <3>1. g + 1 \in 1 .. Len(dep_str) /\ g + 1 \in Nat
      BY <1>3, <1>4, <1>8
    <3>2. Len(dep_str[g + 1]) \in Nat /\ Len(dep_str[g + 1]) > 0
      BY <1>1, <3>1, PlaceIs
    <3>3. 1 \in 1 .. Len(dep_str[g + 1])
      BY <3>2
    <3>4. PICK m \in Places : m = <<g + 1, 1>>
      BY <1>1, <3>1, <3>3, PlaceIs
    <3>5. Precedes(p, m) /\ Precedes(m, q)
      BY <1>3, <1>4, <1>8, <3>4 DEF Precedes
    <3>6. Rank(m) \in Nat /\ Rank(p) < Rank(m) /\ Rank(m) < Rank(q)
      BY <1>1, <3>5, RankOrder
    <3> QED
      BY <1>5, <3>6
  <2>2. Len(dep_str[g]) = 1 \/ Len(dep_str[h]) = 1
    <3>1. Len(dep_str) \in Nat
      BY <1>1 DEF Groups
    <3>2. g \in 1 .. Len(dep_str) - 1
      BY <1>3, <1>4, <1>8, <3>1
    <3> QED
      BY <2>1, <3>2
  <2> QED
    BY <1>2, <1>3, <1>4, <1>8, <2>2
<1> QED
  BY <1>6, <1>7, <1>8

-----------------------------------------------------------------------------
(* Query: the state of the process and of each part keeps its type and the  *)
(* invariant of the part.                                                   *)

Stages == Final \cup {"main", "prepare", "grab", "load", "print", "printing", "printed", "log",
                        "copying", "stuck", "database", "columns", "depends", "deps", "unload"}

ProcessTyped ==
  /\ at \in Stages
  /\ db \in {"closed", "open", "failed", "written", "refused"}
  /\ session \in AnySession
  /\ row \in Seq([col : Columns, str : Seq(Values \cup {Garbage})])

PartsInv == ProcessTyped /\ ParseInv /\ InfoInv /\ DepsInv /\ ArenaInv

LEMMA SameParseKeeps ==
  ASSUME ParseInv, UNCHANGED parseVars
  PROVE  ParseInv'
<1>1. UNCHANGED <<given, optind, opts, plain, main, iflag, clean_temps, infoflag, archive, prefix>>
  BY DEF parseVars
<1>2. ParseTyped'
  BY <1>1 DEF ParseInv, ParseTyped
<1>3. PositionInv' <=> PositionInv
  BY <1>1, SameLine DEF PositionInv
<1>4. FlagsInv' <=> FlagsInv
  BY <1>1, SameLine DEF FlagsInv
<1>5. /\ \A kind : Options(kind)' = Options(kind)
      /\ \A kind, d : Wanted(kind, d)' = Wanted(kind, d)
  BY <1>1, SameLine DEF Wanted
<1>6. Fatal' <=> Fatal
  BY <1>1, SameFatal
<1>7. ParsedAsGiven' <=> ParsedAsGiven
  BY <1>1, <1>5, <1>6, SameLine DEF ParsedAsGiven
<1>8. \A i : Argv(i)' = Argv(i)
  BY <1>1 DEF Argv
<1>9. InfoWordKept' <=> InfoWordKept
  BY <1>1, <1>5, <1>8, SameLine DEF InfoWordKept
<1> QED
  BY <1>1, <1>2, <1>3, <1>4, <1>7, <1>9 DEF ParseInv

(* What a step of the process is for the command line. *)
LEMMA ParseStepIs ==
  ASSUME [Next]_vars
  PROVE  (at = "main" /\ ParseNext) \/ UNCHANGED parseVars
BY DEF Next, vars, Overflow, Main, Path, Open, Grab, LoadStep, PrintStep, PrintLoop, Extract, Log, Copy,
       OpenDatabase, Column, Insert, Depends, DepsStep, WindUp, SameParse

LEMMA InfoStepIs ==
  ASSUME [Next]_vars
  PROVE  \/ at = "grab" /\ Load(session.text)
         \/ at = "load" /\ (LoadField \/ LoadUnmatched \/ LoadEnds)
         \/ /\ at = "print" /\ infoflag > 0
            /\ IF Argv(infoflag) = NoWord THEN PrintNothing ELSE PrintStart(CommandsIn[Argv(infoflag)])
         \/ at = "printing" /\ (PrintAll \/ PrintField \/ PrintEnds)
         \/ at = "unload" /\ Unload
         \/ UNCHANGED infoVars
BY DEF Next, vars, Overflow, Main, Path, Open, Grab, LoadStep, PrintStep, PrintLoop, Extract, Log, Copy,
       OpenDatabase, Column, Insert, Depends, DepsStep, WindUp, SameInfo

LEMMA DepsStepIs ==
  ASSUME [Next]_vars
  PROVE  \/ at = "depends" /\ LoadDeps(session.deps)
         \/ at = "deps" /\ DepsNext
         \/ UNCHANGED depsVars
BY DEF Next, vars, Overflow, Main, Path, Open, Grab, LoadStep, PrintStep, PrintLoop, Extract, Log, Copy,
       OpenDatabase, Column, Insert, Depends, DepsStep, WindUp, SameDeps

LEMMA ArenaStepIs ==
  ASSUME [Next]_vars
  PROVE  \/ at \notin Final /\ path_append
         \/ at = "main" /\ at' = "prepare" /\ due' = <<13, 15>> /\ UNCHANGED <<p_app_len, paths>>
         \/ at \in {"printed", "print"} /\ at' = "log" /\ Ask(<<23, 15, 20, 13>>)
         \/ at = "log" /\ at' = "copying" /\ Ask(<<Named, 13>>)
         \/ at = "copying" /\ at' = "database" /\ Ask(<<8, Named>>)
         \/ UNCHANGED arenaVars
BY DEF Next, vars, Overflow, Main, Path, Open, Grab, LoadStep, PrintStep, PrintLoop, Extract, Log, Copy,
       OpenDatabase, Column, Insert, Depends, DepsStep, WindUp, SameArena

(* The word that --info prints is a text. *)
LEMMA WordIsText ==
  ASSUME ParseInv, infoflag > 0, Argv(infoflag) # NoWord
  PROVE  Argv(infoflag) \in Texts
<1>1. opts \in Seq(GivenWords) /\ plain \in Seq(GivenWords) /\ infoflag \in Nat
  BY DEF ParseInv, ParseTyped
<1>2. PICK words \in Seq(GivenWords) : words = opts \o plain
  BY <1>1, ConcatProperties
<1>3. infoflag <= Len(words) /\ Argv(infoflag) = Text(words[infoflag])
  BY <1>2 DEF Argv
<1>4. words[infoflag] \in GivenWords
  BY <1>1, <1>2, <1>3
<1>5. \A word \in GivenWords : Text(word) \in Texts
  BY TextAssumption DEF GivenWords, Text
<1> QED
  BY <1>3, <1>4, <1>5

LEMMA InfoPartKeeps ==
  ASSUME ProcessTyped, ParseInv, InfoInv, [Next]_vars
  PROVE  InfoInv'
<1>1. CASE at = "grab" /\ Load(session.text)
  <2>1. session.text \in Seq(TextLines)
    BY DEF ProcessTyped, AnySession
  <2> QED
    BY <1>1, <2>1, LoadKeeps
<1>2. CASE LoadField \/ LoadUnmatched \/ LoadEnds
  BY <1>2, LoadFieldKeeps, LoadUnmatchedKeeps, LoadEndsKeeps
<1>3. CASE /\ at = "print" /\ infoflag > 0
           /\ IF Argv(infoflag) = NoWord THEN PrintNothing ELSE PrintStart(CommandsIn[Argv(infoflag)])
  <2>1. CASE Argv(infoflag) = NoWord
    BY <1>3, <2>1, PrintKeeps
  <2>2. CASE Argv(infoflag) # NoWord
    <3>1. CommandsIn[Argv(infoflag)] \in Seq(Commands)
      BY <1>3, <2>2, WordIsText, SessionAssumption
    <3> QED
      BY <1>3, <2>2, <3>1, PrintKeeps
  <2> QED
    BY <2>1, <2>2
<1>4. CASE PrintAll \/ PrintField \/ PrintEnds
  BY <1>4, PrintKeeps
<1>5. CASE Unload
  BY <1>5, UnloadKeeps
<1>6. CASE UNCHANGED infoVars
  BY <1>6, SameInfoKeeps
<1> QED
  BY <1>1, <1>2, <1>3, <1>4, <1>5, <1>6, InfoStepIs

LEMMA ArenaPartKeeps ==
  ASSUME ArenaInv, [Next]_vars
  PROVE  ArenaInv'
<1>1. Named \in Nat
  <2>1. NameLength \in Nat
    BY LengthAssumption
  <2> QED
    BY <2>1 DEF Named
<1>2. CASE path_append
  BY <1>2, PathKeeps
<1>3. CASE UNCHANGED arenaVars
  BY <1>3, DueKeeps DEF arenaVars, ArenaInv, ArenaTyped
<1>4. ASSUME UNCHANGED <<p_app_len, paths>>,
             \/ due' = <<13, 15>> \/ due' = <<23, 15, 20, 13>>
             \/ due' = <<Named, 13>> \/ due' = <<8, Named>>
      PROVE  ArenaInv'
  <2>1. PICK n \in Nat : n = Named
    BY <1>1
  <2>2. /\ <<13, 15>> \in Seq(Nat) /\ <<23, 15, 20, 13>> \in Seq(Nat)
        /\ <<n, 13>> \in Seq(Nat) /\ <<8, n>> \in Seq(Nat)
    OBVIOUS
  <2>3. due' \in Seq(Nat)
    BY <1>4, <2>1, <2>2
  <2> QED
    BY <1>4, <2>3, DueKeeps
<1> QED
  BY <1>2, <1>3, <1>4, ArenaStepIs DEF Ask

LEMMA DepsPartKeeps ==
  ASSUME ProcessTyped, DepsInv, [Next]_vars
  PROVE  DepsInv'
<1>1. session.deps \in Groups
  BY DEF ProcessTyped, AnySession
<1> QED
  BY <1>1, DepsStepIs, LoadDepsKeeps, DepsKeeps

LEMMA ParsePartKeeps ==
  ASSUME ParseInv, [Next]_vars
  PROVE  ParseInv'
BY ParseStepIs, ParseKeeps, SameParseKeeps

LEMMA ColumnsAre ==
  /\ Len(column_map) = 8
  /\ \A k \in 1 .. 8 : /\ column_map[k] = [fld |-> column_map[k].fld, col |-> column_map[k].col]
                      /\ column_map[k].col \in Columns /\ column_map[k].fld \in FieldNames
                      /\ <<column_map[k].col, column_map[k].fld>> \in TableColumns
  /\ \A c \in TableColumns : \E k \in 1 .. 8 : column_map[k] = [fld |-> c[2], col |-> c[1]]
<1>1. Len(column_map) = 8
  BY DEF column_map
<1>2. /\ column_map[1] = [fld |-> "maintainer", col |-> "pkgMaint"]
      /\ column_map[2] = [fld |-> "architecture", col |-> "pkgArch"]
      /\ column_map[3] = [fld |-> "version", col |-> "pkgVer"]
      /\ column_map[4] = [fld |-> "dependancies", col |-> "pkgDep"]
      /\ column_map[5] = [fld |-> "homepage", col |-> "pkgHome"]
      /\ column_map[6] = [fld |-> "release", col |-> "pkgRelease"]
      /\ column_map[7] = [fld |-> "description", col |-> "pkgDes"]
      /\ column_map[8] = [fld |-> "installed-size", col |-> "installedSize"]
  BY DEF column_map
<1>3. \A k \in 1 .. 8 : k = 1 \/ k = 2 \/ k = 3 \/ k = 4 \/ k = 5 \/ k = 6 \/ k = 7 \/ k = 8
  OBVIOUS
<1>4. \A k \in 1 .. 8 : column_map[k].col \in Columns
  BY <1>1 DEF Columns
<1>5. \A k \in 1 .. 8 : column_map[k] = [fld |-> column_map[k].fld, col |-> column_map[k].col]
  BY <1>2, <1>3
<1>6. Len(fld_map) = 10
  BY DEF fld_map
<1>7. \A k \in 1 .. 8 : column_map[k].fld \in FieldNames
  <2>1. FieldNames = {"package", "maintainer", "branch", "architecture", "version", "release",
                      "installed-size", "dependancies", "homepage", "description"}
    BY <1>6 DEF FieldNames, fld_map
  <2> QED
    BY <1>2, <1>3, <2>1
<1>8. \A k \in 1 .. 8 : <<column_map[k].col, column_map[k].fld>> \in TableColumns
  BY <1>2, <1>3 DEF TableColumns
<1>9. \A c \in TableColumns : \E k \in 1 .. 8 : column_map[k] = [fld |-> c[2], col |-> c[1]]
  <2>1. \A k \in {1, 2, 3, 4, 5, 6, 7, 8} : k \in 1 .. 8
    OBVIOUS
  <2> QED
    BY <1>2, <2>1 DEF TableColumns
<1> QED
  BY <1>1, <1>4, <1>5, <1>7, <1>8, <1>9

LEMMA PartsKeep ==
  ASSUME PartsInv, [Next]_vars
  PROVE  PartsInv'
<1>1. ParseInv' /\ InfoInv' /\ DepsInv' /\ ArenaInv'
  BY ParsePartKeeps, InfoPartKeeps, DepsPartKeeps, ArenaPartKeeps DEF PartsInv
<1>2. session' = session
  BY DEF Next, vars, Overflow, Main, Path, Open, Grab, LoadStep, PrintStep, PrintLoop, Extract, Log, Copy,
       OpenDatabase, Column, Insert, Depends, DepsStep, WindUp, Same
<1>3. at' \in Stages /\ db' \in {"closed", "open", "failed", "written", "refused"}
  <2>1. at \in Stages /\ db \in {"closed", "open", "failed", "written", "refused"}
    BY DEF PartsInv, ProcessTyped
  <2>2. CASE Overflow \/ Main \/ Path \/ Open \/ Grab
    BY <2>1, <2>2 DEF Overflow, Main, Path, Open, Grab, Same, Stages, Final
  <2>3. CASE LoadStep \/ PrintStep \/ PrintLoop \/ Extract \/ Log
    BY <2>1, <2>3 DEF LoadStep, PrintStep, PrintLoop, Extract, Log, Goto, Same, Stages, Final
  <2>4. CASE Copy \/ OpenDatabase \/ Column \/ Insert
    BY <2>1, <2>4 DEF Copy, OpenDatabase, Column, Insert, Same, Stages, Final
  <2>5. CASE Depends \/ DepsStep \/ WindUp
    BY <2>1, <2>5 DEF Depends, DepsStep, WindUp, Goto, Same, Stages, Final
  <2>6. CASE UNCHANGED vars
    BY <2>1, <2>6 DEF vars
  <2> QED
    BY <2>2, <2>3, <2>4, <2>5, <2>6 DEF Next
<1>4. row' \in Seq([col : Columns, str : Seq(Values \cup {Garbage})])
  <2>1. row \in Seq([col : Columns, str : Seq(Values \cup {Garbage})])
    BY DEF PartsInv, ProcessTyped
  <2>2. CASE Column
    <3>1. Len(row) + 1 \in 1 .. 8
      BY <2>1, <2>2, ColumnsAre, SMTT(30) DEF Column
    <3>2. PICK column : column = column_map[Len(row) + 1] /\ column.col \in Columns
      BY <3>1, ColumnsAre
    <3>3. \/ UNCHANGED row
          \/ MayRead(column.fld) /\ row' = Append(row, [col |-> column.col, str |-> info_get_fld(column.fld).str])
      BY <2>2, <3>2 DEF Column
    <3>4. ASSUME Has(column.fld) PROVE info_get_fld(column.fld).str \in Seq(Values \cup {Garbage})
      <4>1. info_get_fld(column.fld) \in Fields
        BY <3>4, FieldFound DEF PartsInv, InfoInv, InfoTyped
      <4> QED
        BY <4>1 DEF Fields
    <3>5. PICK str : str = info_get_fld(column.fld).str
      OBVIOUS
    <3>6. CASE row' = row
      BY <2>1, <3>6
    <3>7. CASE MayRead(column.fld) /\ row' = Append(row, [col |-> column.col, str |-> info_get_fld(column.fld).str])
      <4>1. str \in Seq(Values \cup {Garbage}) /\ row' = Append(row, [col |-> column.col, str |-> str])
        BY <3>4, <3>5, <3>7 DEF MayRead
      <4>2. [col |-> column.col, str |-> str] \in [col : Columns, str : Seq(Values \cup {Garbage})]
        BY <3>2, <4>1
      <4> QED
        BY <2>1, <4>1, <4>2, AppendProperties
    <3> QED
      BY <3>3, <3>6, <3>7
  <2>3. CASE row' = row
    BY <2>1, <2>3
  <2>4. Column \/ row' = row
    BY DEF Next, vars, Overflow, Main, Path, Open, Grab, LoadStep, PrintStep, PrintLoop, Extract, Log, Copy,
         OpenDatabase,
           Insert, Depends, DepsStep, WindUp, Same
  <2> QED
    BY <2>2, <2>3, <2>4
<1> QED
  BY <1>1, <1>2, <1>3, <1>4 DEF PartsInv, ProcessTyped

LEMMA PartsStart ==
  ASSUME Init
  PROVE  PartsInv
<1>1. session \in AnySession
  BY SessionAssumption DEF Init
<1>2. session.given \in Seq(GivenWords)
  BY <1>1 DEF AnySession
<1>3. ParseInv /\ InfoInv /\ DepsInv /\ ArenaInv
  BY <1>2, ParseStarts, InfoStarts, DepsStarts, ArenaStarts DEF Init
<1>4. ProcessTyped
  BY <1>1 DEF Init, ProcessTyped, Stages, Final
<1> QED
  BY <1>3, <1>4 DEF PartsInv

(***************************************************************************)
(* Each variable of the process and of its parts keeps its type, for any    *)
(* command line, info text and dependencies: no operator is used where it   *)
(* has no value, as Argv() beyond the line or a column beyond column_map.   *)
(***************************************************************************)
THEOREM TypeCorrect == Spec => []TypeOK
<1>1. PartsInv => TypeOK
  BY DEF PartsInv, ProcessTyped, TypeOK, Stages, ParseInv, InfoInv, DepsInv, ArenaInv
<1> QED
  BY <1>1, PartsStart, PartsKeep, PTL DEF Spec

(***************************************************************************)
(* The flags and the last archive and prefix are as the line says, and it   *)
(* is refused exactly if something on it is wrong, for any command line.    *)
(***************************************************************************)
THEOREM LineIsParsed == Spec => []ParsedAsGiven
<1>1. PartsInv => ParsedAsGiven
  BY DEF PartsInv, ParseInv
<1> QED
  BY <1>1, PartsStart, PartsKeep, PTL DEF Spec

(***************************************************************************)
(* Where only plain words follow the last --info, the word behind it is the *)
(* one that mpkg() prints, however getopt_long() has moved the others.      *)
(***************************************************************************)
THEOREM InfoWordStays == Spec => []InfoWordKept
<1>1. PartsInv => InfoWordKept
  BY DEF PartsInv, ParseInv
<1> QED
  BY <1>1, PartsStart, PartsKeep, PTL DEF Spec

(***************************************************************************)
(* The list of fields is what the info text says, for a text of any length  *)
(* with a key in every piece.                                               *)
(***************************************************************************)
THEOREM ListIsTheText == Spec => []ListFaithful
<1>1. PartsInv => ListFaithful
  <2> SUFFICES ASSUME PartsInv, info \in {"loaded", "printing"}, fld_list # Garbage, EveryPieceKeyed
               PROVE  ListOf(fld_list, Len(text))
    BY DEF ListFaithful, ListOf
  <2> QED
    BY ListIsFaithful DEF PartsInv
<1> QED
  BY <1>1, PartsStart, PartsKeep, PTL DEF Spec

(***************************************************************************)
(* The list of dependencies has each alternative of the field, in order and *)
(* with its operator's number, for any number of groups of any length.      *)
(***************************************************************************)
THEOREM DepsAreTheField == Spec => []DepsFaithful
<1>1. PartsInv => DepsFaithful
  BY DepsAreFaithful DEF PartsInv
<1> QED
  BY <1>1, PartsStart, PartsKeep, PTL DEF Spec

(***************************************************************************)
(* Which entries are alternatives of each other can be told from dep_type,  *)
(* as long as no group of several follows another.                          *)
(***************************************************************************)
THEOREM GroupsStayTold == Spec => []GroupsKept
<1>1. PartsInv => GroupsKept
  BY GroupsAreKept DEF PartsInv
<1> QED
  BY <1>1, PartsStart, PartsKeep, PTL DEF Spec

(***************************************************************************)
(* No two of the paths that one process makes share a byte of p_app.        *)
(***************************************************************************)
THEOREM PathsNeverMeet == Spec => []PathsApart
<1>1. PartsInv => PathsApart
  BY DEF PartsInv, ArenaInv
<1> QED
  BY <1>1, PartsStart, PartsKeep, PTL DEF Spec

-----------------------------------------------------------------------------
(* Query: where the process is, and what holds there.                       *)

StageInv ==
  /\ at \notin Final => info # "crashed" /\ deps # "crashed"
  /\ at \in {"main", "prepare"} => session.program = "mpkg"
  /\ at \in {"main", "prepare", "grab"} => info = "unset"
  /\ at = "load" => info = "loading"
  /\ at = "printing" => info = "printing" /\ infoflag > 0 /\ Argv(infoflag) # NoWord
  /\ at \in {"print", "printed", "log", "copying", "database", "columns", "depends", "deps"} =>
       info = "loaded"
  /\ at = "unload" => info \in {"unset", "loaded"}
  /\ at = "unload" /\ info = "unset" =>
       (session.program = "mpkg" /\ archive = NoWord) \/ session.member = "no archive"
  /\ info \in {"loading", "loaded", "printing"} => text = session.text
  /\ at \in {"log", "copying", "database", "columns"} => iflag
  /\ at \in {"depends", "deps"} => session.program = "info_test"
  /\ at = "columns" => db \in {"open", "failed"}
  /\ at \notin {"columns", "unload"} \cup Final => db = "closed" /\ row = <<>>
  /\ row # <<>> => info \notin {"unset", "loading"}
  /\ at \in {"main", "prepare", "grab", "load", "print"} => printed = <<>>

LEMMA StageStarts ==
  ASSUME Init
  PROVE  StageInv
BY SessionAssumption DEF Init, AnySession, StageInv, Final, InfoInit, DepsInit

LEMMA StageKeeps ==
  ASSUME PartsInv, StageInv, [Next]_vars
  PROVE  StageInv'
<1> USE DEF StageInv, Final, infoVars, depsVars
<1>1. session' = session /\ (at # "main" => UNCHANGED <<iflag, infoflag, archive>>)
      /\ (at # "main" => Argv(infoflag)' = Argv(infoflag))
  <2>1. session' = session
    BY DEF Next, vars, Overflow, Main, Path, Open, Grab, LoadStep, PrintStep, PrintLoop, Extract, Log, Copy,
       OpenDatabase, Column, Insert, Depends, DepsStep, WindUp, Same
  <2>2. at # "main" => UNCHANGED <<iflag, infoflag, archive, opts, plain>>
    BY ParseStepIs DEF parseVars
  <2> QED
    BY <2>1, <2>2 DEF Argv
<1>2. CASE Main
  BY <1>1, <1>2 DEF Main, SameInfo, SameDeps, Same
<1>3. CASE Path
  <2>1. /\ at \notin Final /\ at' \in {at, "crashed"}
        /\ UNCHANGED <<infoVars, depsVars, db, row, iflag, infoflag, archive>> /\ Argv(infoflag)' = Argv(infoflag)
    BY <1>3 DEF Path, SameParse, SameInfo, SameDeps, Same, parseVars, Argv
  <2>2. CASE at' = at
    BY <1>1, <2>1, <2>2
  <2>3. CASE at' = "crashed"
    BY <1>1, <2>1, <2>3
  <2> QED
    BY <2>1, <2>2, <2>3
<1>4. CASE Open
  BY <1>1, <1>4 DEF Open, SameInfo, SameDeps, Same
<1>5. CASE Grab
  BY <1>1, <1>5 DEF Grab, SameInfo, SameDeps, Same, Load
<1>6. CASE LoadStep
  <2>1. /\ at = "load" /\ text' = text /\ printed' = printed /\ UNCHANGED <<depsVars, db, row>>
        /\ info' \in {"loading", "loaded", "crashed"}
    BY <1>6 DEF LoadStep, SameDeps, Same, LoadField, LoadUnmatched, LoadEnds
  <2>2. \/ at' = "crashed"
        \/ at' = "load" /\ info' = "loading"
        \/ at' \in {"print", "depends"} /\ info' = "loaded" /\ (at' = "depends" <=> session.program # "mpkg")
    BY <1>6, <2>1 DEF LoadStep, Goto
  <2>3. session.program \in {"mpkg", "info_test"}
    BY DEF PartsInv, ProcessTyped, AnySession
  <2> QED
    BY <1>1, <2>1, <2>2, <2>3
<1>7. CASE PrintStep
  BY <1>1, <1>7 DEF PrintStep, SameDeps, Same, Goto, PrintNothing, PrintStart
<1>8. CASE PrintLoop
  BY <1>1, <1>8 DEF PrintLoop, SameDeps, Same, Goto, PrintAll, PrintField, PrintEnds
<1>9. CASE Extract
  <2>1. /\ at \in {"print", "printed"} /\ at' = (IF iflag THEN "log" ELSE "unload")
        /\ UNCHANGED <<infoVars, depsVars, db, row>>
    BY <1>9 DEF Extract, SameInfo, SameDeps, Same
  <2>2. CASE iflag
    BY <1>1, <2>1, <2>2
  <2>3. CASE ~iflag
    BY <1>1, <2>1, <2>3
  <2> QED
    BY <2>2, <2>3
<1>10. CASE Log
  BY <1>1, <1>10 DEF Log, SameInfo, SameDeps, Same
<1>11. CASE OpenDatabase
  BY <1>1, <1>11 DEF OpenDatabase, SameInfo, SameDeps
<1>12. CASE Column
  BY <1>1, <1>12 DEF Column, SameInfo, SameDeps
<1>13. CASE Insert
  BY <1>1, <1>13 DEF Insert, SameInfo, SameDeps
<1>14. CASE Depends
  BY <1>1, <1>14 DEF Depends, SameInfo, SameDeps, Same, LoadDeps
<1>15. CASE DepsStep
  BY <1>1, <1>15 DEF DepsStep, SameInfo, Same, Goto, DepsNext, Group, Alternative, DepsEnd, UnloadDeps
<1>16. CASE WindUp
  BY <1>1, <1>16 DEF WindUp, SameDeps, Same, Goto, Unload
<1>17. CASE UNCHANGED vars
  BY <1>1, <1>17 DEF vars, parseVars, Argv
<1>19. CASE Copy
  <2>1. at = "copying" /\ at' \in {"database", "stuck"} /\ UNCHANGED <<infoVars, depsVars, db, row>>
    BY <1>19 DEF Copy, SameInfo, SameDeps, Same
  <2>2. UNCHANGED <<session, iflag, infoflag, archive>>
    BY <1>1, <2>1
  <2>3. CASE at' = "database"
    BY <2>1, <2>2, <2>3
  <2>4. CASE at' = "stuck"
    BY <2>1, <2>2, <2>4
  <2> QED
    BY <2>1, <2>3, <2>4
<1>18. CASE Overflow
  BY <1>1, <1>18 DEF Overflow, SameInfo, SameDeps, Same
<1> QED
  BY <1>2, <1>3, <1>4, <1>5, <1>6, <1>7, <1>8, <1>9, <1>10, <1>11, <1>12, <1>13, <1>14, <1>15, <1>16,
     <1>17, <1>18, <1>19 DEF Next

-----------------------------------------------------------------------------
(* Query: what p_app has taken at each stage, and what it is still to take. *)

Budget(stage, lengths, taken) ==
  LET name == NameLength + 1
  IN  /\ stage = "main" => lengths = <<>> /\ taken = 0
      /\ stage = "prepare" => \/ lengths = <<13, 15>> /\ taken = 0
                              \/ lengths = <<15>> /\ taken = 15
                              \/ lengths = <<>> /\ taken = 32
      /\ stage \in {"grab", "load", "print", "printing", "printed", "depends", "deps"} =>
           lengths = <<>> /\ taken <= 32
      /\ stage = "log" => \/ lengths = <<23, 15, 20, 13>> /\ taken <= 32
                          \/ lengths = <<15, 20, 13>> /\ taken <= 57
                          \/ lengths = <<20, 13>> /\ taken <= 74
                          \/ lengths = <<13>> /\ taken <= 96
                          \/ lengths = <<>> /\ taken <= 111
      /\ stage = "copying" => \/ lengths = <<name, 13>> /\ taken <= 111
                              \/ lengths = <<13>> /\ taken <= 113 + name
                              \/ lengths = <<>> /\ taken <= 128 + name
      /\ stage = "database" => \/ lengths = <<8, name>> /\ taken <= 128 + name
                               \/ lengths = <<name>> /\ taken <= 138 + name
                               \/ lengths = <<>> /\ taken <= 140 + 2 * name
      /\ stage \in {"stuck", "columns", "unload"} => lengths = <<>>
      /\ stage \in {"stuck", "columns", "unload"} \cup Final => taken <= 140 + 2 * name

BudgetInv == session.member # "long" => Budget(at, due, p_app_len)

LEMMA BudgetFits ==
  ASSUME NEW stage \in Stages, NEW lengths, NEW taken \in Nat, Budget(stage, lengths, taken)
  PROVE  taken <= 2 * NameLength + 142
<1>1. PICK n \in Nat : n = NameLength
  BY LengthAssumption
<1> QED
  BY <1>1 DEF Budget, Stages, Final

LEMMA BudgetPath ==
  ASSUME NEW stage \in Stages \ Final, NEW lengths, NEW taken \in Nat, Budget(stage, lengths, taken), lengths # <<>>
  PROVE  Budget(stage, Tail(lengths), taken + Head(lengths) + 2)
<1>1. PICK n \in Nat : n = NameLength + 1
  BY LengthAssumption
<1>2. CASE stage = "prepare"
  <2>1. /\ Head(<<13, 15>>) = 13 /\ Tail(<<13, 15>>) = <<15>>
        /\ Head(<<15>>) = 15 /\ Tail(<<15>>) = <<>>
    OBVIOUS
  <2>2. \A l, t : Budget("prepare", l, t) <=>
          (l = <<13, 15>> /\ t = 0) \/ (l = <<15>> /\ t = 15) \/ (l = <<>> /\ t = 32)
    BY DEF Budget, Final
  <2>3. CASE lengths = <<13, 15>> /\ taken = 0
    BY <1>2, <2>1, <2>2, <2>3
  <2>4. CASE lengths = <<15>> /\ taken = 15
    BY <1>2, <2>1, <2>2, <2>4
  <2> QED
    BY <1>2, <2>2, <2>3, <2>4
<1>3. CASE stage = "log"
  <2>1. /\ Head(<<23, 15, 20, 13>>) = 23 /\ Tail(<<23, 15, 20, 13>>) = <<15, 20, 13>>
        /\ Head(<<15, 20, 13>>) = 15 /\ Tail(<<15, 20, 13>>) = <<20, 13>>
        /\ Head(<<20, 13>>) = 20 /\ Tail(<<20, 13>>) = <<13>>
        /\ Head(<<13>>) = 13 /\ Tail(<<13>>) = <<>>
    OBVIOUS
  <2>2. \A l, t : Budget("log", l, t) <=>
          \/ l = <<23, 15, 20, 13>> /\ t <= 32
          \/ l = <<15, 20, 13>> /\ t <= 57
          \/ l = <<20, 13>> /\ t <= 74
          \/ l = <<13>> /\ t <= 96
          \/ l = <<>> /\ t <= 111
    BY DEF Budget, Final
  <2>3. CASE lengths = <<23, 15, 20, 13>> /\ taken <= 32
    BY <1>3, <2>1, <2>2, <2>3
  <2>4. CASE lengths = <<15, 20, 13>> /\ taken <= 57
    BY <1>3, <2>1, <2>2, <2>4
  <2>5. CASE lengths = <<20, 13>> /\ taken <= 74
    BY <1>3, <2>1, <2>2, <2>5
  <2>6. CASE lengths = <<13>> /\ taken <= 96
    BY <1>3, <2>1, <2>2, <2>6
  <2> QED
    BY <1>3, <2>2, <2>3, <2>4, <2>5, <2>6
<1>4. CASE stage = "copying"
  <2>1. /\ Head(<<n, 13>>) = n /\ Tail(<<n, 13>>) = <<13>>
        /\ Head(<<13>>) = 13 /\ Tail(<<13>>) = <<>>
    OBVIOUS
  <2>2. \A l, t : Budget("copying", l, t) <=>
          \/ l = <<n, 13>> /\ t <= 111
          \/ l = <<13>> /\ t <= 113 + n
          \/ l = <<>> /\ t <= 128 + n
    BY <1>1 DEF Budget, Final
  <2>3. CASE lengths = <<n, 13>> /\ taken <= 111
    BY <1>4, <2>1, <2>2, <2>3
  <2>4. CASE lengths = <<13>> /\ taken <= 113 + n
    BY <1>4, <2>1, <2>2, <2>4
  <2> QED
    BY <1>4, <2>2, <2>3, <2>4
<1>5. CASE stage = "database"
  <2>1. /\ Head(<<8, n>>) = 8 /\ Tail(<<8, n>>) = <<n>>
        /\ Head(<<n>>) = n /\ Tail(<<n>>) = <<>>
    OBVIOUS
  <2>2. \A l, t : Budget("database", l, t) <=>
          \/ l = <<8, n>> /\ t <= 128 + n
          \/ l = <<n>> /\ t <= 138 + n
          \/ l = <<>> /\ t <= 140 + 2 * n
    BY <1>1 DEF Budget, Final
  <2>3. CASE lengths = <<8, n>> /\ taken <= 128 + n
    BY <1>5, <2>1, <2>2, <2>3
  <2>4. CASE lengths = <<n>> /\ taken <= 138 + n
    BY <1>5, <2>1, <2>2, <2>4
  <2> QED
    BY <1>5, <2>2, <2>3, <2>4
<1>6. CASE stage \notin {"prepare", "log", "copying", "database"}
  BY <1>6 DEF Budget, Stages, Final
<1> QED
  BY <1>2, <1>3, <1>4, <1>5, <1>6

(* What is left where all the paths of a stage have been made. *)
LEMMA BudgetSpent ==
  ASSUME NEW stage \in Stages, NEW taken \in Nat, Budget(stage, <<>>, taken)
  PROVE  /\ stage \notin {"log", "copying", "stuck", "database", "columns", "unload"} \cup Final => taken <= 32
         /\ stage = "log" => taken <= 111
         /\ stage = "copying" => taken <= 128 + (NameLength + 1)
         /\ taken <= 140 + 2 * (NameLength + 1)
<1>1. PICK n \in Nat : n = NameLength + 1
  BY LengthAssumption
<1>2. /\ <<13, 15>> # <<>> /\ <<15>> # <<>> /\ <<23, 15, 20, 13>> # <<>> /\ <<15, 20, 13>> # <<>>
      /\ <<20, 13>> # <<>> /\ <<13>> # <<>> /\ <<n, 13>> # <<>>
      /\ <<8, n>> # <<>> /\ <<n>> # <<>>
  OBVIOUS
<1> QED
  BY <1>1, <1>2 DEF Budget, Stages, Final

LEMMA BudgetKeeps ==
  ASSUME PartsInv, BudgetInv, [Next]_vars
  PROVE  BudgetInv'
<1>1. session' = session /\ p_app_len \in Nat /\ at \in Stages
  BY DEF Next, vars, Overflow, Main, Path, Open, Grab, LoadStep, PrintStep, PrintLoop, Extract, Log, Copy,
       OpenDatabase, Column, Insert, Depends, DepsStep, WindUp, Same, PartsInv, ProcessTyped, ArenaInv, ArenaTyped
<1> SUFFICES ASSUME session.member # "long" PROVE Budget(at', due', p_app_len')
  BY <1>1 DEF BudgetInv, Budget, Final
<1>2. Budget(at, due, p_app_len)
  BY DEF BudgetInv
<1>3. Named = NameLength + 1
  <2>1. PICK n \in Nat : n = NameLength
    BY LengthAssumption
  <2>2. 1 + (IF session.member = "long" THEN 16 ELSE 1) * n = n + 1
    OBVIOUS
  <2> QED
    BY <2>1, <2>2 DEF Named
<1>4. PICK n \in Nat : n = NameLength + 1
  BY LengthAssumption
<1>5. CASE Path
  <2>1. due # <<>> /\ due' = Tail(due) /\ p_app_len' = p_app_len + Head(due) + 2
    <3>1. Head(due) \in Nat
      BY <1>5 DEF Path, path_append, PartsInv, ArenaInv, ArenaTyped
    <3>2. \A a, h \in Nat : a + cur_len(h) = a + h + 2
      BY DEF cur_len
    <3>3. due # <<>> /\ due' = Tail(due) /\ p_app_len' = p_app_len + cur_len(Head(due))
      BY <1>5 DEF Path, path_append
    <3> QED
      BY <1>1, <3>1, <3>2, <3>3
  <2>2. Budget(at, due', p_app_len')
    BY <1>1, <1>2, <1>5, <2>1, BudgetPath DEF Path
  <2>3. p_app_len' \in Nat
    BY ArenaPartKeeps DEF PartsInv, ArenaInv, ArenaTyped
  <2>4. p_app_len' <= 2 * NameLength + 142
    BY <1>1, <2>2, <2>3, BudgetFits
  <2>5. ~(p_app_len' > Size)
    BY <2>3, <2>4, SizeAssumption, LengthAssumption
  <2>6. at' = at
    BY <1>5, <2>5 DEF Path
  <2> QED
    BY <2>2, <2>6
<1>6. ASSUME due = <<>>, due' = due, p_app_len' = p_app_len,
             at' = at \/ at' \notin {"main", "prepare"},
             \/ at \in {"log", "copying", "stuck", "database", "columns", "unload"} \cup Final
                /\ at' \in {"stuck", "columns", "unload"} \cup Final
             \/ at \notin {"log", "copying", "stuck", "database", "columns", "unload"} \cup Final
                /\ at' \notin {"log", "copying", "database"}
      PROVE  Budget(at', due', p_app_len')
  <2>1. /\ at \notin {"log", "copying", "stuck", "database", "columns", "unload"} \cup Final => p_app_len <= 32
        /\ p_app_len <= 140 + 2 * (NameLength + 1)
    BY <1>1, <1>2, <1>6, BudgetSpent
  <2>2. at' = at => Budget(at', due', p_app_len')
    BY <1>2, <1>6
  <2>3. at' # at => Budget(at', due', p_app_len')
    BY <1>1, <1>4, <1>6, <2>1 DEF Budget, Final
  <2> QED
    BY <2>2, <2>3
<1>7. CASE Main
  <2>1. at = "main" /\ due = <<>> /\ p_app_len = 0
    BY <1>2, <1>7 DEF Main, Budget
  <2> QED
    BY <1>6, <1>7, <2>1 DEF Main, SameArena, arenaVars, Budget, Final
<1>8. CASE Open \/ Grab \/ LoadStep \/ PrintStep \/ PrintLoop
  <2>1. /\ due = <<>> /\ at \in {"prepare", "grab", "load", "print", "printing"} /\ UNCHANGED <<due, p_app_len>>
        /\ at' \in {"grab", "load", "print", "depends", "printing", "printed", "unload", "stuck", "exited", "crashed"}
    BY <1>2, <1>8 DEF Open, Grab, LoadStep, PrintStep, PrintLoop, Goto, SameArena, arenaVars, Budget
  <2> QED
    BY <1>6, <2>1 DEF Final
<1>9. CASE Extract
  <2>1. at \in {"printed", "print"} /\ due = <<>>
    BY <1>2, <1>9 DEF Extract, Budget
  <2>2. p_app_len <= 32
    BY <1>1, <1>2, <2>1, BudgetSpent DEF Final
  <2>3. CASE at' = "log" /\ Ask(<<23, 15, 20, 13>>)
    BY <2>2, <2>3 DEF Ask, Budget, Final
  <2>4. CASE at' = "unload" /\ SameArena
    BY <1>6, <2>1, <2>4 DEF SameArena, arenaVars, Final
  <2> QED
    BY <1>9, <2>3, <2>4 DEF Extract
<1>10. CASE Log
  <2>1. at = "log" /\ due = <<>>
    BY <1>10 DEF Log
  <2>2. p_app_len <= 111
    BY <1>1, <1>2, <2>1, BudgetSpent
  <2>3. CASE at' = "copying" /\ Ask(<<Named, 13>>)
    BY <1>3, <2>2, <2>3 DEF Ask, Budget, Final
  <2>4. CASE at' = "crashed" /\ SameArena
    BY <1>6, <2>1, <2>4 DEF SameArena, arenaVars, Final
  <2> QED
    BY <1>10, <2>3, <2>4 DEF Log
<1>14. CASE Copy
  <2>1. at = "copying" /\ due = <<>>
    BY <1>14 DEF Copy
  <2>2. p_app_len <= 128 + (NameLength + 1)
    BY <1>1, <1>2, <2>1, BudgetSpent
  <2>3. CASE at' = "database" /\ Ask(<<8, Named>>)
    BY <1>3, <1>4, <2>2, <2>3 DEF Ask, Budget, Final
  <2>4. CASE at' = "stuck" /\ SameArena
    BY <1>6, <2>1, <2>4 DEF SameArena, arenaVars, Final
  <2> QED
    BY <1>14, <2>3, <2>4 DEF Copy
<1>15. CASE Overflow
  <2>1. at' = "crashed" /\ UNCHANGED <<due, p_app_len>>
    BY <1>15 DEF Overflow, SameArena, arenaVars
  <2>2. p_app_len <= 2 * NameLength + 142
    BY <1>1, <1>2, BudgetFits
  <2> QED
    BY <1>1, <1>4, <2>1, <2>2, LengthAssumption DEF Budget, Final
<1>11. CASE OpenDatabase \/ Column \/ Insert \/ WindUp
  <2>1. /\ due = <<>> /\ at \in {"database", "columns", "unload"} /\ UNCHANGED <<due, p_app_len>>
        /\ at' \in {"columns", "unload", "crashed", "done"}
    BY <1>2, <1>11 DEF OpenDatabase, Column, Insert, WindUp, Goto, SameArena, arenaVars, Budget
  <2> QED
    BY <1>6, <2>1 DEF Final
<1>12. CASE Depends \/ DepsStep
  <2>1. /\ due = <<>> /\ at \in {"depends", "deps"} /\ UNCHANGED <<due, p_app_len>>
        /\ at' \in {"deps", "unload", "crashed"}
    BY <1>2, <1>12 DEF Depends, DepsStep, Goto, SameArena, arenaVars, Budget
  <2> QED
    BY <1>6, <2>1 DEF Final
<1>13. CASE UNCHANGED vars
  BY <1>2, <1>13 DEF vars, arenaVars
<1> QED
  BY <1>5, <1>7, <1>8, <1>9, <1>10, <1>11, <1>12, <1>13, <1>14, <1>15 DEF Next
-----------------------------------------------------------------------------
(* Query: the names a list of commands asks for, one by one.                *)

FieldsUpTo(words, n) ==
  /\ n \in 0 .. Len(words) /\ \A i \in 1 .. n : words[i] \in FieldNames
  /\ n < Len(words) => words[n + 1] \notin FieldNames
EndOf(words, n) == IF n < Len(words) /\ words[n + 1] = "all" THEN NamedByAll ELSE <<>>

LEMMA RequestedIs ==
  ASSUME NEW words \in Seq(Commands)
  PROVE  \E n \in 0 .. Len(words) : FieldsUpTo(words, n)
<1>1. PICK l \in Nat : l = Len(words)
  OBVIOUS
<1> DEFINE T == {n \in 0 .. l : n = l \/ words[n + 1] \notin FieldNames}
<1>2. T \subseteq Nat /\ l \in T
  OBVIOUS
<1>3. PICK n \in T : \A m \in T : n <= m
  BY <1>2, Smallest
<1>4. ASSUME NEW i \in 1 .. n PROVE words[i] \in FieldNames
  <2>1. i - 1 \in 0 .. l /\ i - 1 < n /\ i - 1 + 1 = i
    BY <1>3
  <2>2. i - 1 \notin T
    BY <1>3, <2>1
  <2> QED
    BY <2>1, <2>2
<1> QED
  BY <1>1, <1>3, <1>4 DEF FieldsUpTo

LEMMA RequestedFrom ==
  ASSUME NEW words \in Seq(Commands), NEW n, FieldsUpTo(words, n)
  PROVE  Requested(words) = SubSeq(words, 1, n) \o EndOf(words, n)
<1>1. PICK l \in Nat : l = Len(words) /\ n \in 0 .. l
  BY DEF FieldsUpTo
<1>2. ASSUME NEW k \in 0 .. l, NEW m \in 0 .. l, FieldsUpTo(words, k), FieldsUpTo(words, m), k < m
      PROVE  FALSE
  <2>1. k + 1 \in 1 .. m /\ k < l
    BY <1>2
  <2> QED
    BY <1>1, <1>2, <2>1 DEF FieldsUpTo
<1>3. \A k \in 0 .. Len(words) :
        ((\A i \in 1 .. k : words[i] \in FieldNames) /\ (k < Len(words) => words[k + 1] \notin FieldNames)) <=> k = n
  <2>1. \A k \in 0 .. l : FieldsUpTo(words, k) => k = n
    BY <1>1, <1>2
  <2> QED
    BY <1>1, <2>1 DEF FieldsUpTo
<1>4. (CHOOSE k \in 0 .. Len(words) :
         (\A i \in 1 .. k : words[i] \in FieldNames) /\ (k < Len(words) => words[k + 1] \notin FieldNames)) = n
  BY <1>1, <1>3
<1> QED
  BY <1>4 DEF Requested, EndOf

(* "all", as a list of its own or what it stands for. *)
LEMMA RequestedAll ==
  /\ \A words \in Seq(Commands) : words # <<>> /\ Head(words) = "all" => Requested(words) = NamedByAll
  /\ Requested(All) = NamedByAll /\ All \in Seq(Commands)
  /\ NamedByAll \in Seq(FieldNames)
<1>1. NamedByAll \in Seq(FieldNames) /\ All = NamedByAll /\ All \in Seq(Commands) /\ Len(All) = 9
  BY AllIs, SeqMonotonic
<1>2. ASSUME NEW words \in Seq(Commands), words # <<>>, Head(words) = "all"
      PROVE  Requested(words) = NamedByAll
  <2>1. words[1] = "all" /\ Len(words) \in Nat /\ Len(words) > 0
    BY <1>2
  <2>2. FieldsUpTo(words, 0)
    BY <2>1, AllIs DEF FieldsUpTo
  <2>3. EndOf(words, 0) = NamedByAll
    BY <2>1 DEF EndOf
  <2>4. SubSeq(words, 1, 0) = <<>>
    BY <2>1
  <2>5. <<>> \o NamedByAll = NamedByAll
    BY <1>1
  <2> QED
    BY <2>2, <2>3, <2>4, <2>5, RequestedFrom
<1>3. Requested(All) = NamedByAll
  <2>1. FieldsUpTo(All, 9)
    <3>1. PICK list \in Seq(FieldNames) : list = All /\ Len(list) = 9
      BY <1>1
    <3>4. \A i \in 1 .. Len(list) : list[i] \in FieldNames
      OBVIOUS
    <3>2. \A i \in 1 .. 9 : list[i] \in FieldNames
      BY <3>1, <3>4
    <3>3. 9 \in 0 .. 9 /\ ~(9 < 9)
      OBVIOUS
    <3> QED
      BY <3>1, <3>2, <3>3, Zenon DEF FieldsUpTo
  <2>2. EndOf(All, 9) = <<>>
    BY <1>1 DEF EndOf
  <2>3. SubSeq(All, 1, 9) = All
    BY <1>1, SubSeqFull
  <2>4. NamedByAll \o <<>> = NamedByAll
    BY <1>1
  <2> QED
    BY <1>1, <2>1, <2>2, <2>3, <2>4, RequestedFrom
<1> QED
  BY <1>1, <1>2, <1>3

LEMMA RequestedNone ==
  ASSUME NEW words \in Seq(Commands), words # <<>> => Head(words) \notin FieldNames \cup {"all"}
  PROVE  Requested(words) = <<>>
<1>1. Len(words) \in Nat /\ (words = <<>> <=> Len(words) = 0)
  OBVIOUS
<1>2. Len(words) > 0 => words[1] \notin FieldNames /\ words[1] # "all"
  BY <1>1
<1>3. FieldsUpTo(words, 0) /\ EndOf(words, 0) = <<>>
  BY <1>1, <1>2 DEF FieldsUpTo, EndOf
<1>4. SubSeq(words, 1, 0) = <<>> /\ <<>> \o <<>> = <<>>
  BY <1>1
<1> QED
  BY <1>3, <1>4, RequestedFrom

LEMMA RequestedType ==
  ASSUME NEW words \in Seq(Commands)
  PROVE  Requested(words) \in Seq(FieldNames)
<1>1. PICK n \in 0 .. Len(words) : FieldsUpTo(words, n)
  BY RequestedIs
<1>2. 1 \in Int /\ n \in Int /\ \A i \in 1 .. n : words[i] \in FieldNames
  BY <1>1 DEF FieldsUpTo
<1>3. SubSeq(words, 1, n) \in Seq(FieldNames)
  BY <1>2, SubSeqProperties
<1>4. EndOf(words, n) \in Seq(FieldNames)
  BY RequestedAll DEF EndOf
<1>5. SubSeq(words, 1, n) \o EndOf(words, n) \in Seq(FieldNames)
  BY <1>3, <1>4, ConcatProperties
<1> QED
  BY <1>1, <1>5, RequestedFrom

(* A field in front is the first that is asked for, before all the others.  *)
LEMMA RequestedNext ==
  ASSUME NEW words \in Seq(Commands), words # <<>>, Head(words) \in FieldNames
  PROVE  /\ Tail(words) \in Seq(Commands)
         /\ Len(Requested(words)) = Len(Requested(Tail(words))) + 1
         /\ Requested(words)[1] = Head(words)
         /\ \A i \in 1 .. Len(Requested(Tail(words))) : Requested(words)[i + 1] = Requested(Tail(words))[i]
<1>1. PICK l \in Nat : l = Len(words) /\ l > 0 /\ words[1] = Head(words)
  OBVIOUS
<1>2. PICK tail \in Seq(Commands) : tail = Tail(words) /\ Len(tail) = l - 1 /\ \A i \in 1 .. l - 1 : tail[i] = words[i + 1]
  <2>1. /\ Tail(words) \in Seq(Commands) /\ Len(Tail(words)) = Len(words) - 1
        /\ \A i \in 1 .. Len(Tail(words)) : Tail(words)[i] = words[i + 1]
    BY HeadTailProperties
  <2>2. PICK tail : tail = Tail(words)
    OBVIOUS
  <2>3. Len(tail) = l - 1
    BY <1>1, <2>1, <2>2
  <2> QED
    BY <2>1, <2>2, <2>3
<1>3. PICK n \in Nat : n \in 0 .. l /\ FieldsUpTo(words, n)
  BY <1>1, RequestedIs
<1>4. n > 0
  BY <1>1, <1>3 DEF FieldsUpTo
<1>5. PICK m \in Nat : n = m + 1
  BY <1>3, <1>4
<1>6. \A i \in 1 .. m : i + 1 \in 1 .. n /\ i \in 1 .. l - 1
  BY <1>3, <1>5
<1>7. n < l => tail[n] = words[n + 1]
  BY <1>2, <1>3, <1>4
<1>8. FieldsUpTo(tail, m)
  <2>1. m \in 0 .. l - 1
    BY <1>3, <1>5
  <2>2. \A i \in 1 .. m : tail[i] \in FieldNames
    BY <1>2, <1>3, <1>6 DEF FieldsUpTo
  <2>3. m < l - 1 => tail[m + 1] \notin FieldNames
    BY <1>1, <1>3, <1>5, <1>7 DEF FieldsUpTo
  <2> QED
    BY <1>2, <2>1, <2>2, <2>3 DEF FieldsUpTo
<1>9. PICK end \in Seq(FieldNames) : end = EndOf(words, n) /\ end = EndOf(tail, m)
  <2>1. EndOf(words, n) = EndOf(tail, m)
    BY <1>1, <1>2, <1>3, <1>5, <1>7 DEF EndOf
  <2>2. EndOf(words, n) \in Seq(FieldNames)
    BY RequestedAll DEF EndOf
  <2> QED
    BY <2>1, <2>2
<1>10. PICK a \in Seq(FieldNames), b \in Seq(FieldNames) :
         /\ a = SubSeq(words, 1, n) /\ Len(a) = n /\ \A i \in 1 .. n : a[i] = words[i]
         /\ b = SubSeq(tail, 1, m) /\ Len(b) = m /\ \A i \in 1 .. m : b[i] = tail[i]
  <2>1. \A i \in 1 .. n : words[i] \in FieldNames
    BY <1>3 DEF FieldsUpTo
  <2>2. \A i \in 1 .. m : tail[i] \in FieldNames
    BY <1>8 DEF FieldsUpTo
  <2>3. /\ SubSeq(words, 1, n) \in Seq(FieldNames) /\ Len(SubSeq(words, 1, n)) = IF 1 <= n THEN n - 1 + 1 ELSE 0
        /\ \A i \in 1 .. n - 1 + 1 : SubSeq(words, 1, n)[i] = words[1 + i - 1]
    BY <2>1, SubSeqProperties
  <2>4. /\ SubSeq(tail, 1, m) \in Seq(FieldNames) /\ Len(SubSeq(tail, 1, m)) = IF 1 <= m THEN m - 1 + 1 ELSE 0
        /\ \A i \in 1 .. m - 1 + 1 : SubSeq(tail, 1, m)[i] = tail[1 + i - 1]
    BY <2>2, SubSeqProperties
  <2>5. /\ n - 1 + 1 = n /\ m - 1 + 1 = m /\ (~(1 <= m) => m = 0) /\ 1 <= n
        /\ \A i \in Nat : 1 + i - 1 = i
    BY <1>4
  <2>6. PICK a, b : a = SubSeq(words, 1, n) /\ b = SubSeq(tail, 1, m)
    OBVIOUS
  <2>7. a \in Seq(FieldNames) /\ Len(a) = n /\ \A i \in 1 .. n : a[i] = words[i]
    BY <2>3, <2>5, <2>6
  <2>8. b \in Seq(FieldNames) /\ Len(b) = m /\ \A i \in 1 .. m : b[i] = tail[i]
    BY <2>4, <2>5, <2>6
  <2> QED
    BY <2>6, <2>7, <2>8
<1>11. Requested(words) = a \o end /\ Requested(tail) = b \o end
  BY <1>3, <1>8, <1>9, <1>10, RequestedFrom
<1>12. PICK e \in Nat : e = Len(end)
  BY <1>9
<1>13. /\ Len(a \o end) = n + e
       /\ \A i \in 1 .. n : (a \o end)[i] = a[i]
       /\ \A i \in n + 1 .. n + e : (a \o end)[i] = end[i - n]
  BY <1>9, <1>10, <1>12, SMTT(60)
<1>14. /\ Len(b \o end) = m + e
       /\ \A i \in 1 .. m : (b \o end)[i] = b[i]
       /\ \A i \in m + 1 .. m + e : (b \o end)[i] = end[i - m]
  BY <1>9, <1>10, <1>12
<1>15. ASSUME NEW i \in 1 .. m + e PROVE (a \o end)[i + 1] = (b \o end)[i]
  <2>1. PICK x : x = i + 1
    OBVIOUS
  <2>2. CASE i \in 1 .. m
    <3>1. x \in 1 .. n /\ i \in 1 .. l - 1
      BY <1>5, <1>6, <2>1, <2>2
    <3>2. (a \o end)[x] = words[x] /\ (b \o end)[i] = tail[i]
      BY <1>10, <1>13, <1>14, <2>2, <3>1
    <3>3. tail[i] = words[x]
      BY <1>2, <2>1, <3>1
    <3> QED
      BY <2>1, <3>2, <3>3
  <2>3. CASE i \in m + 1 .. m + e
    <3>1. x \in n + 1 .. n + e /\ x - n = i - m
      BY <1>5, <2>1, <2>3
    <3>2. (a \o end)[x] = end[x - n] /\ (b \o end)[i] = end[i - m]
      BY <1>13, <1>14, <2>3, <3>1
    <3>3. (a \o end)[x] = (b \o end)[i]
      BY <3>1, <3>2
    <3> QED
      BY <2>1, <3>3
  <2>4. i \in 1 .. m \/ i \in m + 1 .. m + e
    OBVIOUS
  <2> QED
    BY <2>2, <2>3, <2>4
<1>16. 1 \in 1 .. n /\ n + e = m + e + 1
  BY <1>4, <1>5
<1> QED
  BY <1>1, <1>2, <1>10, <1>11, <1>13, <1>14, <1>15, <1>16, ZenonT(60)

-----------------------------------------------------------------------------
(* Query: what info_print() has printed so far.                             *)

(* The first m of the names asked for have been dealt with.                 *)
PrintedTo(list, m) ==
  /\ m \in 0 .. Len(Asked)
  /\ \A k \in 1 .. m : ~Lacks(Asked[k])
  /\ Len(list) = Cardinality(Told(m))
  /\ \A k \in Told(m) : list[Cardinality(Told(k))] = fld_list[First(Asked[k])]

(* The rest of them is what the words ask for.                              *)
StillAsked(words, m) ==
  /\ Len(Requested(words)) = Len(Asked) - m
  /\ \A i \in 1 .. Len(Requested(words)) : Requested(words)[i] = Asked[m + i]

PrintInv ==
  /\ at = "printing" => \E m \in Nat : PrintedTo(printed, m) /\ StillAsked(commands, m)
  /\ at = "printed" => PrintedTo(printed, Len(Asked))

LEMMA ToldIs ==
  ASSUME NEW m \in Nat
  PROVE  /\ Told(m) \subseteq 1 .. m /\ IsFiniteSet(Told(m)) /\ Cardinality(Told(m)) \in Nat
         /\ \A k \in Told(m) : Cardinality(Told(k)) \in 1 .. Cardinality(Told(m))
<1>1. \A n \in Nat : Told(n) \subseteq 1 .. n /\ IsFiniteSet(Told(n)) /\ Cardinality(Told(n)) \in Nat
  <2> TAKE n \in Nat
  <2>1. Told(n) \subseteq 1 .. n
    BY DEF Told
  <2>2. IsFiniteSet(1 .. n)
    BY FS_Interval
  <2> QED
    BY <2>1, <2>2, FS_Subset, FS_CardinalityType
<1>2. ASSUME NEW k \in Told(m) PROVE Cardinality(Told(k)) \in 1 .. Cardinality(Told(m))
  <2>1. k \in Nat /\ k \in 1 .. m
    BY <1>1
  <2>2. Told(k) \subseteq Told(m) /\ k \in Told(k)
    BY <2>1 DEF Told
  <2>3. Cardinality(Told(k)) <= Cardinality(Told(m)) /\ Cardinality(Told(k)) # 0
    BY <1>1, <2>1, <2>2, FS_Subset, FS_EmptySet
  <2> QED
    BY <1>1, <2>1, <2>3
<1> QED
  BY <1>1, <1>2

LEMMA ToldNext ==
  ASSUME NEW m \in Nat
  PROVE  IF fld_list[First(Asked[m + 1])].type = "str"
         THEN /\ Told(m + 1) = Told(m) \cup {m + 1}
              /\ Cardinality(Told(m + 1)) = Cardinality(Told(m)) + 1
         ELSE Told(m + 1) = Told(m)
<1>1. PICK n \in Nat : n = m + 1
  OBVIOUS
<1>2. \A k \in 1 .. n : k \in 1 .. m \/ k = n
  BY <1>1
<1>3. 1 .. m \subseteq 1 .. n /\ n \in 1 .. n /\ n \notin 1 .. m
  BY <1>1
<1>4. CASE fld_list[First(Asked[n])].type = "str"
  <2>1. Told(n) = Told(m) \cup {n} /\ n \notin Told(m)
    BY <1>2, <1>3, <1>4 DEF Told
  <2>2. Cardinality(Told(m) \cup {n}) = Cardinality(Told(m)) + 1
    BY <2>1, ToldIs, FS_AddElement
  <2> QED
    BY <1>1, <1>4, <2>1, <2>2
<1>5. CASE fld_list[First(Asked[n])].type # "str"
  <2>1. Told(n) = Told(m)
    BY <1>2, <1>3, <1>5 DEF Told
  <2> QED
    BY <1>1, <1>5, <2>1
<1> QED
  BY <1>4, <1>5

(* One more name, printed if its field is not empty.                        *)
LEMMA OnePrinted ==
  ASSUME printed \in Seq(Fields), fld_list \in Seq(Fields) \cup {Garbage},
         NEW m \in Nat, PrintedTo(printed, m), m < Len(Asked), Has(Asked[m + 1]),
         NEW fld \in Fields, fld = info_get_fld(Asked[m + 1]),
         NEW list, list = (IF fld.type = "str" THEN Append(printed, fld) ELSE printed)
  PROVE  PrintedTo(list, m + 1)
<1>1. PICK n, name : n \in Nat /\ n = m + 1 /\ name = Asked[n]
  OBVIOUS
<1>2. fld = fld_list[First(name)] /\ ~Lacks(name)
  BY <1>1, FieldFound DEF Has, Lacks
<1>3. n \in 0 .. Len(Asked)
  BY <1>1 DEF PrintedTo
<1>4. \A k \in 1 .. n : ~Lacks(Asked[k])
  <2>1. \A k \in 1 .. n : k \in 1 .. m \/ k = n
    BY <1>1
  <2> QED
    BY <1>1, <1>2, <2>1 DEF PrintedTo
<1>5. PICK c \in Nat : c = Cardinality(Told(m)) /\ c = Len(printed)
  BY ToldIs DEF PrintedTo
<1>6. \A k \in Told(m) : Cardinality(Told(k)) \in 1 .. c
  BY <1>5, ToldIs
<1>7. CASE fld.type = "str"
  <2>1. Told(n) = Told(m) \cup {n} /\ Cardinality(Told(n)) = c + 1
    BY <1>1, <1>2, <1>5, <1>7, ToldNext
  <2>2. Len(list) = c + 1 /\ list[c + 1] = fld /\ \A i \in 1 .. c : list[i] = printed[i]
    BY <1>5, <1>7, AppendProperties
  <2>3. ASSUME NEW k \in Told(n) PROVE list[Cardinality(Told(k))] = fld_list[First(Asked[k])]
    <3>1. CASE k = n
      BY <1>1, <1>2, <2>1, <2>2, <3>1
    <3>2. CASE k \in Told(m)
      BY <1>6, <2>2, <3>2 DEF PrintedTo
    <3> QED
      BY <2>1, <3>1, <3>2
  <2>4. PrintedTo(list, n)
    BY <1>3, <1>4, <2>1, <2>2, <2>3 DEF PrintedTo
  <2> QED
    BY <1>1, <2>4
<1>8. CASE fld.type # "str"
  <2>1. Told(n) = Told(m) /\ list = printed
    BY <1>1, <1>2, <1>8, ToldNext
  <2>2. PrintedTo(list, n)
    BY <1>3, <1>4, <2>1 DEF PrintedTo
  <2> QED
    BY <1>1, <2>2
<1> QED
  BY <1>7, <1>8

LEMMA SamePrint ==
  ASSUME fld_list' = fld_list, Asked' = Asked
  PROVE  /\ \A name : Lacks(name)' = Lacks(name) /\ First(name)' = First(name) /\ (Has(name)' <=> Has(name))
         /\ \A n : Told(n)' = Told(n)
         /\ \A list, m : PrintedTo(list, m)' <=> PrintedTo(list, m)
         /\ \A words, m : StillAsked(words, m)' <=> StillAsked(words, m)
<1>1. \A name : Lacks(name)' = Lacks(name) /\ First(name)' = First(name) /\ (Has(name)' <=> Has(name))
  BY DEF Lacks, First, Has
<1>2. \A n : Told(n)' = Told(n)
  BY <1>1 DEF Told
<1>3. \A list, m : PrintedTo(list, m)' <=> PrintedTo(list, m)
  BY <1>1, <1>2 DEF PrintedTo
<1>4. \A words, m : StillAsked(words, m)' <=> StillAsked(words, m)
  BY DEF StillAsked
<1> QED
  BY <1>1, <1>2, <1>3, <1>4

LEMMA AskedType ==
  ASSUME PartsInv, infoflag > 0, Argv(infoflag) # NoWord
  PROVE  CommandsIn[Argv(infoflag)] \in Seq(Commands) /\ Asked \in Seq(FieldNames)
<1>1. CommandsIn[Argv(infoflag)] \in Seq(Commands)
  BY WordIsText, SessionAssumption DEF PartsInv
<1> QED
  BY <1>1, RequestedType DEF Asked

(* A field in front of the commands is the next of the names.               *)
LEMMA NextAsked ==
  ASSUME commands \in Seq(Commands), Asked \in Seq(FieldNames), NEW m \in Nat, StillAsked(commands, m),
         m \in 0 .. Len(Asked), commands # <<>>, Head(commands) \in FieldNames
  PROVE  m < Len(Asked) /\ Asked[m + 1] = Head(commands) /\ StillAsked(Tail(commands), m + 1)
<1>1. PICK r \in Seq(FieldNames), t \in Seq(FieldNames) :
        /\ r = Requested(commands) /\ t = Requested(Tail(commands))
        /\ Len(r) = Len(t) + 1 /\ r[1] = Head(commands) /\ \A i \in 1 .. Len(t) : r[i + 1] = t[i]
  <2>1. Requested(commands) \in Seq(FieldNames) /\ Requested(Tail(commands)) \in Seq(FieldNames)
    BY RequestedType, RequestedNext
  <2> QED
    BY <2>1, RequestedNext
<1>2. PICK a \in Nat, l \in Nat : a = Len(Asked) /\ l = Len(t) /\ Len(r) = l + 1
  BY <1>1
<1>3. l + 1 = a - m /\ \A i \in 1 .. l + 1 : r[i] = Asked[m + i]
  BY <1>1, <1>2 DEF StillAsked
<1>4. m < a /\ Asked[m + 1] = Head(commands)
  BY <1>1, <1>2, <1>3
<1>5. PICK n \in Nat : n = m + 1
  OBVIOUS
<1>6. ASSUME NEW i \in 1 .. l PROVE t[i] = Asked[n + i]
  <2>1. PICK x : x = i + 1
    OBVIOUS
  <2>2. x \in 1 .. l + 1 /\ m + x = n + i
    BY <1>5, <2>1
  <2>3. r[x] = Asked[n + i] /\ r[x] = t[i]
    BY <1>1, <1>2, <1>3, <2>1, <2>2
  <2> QED
    BY <2>3
<1>7. StillAsked(Tail(commands), n)
  <2>1. l = a - n
    <3>1. l + 1 = a - m /\ n = m + 1 /\ l \in Nat /\ a \in Nat /\ m \in Nat
      BY <1>2, <1>3, <1>5
    <3> QED
      BY <3>1
  <2>2. Len(t) = l /\ Len(Asked) = a /\ t = Requested(Tail(commands))
    BY <1>1, <1>2
  <2>3. \A i \in 1 .. l : t[i] = Asked[n + i]
    BY <1>6
  <2>4. Len(t) = Len(Asked) - n /\ \A i \in 1 .. Len(t) : t[i] = Asked[n + i]
    BY <2>1, <2>2, <2>3
  <2> QED
    BY <2>2, <2>4, Zenon DEF StillAsked
<1> QED
  BY <1>2, <1>4, <1>5, <1>7

LEMMA PrintStarts == Init => PrintInv
BY SessionAssumption DEF Init, PrintInv, AnySession

LEMMA PrintedKeeps ==
  ASSUME PartsInv, StageInv, PrintInv, [Next]_vars
  PROVE  PrintInv'
<1>1. /\ commands \in Seq(Commands) /\ printed \in Seq(Fields) /\ fld_list \in Seq(Fields) \cup {Garbage}
  BY DEF PartsInv, InfoInv, InfoTyped
<1>2. at # "main" => Asked' = Asked
  <2>1. at # "main" => UNCHANGED <<opts, plain, infoflag>>
    BY ParseStepIs DEF parseVars
  <2> QED
    BY <2>1 DEF Asked, Argv
<1>3. ASSUME at # "main", UNCHANGED <<fld_list, commands, printed>>, at' = at \/ at' \notin {"printing", "printed"}
      PROVE  PrintInv'
  <2>1. CASE at' = at
    <3>1. PICK a : a = Asked /\ a = Asked'
      BY <1>2, <1>3
    <3>2. PICK p, c : p = printed /\ p = printed' /\ c = commands /\ c = commands'
      BY <1>3
    <3>3. /\ \A m : PrintedTo(p, m)' <=> PrintedTo(p, m)
          /\ \A m : StillAsked(c, m)' <=> StillAsked(c, m)
      BY <1>2, <1>3, SamePrint
    <3>4. /\ \A m : PrintedTo(printed, m)' <=> PrintedTo(p, m)'
          /\ \A m : StillAsked(commands, m)' <=> StillAsked(c, m)'
      BY <3>2 DEF PrintedTo, StillAsked
    <3>5. PrintedTo(printed, Len(Asked))' <=> PrintedTo(p, Len(a))'
      BY <3>1, <3>2 DEF PrintedTo
    <3> QED
      BY <2>1, <3>1, <3>2, <3>3, <3>4, <3>5 DEF PrintInv
  <2>2. CASE at' \notin {"printing", "printed"}
    BY <2>2 DEF PrintInv
  <2> QED
    BY <1>3, <2>1, <2>2
<1>4. CASE Main
  BY <1>4 DEF Main, PrintInv
<1>5. CASE Path \/ Open
  <2>1. UNCHANGED <<fld_list, commands, printed>>
    BY <1>5 DEF Path, Open, SameInfo, infoVars
  <2>2. at' = at \/ at' \notin {"printing", "printed"}
    <3>1. CASE Path
      BY <3>1 DEF Path
    <3>2. CASE Open
      BY <3>2 DEF Open
    <3> QED
      BY <1>5, <3>1, <3>2
  <2>3. CASE at = "main"
    BY <1>5, <2>3 DEF Path, Open, PrintInv
  <2> QED
    BY <1>3, <2>1, <2>2, <2>3
<1>6. CASE Grab \/ LoadStep
  BY <1>6 DEF Grab, LoadStep, Goto, PrintInv
<1>7. CASE Overflow \/ Extract \/ Log \/ Copy
  BY <1>7 DEF Overflow, Extract, Log, Copy, PrintInv
<1>8. CASE OpenDatabase \/ Column \/ Insert
  BY <1>8 DEF OpenDatabase, Column, Insert, PrintInv
<1>9. CASE Depends \/ DepsStep \/ WindUp
  BY <1>9 DEF Depends, DepsStep, WindUp, Goto, PrintInv
<1>10. CASE UNCHANGED vars
  <2>1. UNCHANGED <<at, fld_list, commands, printed>> /\ (at = "main" => PrintInv')
    BY <1>10 DEF vars, infoVars, PrintInv
  <2> QED
    BY <1>3, <2>1
<1>11. CASE PrintStep
  <2>1. at = "print" /\ printed = <<>> /\ infoflag > 0
    BY <1>11 DEF PrintStep, StageInv
  <2>2. CASE Argv(infoflag) = NoWord
    BY <1>11, <2>2 DEF PrintStep, PrintNothing, Goto, PrintInv
  <2>3. CASE Argv(infoflag) # NoWord
    <3>1. commands' = CommandsIn[Argv(infoflag)] /\ printed' = printed /\ fld_list' = fld_list
      BY <1>11, <2>3 DEF PrintStep, PrintStart
    <3>2. at' \in {"printing", "crashed"}
      BY <1>11 DEF PrintStep, Goto
    <3>3. Asked \in Seq(FieldNames) /\ Requested(commands') = Asked
      BY <2>1, <2>3, <3>1, AskedType DEF Asked
    <3>4. PrintedTo(<<>>, 0)
      <4>1. Told(0) = {}
        BY DEF Told
      <4> QED
        BY <3>3, <4>1, FS_EmptySet DEF PrintedTo
    <3>5. PICK words : words = commands'
      OBVIOUS
    <3>6. StillAsked(words, 0)
      <4>1. Requested(words) = Asked /\ Len(Asked) \in Nat
        BY <3>3, <3>5
      <4>2. Len(Asked) - 0 = Len(Asked) /\ \A i \in 1 .. Len(Asked) : 0 + i = i
        BY <4>1
      <4> QED
        BY <4>1, <4>2 DEF StillAsked
    <3>7. PrintedTo(<<>>, 0)' /\ StillAsked(words, 0)'
      BY <1>2, <2>1, <3>1, <3>4, <3>6, SamePrint
    <3>8. PrintedTo(printed, 0)' /\ StillAsked(commands, 0)'
      BY <2>1, <3>1, <3>5, <3>7 DEF PrintedTo, StillAsked
    <3> QED
      BY <3>2, <3>8 DEF PrintInv
  <2> QED
    BY <2>2, <2>3
<1>12. CASE PrintLoop
  <2>1. /\ at = "printing" /\ infoflag > 0 /\ Argv(infoflag) # NoWord
        /\ fld_list' = fld_list /\ Asked' = Asked /\ Asked \in Seq(FieldNames)
    BY <1>2, <1>12, AskedType DEF PrintLoop, PrintAll, PrintField, PrintEnds, StageInv
  <2>2. /\ at' = "printing" => info' = "printing"
        /\ at' = "printed" => info' # "printing" /\ info' # "crashed"
        /\ at' \in {"printing", "printed", "crashed"}
    BY <1>12 DEF PrintLoop, Goto
  <2>3. PICK m \in Nat : PrintedTo(printed, m) /\ StillAsked(commands, m)
    BY <2>1 DEF PrintInv
  <2>4. ASSUME NEW list, NEW words, NEW n \in Nat, list = printed', words = commands',
               PrintedTo(list, n), StillAsked(words, n), info' \in {"printing", "crashed"}
        PROVE  PrintInv'
    <3>1. PrintedTo(list, n)' /\ StillAsked(words, n)'
      BY <2>1, <2>4, SamePrint
    <3>2. PrintedTo(printed, n)' /\ StillAsked(commands, n)'
      BY <2>4, <3>1 DEF PrintedTo, StillAsked
    <3> QED
      BY <2>2, <2>4, <3>2 DEF PrintInv
  <2>5. CASE PrintAll
    <3>1. PICK words : words = commands' /\ words = All /\ commands # <<>> /\ Head(commands) = "all"
      BY <2>5 DEF PrintAll
    <3>2. Requested(words) = Requested(commands)
      BY <1>1, <3>1, RequestedAll
    <3>3. StillAsked(words, m)
      BY <2>3, <3>2 DEF StillAsked
    <3> QED
      BY <2>3, <2>4, <2>5, <3>1, <3>3 DEF PrintAll
  <2>6. CASE PrintField
    <3>1. m \in 0 .. Len(Asked) /\ commands # <<>> /\ Head(commands) \in FieldNames
      BY <2>3, <2>6 DEF PrintField, PrintedTo
    <3>2. m < Len(Asked) /\ Asked[m + 1] = Head(commands) /\ StillAsked(Tail(commands), m + 1)
      BY <1>1, <2>1, <2>3, <3>1, NextAsked
    <3>3. CASE ~Has(Head(commands))
      <4>1. info' = "crashed"
        BY <2>6, <3>3 DEF PrintField
      <4> QED
        BY <2>2, <4>1 DEF PrintInv
    <3>4. CASE Has(Head(commands))
      <4>1. PICK fld \in Fields : fld = info_get_fld(Head(commands))
        BY <1>1, <3>4, FieldFound
      <4>2. PICK list, words :
              /\ list = printed' /\ list = (IF fld.type = "str" THEN Append(printed, fld) ELSE printed)
              /\ words = commands' /\ words = Tail(commands)
        BY <2>6, <3>4, <4>1 DEF PrintField
      <4>3. PICK n \in Nat : n = m + 1
        OBVIOUS
      <4>4. PrintedTo(list, m + 1)
        <5>1. Has(Asked[m + 1]) /\ fld = info_get_fld(Asked[m + 1])
          BY <3>2, <3>4, <4>1
        <5>2. list = (IF fld.type = "str" THEN Append(printed, fld) ELSE printed)
          BY <4>2
        <5> QED
          BY <1>1, <2>3, <3>2, <5>1, <5>2, OnePrinted
      <4>5. StillAsked(words, m + 1)
        BY <3>2, <4>2
      <4>6. PrintedTo(list, n) /\ StillAsked(words, n)
        BY <4>3, <4>4, <4>5
      <4>7. info' \in {"printing", "crashed"}
        BY <2>6, <3>4 DEF PrintField
      <4> QED
        BY <2>4, <4>2, <4>6, <4>7
    <3> QED
      BY <3>3, <3>4
  <2>7. CASE PrintEnds
    <3>1. Requested(commands) = <<>> /\ printed' = printed
      BY <1>1, <2>7, RequestedNone DEF PrintEnds
    <3>2. m = Len(Asked)
      <4>1. PICK a \in Nat : a = Len(Asked)
        BY <2>1
      <4>2. Len(Requested(commands)) = 0
        BY <3>1
      <4> QED
        BY <2>3, <4>1, <4>2 DEF StillAsked
    <3>3. PICK list, a : list = printed /\ list = printed' /\ a = Len(Asked) /\ a = Len(Asked)'
      BY <2>1, <3>1
    <3>4. PrintedTo(list, a)
      BY <2>3, <3>2, <3>3
    <3>5. PrintedTo(list, a)'
      BY <2>1, <3>4, SamePrint
    <3>6. PrintedTo(printed, Len(Asked))'
      BY <3>3, <3>5 DEF PrintedTo
    <3>7. info' = "loaded"
      BY <2>7 DEF PrintEnds
    <3> QED
      BY <2>2, <3>6, <3>7 DEF PrintInv
  <2> QED
    BY <1>12, <2>5, <2>6, <2>7 DEF PrintLoop
<1> QED
  BY <1>4, <1>5, <1>6, <1>7, <1>8, <1>9, <1>10, <1>11, <1>12 DEF Next
-----------------------------------------------------------------------------
(* Query: p_app suffices, and --info prints what it was asked for.          *)

LEMMA BudgetStarts ==
  ASSUME Init
  PROVE  BudgetInv
<1>1. due = <<>> /\ p_app_len = 0 /\ at \in {"main", "grab"}
  BY DEF Init, ArenaInit
<1> QED
  BY <1>1 DEF BudgetInv, Budget, Final

(***************************************************************************)
(* All that one process writes to p_app fits its size, whatever the command *)
(* line and the archive, unless the info text was longer than temp_str.     *)
(***************************************************************************)
THEOREM PathsSuffice == Spec => []PathsFit
<1>1. PartsInv /\ BudgetInv => PathsFit
  <2> SUFFICES ASSUME PartsInv, BudgetInv, session.member # "long"
               PROVE  p_app_len <= Size
    BY DEF PathsFit
  <2>1. at \in Stages /\ p_app_len \in Nat /\ Budget(at, due, p_app_len)
    BY DEF PartsInv, ProcessTyped, ArenaInv, ArenaTyped, BudgetInv
  <2>2. p_app_len <= 2 * NameLength + 142
    BY <2>1, BudgetFits
  <2> QED
    BY <2>1, <2>2, LengthAssumption, SizeAssumption
<1> QED
  BY <1>1, PartsStart, PartsKeep, BudgetStarts, BudgetKeeps, PTL DEF Spec

(***************************************************************************)
(* For any list of commands and any info text, --info prints the value of   *)
(* the first field of each name that was asked for, in the order asked, but *)
(* for the empty ones.                                                      *)
(***************************************************************************)
THEOREM PrintedAsAsked == Spec => []PrintFaithful
<1>1. PrintInv => PrintFaithful
  BY DEF PrintInv, PrintedTo, PrintFaithful
<1> QED
  BY <1>1, PartsStart, PartsKeep, StageStarts, StageKeeps, PrintStarts, PrintedKeeps, PTL DEF Spec

-----------------------------------------------------------------------------
(* Query: the row that update_db() puts together.                           *)

RowInv ==
  /\ Len(row) <= Len(column_map)
  /\ \A k \in 1 .. Len(row) :
       /\ Has(column_map[k].fld)
       /\ row[k] = [col |-> column_map[k].col, str |-> info_get_fld(column_map[k].fld).str]
  /\ db \in {"written", "refused"} => Len(row) = Len(column_map)

LEMMA RowStarts ==
  ASSUME Init
  PROVE  RowInv
<1>1. row = <<>> /\ db = "closed"
  BY DEF Init
<1> QED
  BY <1>1, ColumnsAre DEF RowInv

(* The list of fields stays as it is once there is a row. *)
LEMMA RowListStays ==
  ASSUME StageInv, row # <<>>, [Next]_vars
  PROVE  UNCHANGED fld_list
<1>1. info \notin {"unset", "loading"}
  BY DEF StageInv
<1>2. Load(session.text) \/ LoadField \/ LoadUnmatched \/ LoadEnds => FALSE
  BY <1>1 DEF Load, LoadField, LoadUnmatched, LoadEnds
<1>3. PrintNothing \/ PrintAll \/ PrintField \/ PrintEnds \/ Unload \/ UNCHANGED infoVars => UNCHANGED fld_list
  BY DEF PrintNothing, PrintAll, PrintField, PrintEnds, Unload, infoVars
<1>4. PrintStart(CommandsIn[Argv(infoflag)]) => UNCHANGED fld_list
  BY DEF PrintStart
<1> QED
  BY <1>2, <1>3, <1>4, InfoStepIs

LEMMA RowKeeps ==
  ASSUME PartsInv, StageInv, RowInv, [Next]_vars
  PROVE  RowInv'
<1>1. PICK l \in Nat : l = Len(row)
  BY DEF PartsInv, ProcessTyped
<1>2. row \in Seq([col : Columns, str : Seq(Values \cup {Garbage})])
  BY DEF PartsInv, ProcessTyped
<1>3. CASE Column
  <2>1. fld_list' = fld_list /\ db' = db /\ l < 8 /\ at = "columns"
    BY <1>1, <1>3, ColumnsAre DEF Column, SameInfo, infoVars
  <2>2. db' \notin {"written", "refused"}
    BY <2>1 DEF StageInv
  <2>3. \A name : (Has(name)' <=> Has(name)) /\ info_get_fld(name)' = info_get_fld(name)
    BY <2>1 DEF Has, info_get_fld
  <2>4. PICK column : column = column_map[l + 1]
    OBVIOUS
  <2>5. CASE row' = row
    BY <1>1, <2>1, <2>2, <2>3, <2>5 DEF RowInv
  <2>6. CASE MayRead(column.fld) /\ row' = Append(row, [col |-> column.col, str |-> info_get_fld(column.fld).str])
    <3>1. PICK new, list : new = [col |-> column.col, str |-> info_get_fld(column.fld).str] /\ list = row'
      OBVIOUS
    <3>2. Len(list) = l + 1 /\ list[l + 1] = new /\ \A k \in 1 .. l : list[k] = row[k]
      BY <1>1, <1>2, <2>6, <3>1
    <3>3. ASSUME NEW k \in 1 .. l + 1
          PROVE  Has(column_map[k].fld) /\ list[k] = [col |-> column_map[k].col, str |-> info_get_fld(column_map[k].fld).str]
      <4>1. CASE k = l + 1
        BY <2>4, <2>6, <3>1, <3>2, <4>1 DEF MayRead
      <4>2. CASE k \in 1 .. l
        BY <1>1, <3>2, <4>2 DEF RowInv
      <4> QED
        BY <4>1, <4>2
    <3>4. \A k \in 1 .. Len(list) :
            /\ Has(column_map[k].fld)'
            /\ list[k] = [col |-> column_map[k].col, str |-> info_get_fld(column_map[k].fld)'.str]
      BY <2>3, <3>2, <3>3
    <3> QED
      BY <2>1, <2>2, <3>1, <3>2, <3>4, ColumnsAre DEF RowInv
  <2> QED
    BY <1>1, <1>3, <2>4, <2>5, <2>6 DEF Column
<1>4. CASE ~Column
  <2>1. row' = row
    BY <1>4 DEF Next, vars, Overflow, Main, Path, Open, Grab, LoadStep, PrintStep, PrintLoop, Extract, Log, Copy,
         OpenDatabase, Insert, Depends, DepsStep, WindUp, Same
  <2>2. \/ db' \in {"written", "refused"} => db \in {"written", "refused"}
        \/ at = "columns" /\ Len(row) = Len(column_map)
    BY <1>4 DEF Next, vars, Overflow, Main, Path, Open, Grab, LoadStep, PrintStep, PrintLoop, Extract, Log, Copy,
         OpenDatabase, Insert, Depends, DepsStep, WindUp, Same
  <2>3. db' \in {"written", "refused"} => Len(row) = Len(column_map)
    BY <2>2 DEF RowInv
  <2>4. CASE row = <<>>
    <3>1. Len(row) = 0
      BY <2>4
    <3> QED
      BY <2>1, <2>3, <3>1, ColumnsAre DEF RowInv
  <2>5. CASE row # <<>>
    <3>1. fld_list' = fld_list
      BY <2>5, RowListStays
    <3>2. \A name : (Has(name)' <=> Has(name)) /\ info_get_fld(name)' = info_get_fld(name)
      BY <3>1 DEF Has, info_get_fld
    <3> QED
      BY <2>1, <2>3, <3>2 DEF RowInv
  <2> QED
    BY <2>4, <2>5
<1> QED
  BY <1>3, <1>4
-----------------------------------------------------------------------------
(* Query: the row is what the text says.                                    *)

(* In a text of closed and keyed lines each line is a field of its own.     *)
Sound == \A i \in 1 .. Len(text) : text[i].closed /\ text[i].name # NoKey /\ text[i].val # Empty

LEMMA SoundText ==
  ASSUME text \in Seq(TextLines), Sound
  PROVE  /\ EveryPieceKeyed
         /\ \A c \in 1 .. Len(text) : Opener(c) = c /\ Str(c, c) = <<text[c].val>>
<1>1. PICK l \in Nat : l = Len(text)
  OBVIOUS
<1>2. \A c \in 1 .. l : Opens(c, c)
  <2> TAKE c \in 1 .. l
  <2>1. c \in Nat /\ c .. c - 1 = {}
    OBVIOUS
  <2>2. \A j \in 1 .. c - 1 : j \in j .. c - 1 /\ j \in 1 .. l
    BY <2>1
  <2> QED
    BY <1>1, <2>1, <2>2 DEF Opens, Sound
<1>3. EveryPieceKeyed
  <2>1. \A c \in 1 .. l : c \in 1 .. c
    OBVIOUS
  <2> QED
    BY <1>1, <1>2, <2>1 DEF EveryPieceKeyed
<1>4. \A c \in 1 .. l : Opener(c) = c
  <2> TAKE c \in 1 .. l
  <2>1. c \in 1 .. c
    OBVIOUS
  <2> QED
    BY <1>1, <1>2, <2>1, OpenerIs
<1>5. \A c \in 1 .. l : Str(c, c) = <<text[c].val>>
  <2> TAKE c \in 1 .. l
  <2>1. Str(c, c) = [j \in 1 .. c - c + 1 |-> text[c + j - 1].val]
    BY <1>1 DEF Str, Sound
  <2>2. c - c + 1 = 1 /\ c + 1 - 1 = c
    OBVIOUS
  <2>3. [j \in 1 .. 1 |-> text[c + j - 1].val] = <<text[c].val>>
    <3>1. \A j \in 1 .. 1 : j = 1
      OBVIOUS
    <3>2. [j \in 1 .. 1 |-> text[c + j - 1].val] = [j \in 1 .. 1 |-> text[c].val]
      BY <2>2, <3>1
    <3> QED
      BY <3>2
  <2> QED
    BY <2>1, <2>2, <2>3
<1> QED
  BY <1>1, <1>3, <1>4, <1>5

LEMMA RowIsTheText ==
  ASSUME PartsInv, StageInv, RowInv
  PROVE  RowFromInfo
<1> SUFFICES ASSUME db = "written", Sound, NEW c \in TableColumns
             PROVE  \E k \in 1 .. Len(row), i \in 1 .. Len(text) :
                      /\ row[k] = [col |-> c[1], str |-> <<text[i].val>>]
                      /\ text[i].name = c[2] /\ \A j \in 1 .. i - 1 : text[j].name # c[2]
  BY DEF RowFromInfo, Sound
<1>1. text \in Seq(TextLines) /\ fld_list \in Seq(Fields) \cup {Garbage} /\ InfoInv
  BY DEF PartsInv, InfoInv, InfoTyped
<1>2. Len(row) = 8
  BY ColumnsAre DEF RowInv
<1>3. PICK k \in 1 .. 8 : column_map[k] = [fld |-> c[2], col |-> c[1]]
  BY ColumnsAre
<1>4. column_map[k].fld = c[2] /\ column_map[k].col = c[1] /\ c[2] \in FieldNames
  BY <1>3, ColumnsAre
<1>5. Has(c[2]) /\ row[k] = [col |-> c[1], str |-> info_get_fld(c[2]).str]
  BY <1>2, <1>4 DEF RowInv
<1>6. info \notin {"unset", "loading"}
  <2>1. row # <<>>
    BY <1>2
  <2> QED
    BY <2>1 DEF StageInv
<1>7. PICK l \in Nat : l = Len(text)
  BY <1>1
<1>8. EveryPieceKeyed /\ \A n \in 1 .. l : Opener(n) = n /\ Str(n, n) = <<text[n].val>>
  BY <1>1, <1>7, SoundText
<1>9. fld_list # Garbage
  BY <1>5 DEF Has
<1>10. ListOf(fld_list, l)
  BY <1>1, <1>6, <1>7, <1>8, <1>9, ListIsFaithful
<1>11. PICK x : /\ x = First(c[2]) /\ fld_list \in Seq(Fields) /\ x \in 1 .. Len(fld_list)
                /\ info_get_fld(c[2]) = fld_list[x] /\ fld_list[x].name = c[2]
                /\ \A j \in 1 .. x - 1 : fld_list[j].name # c[2]
  BY <1>1, <1>5, FieldFound
<1>12. PICK i \in Closers(l) : Cardinality(Closers(i)) = x
  BY <1>10, <1>11 DEF ListOf
<1>13. i \in 1 .. l
  BY DEF Closers
<1>14. fld_list[x].name = text[i].name /\ fld_list[x].str = <<text[i].val>>
  BY <1>8, <1>10, <1>12, <1>13 DEF ListOf
<1>15. ASSUME NEW j \in 1 .. i - 1, text[j].name = c[2] PROVE FALSE
  <2>1. j \in 1 .. l /\ j < i
    BY <1>13
  <2>2. j \in Closers(l)
    BY <1>4, <1>7, <1>8, <1>15, <2>1 DEF Closers, Sound
  <2>3. PICK y : y = Cardinality(Closers(j))
    OBVIOUS
  <2>4. y < x
    BY <1>12, <2>1, <2>2, <2>3, ClosersOrder
  <2>5. y \in 1 .. Cardinality(Closers(l))
    BY <2>2, <2>3, ClosersRank
  <2>6. fld_list[y].name = c[2]
    BY <1>8, <1>10, <1>15, <2>1, <2>2, <2>3 DEF ListOf
  <2>7. Cardinality(Closers(l)) \in Nat
    BY ClosersFinite
  <2>8. y \in 1 .. x - 1
    BY <1>11, <2>4, <2>5, <2>7
  <2> QED
    BY <1>11, <2>6, <2>8
<1> QED
  BY <1>2, <1>5, <1>7, <1>11, <1>13, <1>14, <1>15

(***************************************************************************)
(* A row that the database has taken holds in each of its columns what the  *)
(* first line of that name says, for any sound info text of any length.     *)
(***************************************************************************)
THEOREM RowIsTheInfo == Spec => []RowFromInfo
BY PartsStart, PartsKeep, StageStarts, StageKeeps, RowStarts, RowKeeps, RowIsTheText, PTL DEF Spec
-----------------------------------------------------------------------------
(* Query: what a crash can come from.                                       *)

NothingClosed == \A c \in 1 .. Len(session.text) : ~session.text[c].closed

(* What CrashExplained allows, but for a database that cannot be opened.    *)
Reason ==
  \/ session.program = "mpkg" /\ archive = NoWord
  \/ session.member # "fits"
  \/ {"long word", "long text"} \cap session.odd # {}
  \/ NothingClosed
  \/ /\ text = session.text
     /\ \/ ~EveryPieceKeyed
        \/ infoflag > 0 /\ Argv(infoflag) = NoWord
        \/ infoflag > 0 /\ \E k \in 1 .. Len(Asked) : Lacks(Asked[k])
        \/ iflag /\ \E c \in TableColumns \cup {<<"", "package">>} : Hollow(c[2])
        \/ iflag /\ {"long path", "wide number"} \cap session.odd # {}
        \/ session.program = "info_test" /\ Hollow("dependancies")
        \/ \E g \in 1 .. Len(dep_str) : \E a \in 1 .. Len(dep_str[g]) : dep_str[g][a] = Bad

LEMMA CrashIs ==
  ASSUME at = "crashed"
  PROVE  CrashExplained <=> Reason \/ (text = session.text /\ db = "failed")
BY DEF CrashExplained, Reason, NothingClosed

LEMMA SameReason ==
  ASSUME UNCHANGED <<session, text, fld_list, archive, iflag, infoflag, opts, plain, dep_str>>
  PROVE  Reason' <=> Reason
<1>1. EveryPieceKeyed' <=> EveryPieceKeyed
  BY SameText
<1>2. Argv(infoflag)' = Argv(infoflag)
  BY DEF Argv
<1>3. Asked' = Asked
  BY <1>2 DEF Asked
<1>4. \A name : Lacks(name)' <=> Lacks(name)
  BY DEF Lacks
<1>5. \A name : Hollow(name)' <=> Hollow(name)
  BY DEF Hollow, Lacks, First
<1>6. NothingClosed' <=> NothingClosed
  BY DEF NothingClosed
<1>7. (\E k \in 1 .. Len(Asked) : Lacks(Asked[k]))' <=> \E k \in 1 .. Len(Asked) : Lacks(Asked[k])
  BY <1>3, <1>4
<1>8. (\E c \in TableColumns \cup {<<"", "package">>} : Hollow(c[2]))' <=>
        \E c \in TableColumns \cup {<<"", "package">>} : Hollow(c[2])
  BY <1>5 DEF TableColumns
<1> QED
  BY <1>1, <1>2, <1>5, <1>6, <1>7, <1>8 DEF Reason

(* A field that the program takes for a pointer that leads somewhere.       *)
LEMMA CrashField ==
  ASSUME PartsInv, text = session.text, NEW name, MayCrash(name)
  PROVE  NothingClosed \/ Hollow(name)
<1>1. fld_list \in Seq(Fields) \cup {Garbage} /\ (fld_list = Garbage => ~Closed(1, Len(text)))
  BY DEF PartsInv, InfoInv, InfoTyped
<1>2. CASE fld_list = Garbage
  BY <1>1, <1>2 DEF Closed, NothingClosed
<1>3. CASE fld_list # Garbage /\ ~Has(name)
  BY <1>3 DEF Has, Hollow, Lacks
<1>4. CASE Has(name)
  BY <1>1, <1>4, FieldFound DEF MayCrash, Hollow
<1> QED
  BY <1>2, <1>3, <1>4

LEMMA CrashPrint ==
  ASSUME PartsInv, StageInv, PrintInv, at = "printing", PrintField, ~Has(Head(commands))
  PROVE  Reason
<1>1. text = session.text /\ infoflag > 0 /\ Argv(infoflag) # NoWord
  BY DEF StageInv
<1>2. commands \in Seq(Commands) /\ commands # <<>> /\ Head(commands) \in FieldNames
  BY DEF PartsInv, InfoInv, InfoTyped, PrintField
<1>3. CASE fld_list = Garbage
  <2>1. NothingClosed
    BY <1>1, <1>3 DEF PartsInv, InfoInv, Closed, NothingClosed
  <2> QED
    BY <2>1 DEF Reason
<1>4. CASE fld_list # Garbage
  <2>1. Asked \in Seq(FieldNames)
    BY <1>1, AskedType
  <2>2. PICK m \in Nat : PrintedTo(printed, m) /\ StillAsked(commands, m)
    BY DEF PrintInv
  <2>3. PICK n \in Nat : n = m + 1
    OBVIOUS
  <2>4. m \in 0 .. Len(Asked)
    BY <2>2 DEF PrintedTo
  <2>5. m < Len(Asked) /\ Asked[n] = Head(commands)
    BY <1>2, <2>1, <2>2, <2>3, <2>4, NextAsked
  <2>6. n \in 1 .. Len(Asked)
    BY <2>1, <2>3, <2>5
  <2>7. Lacks(Asked[n])
    BY <1>4, <2>5 DEF Has, Lacks
  <2> QED
    BY <1>1, <2>6, <2>7 DEF Reason
<1> QED
  BY <1>3, <1>4

LEMMA CrashDeps ==
  ASSUME PartsInv, [Next]_vars, deps' = "crashed", deps # "crashed"
  PROVE  \E g \in 1 .. Len(dep_str) : \E a \in 1 .. Len(dep_str[g]) : dep_str[g][a] = Bad
<1>1. dep_str' = dep_str
  BY DepsStepIs DEF depsVars, LoadDeps, DepsNext, Group, Alternative, DepsEnd, UnloadDeps
<1>2. \E p \in Places : Written(p) = Bad
  <2>1. DepsInv'
    BY DepsPartKeeps DEF PartsInv
  <2>2. \E p \in Places' : Written(p)' = Bad
    BY <2>1 DEF DepsInv
  <2> QED
    BY <1>1, <2>2, SameDepStr
<1> QED
  BY <1>2 DEF Places, Written

(* The process crashes where the part it is in says so.                     *)
LEMMA CrashStep ==
  ASSUME PartsInv, StageInv, BudgetInv, PrintInv, [Next]_vars, at # "crashed", at' = "crashed"
  PROVE  Reason' \/ (text' = session'.text /\ db' = "failed")
<1>1. session' = session
  BY DEF Next, vars, Overflow, Main, Path, Open, Grab, LoadStep, PrintStep, PrintLoop, Extract, Log, Copy,
       OpenDatabase, Column, Insert, Depends, DepsStep, WindUp, Same
<1>2. session.member # "fits" => Reason'
  BY <1>1 DEF Reason
<1>3. ASSUME Reason, UNCHANGED <<text, fld_list, dep_str>>, at # "main" PROVE Reason'
  <2>1. UNCHANGED <<archive, iflag, infoflag, opts, plain>>
    BY <1>3, ParseStepIs DEF parseVars
  <2> QED
    BY <1>1, <1>3, <2>1, SameReason
<1>4. CASE Main
  BY <1>4 DEF Main
<1>5. CASE Path
  <2>1. p_app_len' > Size
    BY <1>5 DEF Path
  <2>2. ASSUME session.member # "long" PROVE FALSE
    <3>1. Budget(at, due, p_app_len)' /\ p_app_len' \in Nat
      BY <1>1, <2>2, BudgetKeeps, ArenaPartKeeps DEF BudgetInv, PartsInv, ArenaInv, ArenaTyped
    <3>2. at' \in Stages
      BY PartsKeep DEF PartsInv, ProcessTyped
    <3>3. Budget(at', due', p_app_len')
      BY <3>1 DEF Budget
    <3>4. p_app_len' <= 2 * NameLength + 142
      BY <3>1, <3>2, <3>3, BudgetFits
    <3> QED
      BY <2>1, <3>1, <3>4, LengthAssumption, SizeAssumption
  <2> QED
    BY <1>2, <2>2
<1>6. CASE Open
  BY <1>6 DEF Open
<1>7. CASE Grab
  <2>1. session.member # "fits"
    BY <1>7 DEF Grab
  <2> QED
    BY <1>2, <2>1
<1>8. CASE LoadStep
  <2>1. at = "load" /\ deps' = deps /\ deps # "crashed" /\ info = "loading" /\ text = session.text
    BY <1>8 DEF LoadStep, SameDeps, depsVars, StageInv, Final
  <2>2. info' = "crashed"
    BY <1>8, <2>1 DEF LoadStep, Goto
  <2>3. LoadUnmatched
    BY <1>8, <2>1, <2>2 DEF LoadStep, LoadField, LoadEnds
  <2>4. text' = text /\ ~EveryPieceKeyed'
    BY <2>3, LoadUnmatchedKeeps DEF PartsInv, LoadUnmatched
  <2> QED
    BY <1>1, <2>1, <2>4 DEF Reason
<1>9. CASE PrintStep
  <2>1. /\ at = "print" /\ deps' = deps /\ deps # "crashed" /\ text = session.text /\ infoflag > 0
        /\ UNCHANGED <<text, fld_list, dep_str>>
    BY <1>9 DEF PrintStep, PrintNothing, PrintStart, SameDeps, depsVars, StageInv, Final
  <2>2. info' = "crashed"
    BY <1>9, <2>1 DEF PrintStep, Goto
  <2>3. Argv(infoflag) = NoWord
    BY <1>9, <2>2 DEF PrintStep, PrintStart
  <2>4. Reason
    BY <2>1, <2>3 DEF Reason
  <2> QED
    BY <1>3, <2>1, <2>4
<1>10. CASE PrintLoop
  <2>1. /\ at = "printing" /\ deps' = deps /\ deps # "crashed" /\ info = "printing"
        /\ UNCHANGED <<text, fld_list, dep_str>>
    BY <1>10 DEF PrintLoop, PrintAll, PrintField, PrintEnds, SameDeps, depsVars, StageInv, Final
  <2>2. info' = "crashed"
    BY <1>10, <2>1 DEF PrintLoop, Goto
  <2>3. PrintField /\ ~Has(Head(commands))
    BY <1>10, <2>1, <2>2 DEF PrintLoop, PrintAll, PrintField, PrintEnds
  <2> QED
    BY <1>3, <2>1, <2>3, CrashPrint
<1>11. CASE Extract
  BY <1>11 DEF Extract
<1>12. CASE Log
  <2>1. /\ at = "log" /\ iflag /\ text = session.text /\ MayCrash("package")
        /\ UNCHANGED <<text, fld_list, dep_str>>
    BY <1>12 DEF Log, SameInfo, SameDeps, infoVars, depsVars, StageInv
  <2>2. Reason
    <3>1. NothingClosed \/ Hollow("package")
      BY <2>1, CrashField
    <3>2. <<"", "package">> \in TableColumns \cup {<<"", "package">>} /\ <<"", "package">>[2] = "package"
      OBVIOUS
    <3> QED
      BY <2>1, <3>1, <3>2 DEF Reason
  <2> QED
    BY <1>3, <2>1, <2>2
<1>13. CASE OpenDatabase
  <2>1. at = "database" /\ db' = "failed" /\ text' = text /\ text = session.text
    BY <1>13 DEF OpenDatabase, SameInfo, infoVars, StageInv
  <2> QED
    BY <1>1, <2>1
<1>14. CASE Column
  <2>1. PICK column : /\ column = column_map[Len(row) + 1] /\ MayCrash(column.fld)
                      /\ <<column.col, column.fld>> \in TableColumns
    <3>1. Len(row) + 1 \in 1 .. 8
      BY <1>14, ColumnsAre, SMTT(60) DEF Column, PartsInv, ProcessTyped
    <3>2. MayCrash(column_map[Len(row) + 1].fld)
      BY <1>14 DEF Column
    <3> QED
      BY <3>1, <3>2, ColumnsAre
  <2>2. /\ at = "columns" /\ iflag /\ text = session.text
        /\ UNCHANGED <<text, fld_list, dep_str>>
    BY <1>14 DEF Column, SameInfo, SameDeps, infoVars, depsVars, StageInv
  <2>3. Reason
    <3>1. NothingClosed \/ Hollow(column.fld)
      BY <2>1, <2>2, CrashField
    <3>2. <<column.col, column.fld>>[2] = column.fld
      OBVIOUS
    <3> QED
      BY <2>1, <2>2, <3>1, <3>2 DEF Reason
  <2> QED
    BY <1>3, <2>2, <2>3
<1>15. CASE Insert
  <2>1. at = "columns" /\ db' = db /\ db # "open" /\ text' = text /\ text = session.text
    BY <1>15 DEF Insert, SameInfo, infoVars, StageInv
  <2>2. db = "failed"
    BY <2>1 DEF StageInv
  <2> QED
    BY <1>1, <2>1, <2>2
<1>16. CASE Depends
  <2>1. /\ at = "depends" /\ session.program = "info_test" /\ text = session.text /\ MayCrash("dependancies")
        /\ UNCHANGED <<text, fld_list, dep_str>>
    BY <1>16 DEF Depends, SameInfo, SameDeps, infoVars, depsVars, StageInv
  <2>2. Reason
    BY <2>1, CrashField DEF Reason
  <2> QED
    BY <1>3, <2>1, <2>2
<1>17. CASE DepsStep
  <2>1. /\ at = "deps" /\ info' = info /\ info # "crashed" /\ deps # "crashed" /\ text = session.text
        /\ UNCHANGED <<text, fld_list, dep_str>>
    BY <1>17 DEF DepsStep, DepsNext, Group, Alternative, DepsEnd, UnloadDeps, SameInfo, infoVars, StageInv, Final
  <2>2. deps' = "crashed"
    BY <1>17, <2>1 DEF DepsStep, Goto
  <2>3. Reason
    BY <2>1, <2>2, CrashDeps DEF Reason
  <2> QED
    BY <1>3, <2>1, <2>3
<1>18. CASE WindUp
  <2>1. /\ at = "unload" /\ deps' = deps /\ deps # "crashed" /\ info \in {"unset", "loaded"}
        /\ UNCHANGED <<text, fld_list, dep_str>>
    BY <1>18 DEF WindUp, Unload, SameDeps, depsVars, StageInv, Final
  <2>2. info' = "crashed"
    BY <1>18, <2>1 DEF WindUp, Goto
  <2>3. info = "unset" \/ (info = "loaded" /\ fld_list = Garbage)
    BY <1>18, <2>1, <2>2 DEF WindUp, Unload
  <2>4. Reason
    <3>1. CASE info = "unset"
      BY <2>1, <3>1 DEF StageInv, Reason
    <3>2. CASE info = "loaded" /\ fld_list = Garbage
      <4>1. text = session.text /\ ~Closed(1, Len(text))
        BY <3>2 DEF StageInv, PartsInv, InfoInv
      <4> QED
        BY <4>1 DEF Closed, NothingClosed, Reason
    <3> QED
      BY <2>3, <3>1, <3>2
  <2> QED
    BY <1>3, <2>1, <2>4
<1>19. CASE UNCHANGED vars
  BY <1>19 DEF vars
<1>20. CASE Copy
  BY <1>20 DEF Copy
<1>21. CASE Overflow
  <2>1. /\ session.odd' = session.odd /\ text' = text /\ iflag' = iflag
    BY <1>1, <1>21 DEF Overflow, SameInfo, SameParse, infoVars, parseVars
  <2>2. CASE {"long word", "long text"} \cap session.odd # {}
    BY <2>1, <2>2 DEF Reason
  <2>3. CASE at \in {"copying", "columns"} /\ {"long path", "wide number"} \cap session.odd # {}
    <3>1. text = session.text /\ iflag
      BY <2>3 DEF StageInv
    <3> QED
      BY <1>1, <2>1, <2>3, <3>1 DEF Reason
  <2> QED
    BY <1>21, <2>2, <2>3 DEF Overflow
<1> QED
  BY <1>4, <1>5, <1>6, <1>7, <1>8, <1>9, <1>10, <1>11, <1>12, <1>13, <1>14, <1>15, <1>16, <1>17, <1>18,
     <1>19, <1>20, <1>21 DEF Next

LEMMA CrashKeeps ==
  ASSUME PartsInv, StageInv, BudgetInv, PrintInv, CrashExplained, [Next]_vars
  PROVE  CrashExplained'
<1> SUFFICES ASSUME at' = "crashed" PROVE CrashExplained'
  BY DEF CrashExplained
<1>1. CASE at = "crashed"
  <2>1. UNCHANGED vars
    BY <1>1 DEF Next, Overflow, Main, Path, Open, Grab, LoadStep, PrintStep, PrintLoop, Extract, Log, Copy,
       OpenDatabase, Column, Insert, Depends, DepsStep, WindUp, Final
  <2>2. UNCHANGED <<session, text, fld_list, archive, iflag, infoflag, opts, plain, dep_str, db>>
    BY <2>1 DEF vars, parseVars, infoVars, depsVars
  <2>3. Reason \/ (text = session.text /\ db = "failed")
    BY <1>1, CrashIs
  <2>4. Reason' \/ (text' = session'.text /\ db' = "failed")
    BY <2>2, <2>3, SameReason
  <2> QED
    BY <2>4 DEF CrashExplained, Reason, NothingClosed
<1>2. CASE at # "crashed"
  <2>1. Reason' \/ (text' = session'.text /\ db' = "failed")
    BY <1>2, CrashStep
  <2> QED
    BY <2>1 DEF CrashExplained, Reason, NothingClosed
<1> QED
  BY <1>1, <1>2

(***************************************************************************)
(* Whatever it is given, a process that crashes had one of the reasons that *)
(* CrashExplained lists, so that with a sound archive, a full info member,  *)
(* names that it has and a database that opens mpkg does not crash.         *)
(***************************************************************************)
THEOREM CrashesAreExplained == Spec => []CrashExplained
<1>1. Init => CrashExplained
  BY DEF Init, CrashExplained
<1> QED
  BY <1>1, PartsStart, PartsKeep, StageStarts, StageKeeps, BudgetStarts, BudgetKeeps, PrintStarts,
     PrintedKeeps, CrashKeeps, PTL DEF Spec
=============================================================================
