---------------------------- MODULE ArchiveProofs ----------------------------
(***************************************************************************)
(* Proofs about Archive, for every archive, every size of buffer and every  *)
(* order of calls.                                                          *)
(*                                                                         *)
(* The table is right because the offset stands at the next header; a read  *)
(* is right because the bytes that are still to be asked for, the odd ones  *)
(* and the full buffers, tell where the offset stands.                      *)
(***************************************************************************)
EXTENDS Archive, SequenceTheorems, WellFoundedInduction, TLAPS

(* Before and during ar_headers(). *)
HeaderInv ==
  /\ pc \in {"closed", "null", "headers"} => AllRead /\ cur = 0
  /\ pc = "closed" => offset = 0 /\ table = <<>>
  /\ pc = "null" => table = <<>>
  /\ pc = "headers" => offset = ar.start[Len(table) + 1]

TableInv == TypeOK /\ HeaderInv /\ TableFaithful

(* Where the offset stands when "asked" bytes of a member have been read. *)
StandsAt(h, asked) ==
  IF h.offset + asked <= ar.length THEN h.offset + asked
  ELSE IF h.offset < ar.length THEN ar.length ELSE h.offset

Left == first + count * option

(* How many reads are left. *)
ReadsLeft == count + (IF first > 0 THEN 1 ELSE 0)

(***************************************************************************)
(* A member that is being read: what has been delivered, and how the reads  *)
(* that are left fit the bytes that are left.                               *)
(***************************************************************************)
Progress(chunks, h) ==
  /\ Flows(chunks, h)
  /\ Left <= h.size
  /\ offset = StandsAt(h, h.size - Left)
  /\ chunks = <<>> => offset = h.offset /\ count > 0
  /\ chunks # <<>> =>
       chunks[Len(chunks)].from + chunks[Len(chunks)].n = offset
  /\ first > 0 => count > 0
  /\ h.size <= MAX_READ_BUFF => first = 0 /\ Len(chunks) + count = 1
  /\ h.size > MAX_READ_BUFF => Len(chunks) + ReadsLeft >= 2

(* ar_grab(), and between the calls. *)
GrabInv ==
  /\ pc = "grab" => cur > 0 /\ Progress(calls, table[cur])
  /\ pc \notin {"grab", "extract"} => AllRead
  /\ \A i \in 1 .. Len(calls) : calls[i].n <= MAX_READ_BUFF

(* ar_extract_all(): a file is whole, or it is the one being written. *)
Writing(f) ==
  /\ pc = "extract" /\ ~AllRead /\ cur > 0
  /\ table[cur].name = f
  /\ Progress(dest[f].chunks, table[cur])

MemberOf(f, i) == table[i].name = f

ExtractInv ==
  /\ \A f \in Listed :
       /\ dest[f].state # "new" => dest[f].chunks = <<>>
       /\ dest[f].state = "new" =>
            \/ Writing(f)
            \/ /\ pc \notin {"closed", "headers", "null"}
               /\ \E i \in 1 .. Len(table) : MemberOf(f, i) /\ Whole(dest[f].chunks, table[i])
  /\ pc = "extract" /\ ~AllRead =>
       cur > 0 /\ (dest[table[cur].name].state = "new" => Writing(table[cur].name))

ReadInv == TableInv /\ GrabInv /\ ExtractInv

-----------------------------------------------------------------------------
LEMMA DivMod ==
  ASSUME NEW s \in Nat, NEW m \in Nat \ {0}
  PROVE  /\ s \div m \in Nat
         /\ s % m \in 0 .. m - 1
         /\ s = (s % m) + (s \div m) * m
<1> QED
  BY SMT

(* A size above the buffer takes at least two reads. *)
LEMMA TwoReads ==
  ASSUME NEW s \in Nat, NEW m \in Nat \ {0}, s > m
  PROVE  /\ s \div m > 0
         /\ s % m = 0 => s \div m >= 2
<1>1. PICK q \in Nat, r \in 0 .. m - 1 : q = s \div m /\ r = s % m /\ s = r + q * m
  BY DivMod
<1>2. q # 0
  <2>1. SUFFICES ASSUME q = 0 PROVE FALSE
    OBVIOUS
  <2>2. q * m = 0
    BY <2>1
  <2> QED
    BY <1>1, <2>2
<1>3. r = 0 => q # 1
  <2>1. SUFFICES ASSUME q = 1, r = 0 PROVE FALSE
    OBVIOUS
  <2>2. q * m = m
    BY <2>1
  <2> QED
    BY <1>1, <2>1, <2>2
<1> QED
  BY <1>1, <1>2, <1>3

(* What Plan() asks for is the member, to the byte. *)
LEMMA PlanFits ==
  ASSUME NEW size \in Nat, Plan(size)
  PROVE  /\ first' \in 0 .. MAX_READ_BUFF - 1
         /\ count' \in Nat \ {0}
         /\ option' \in 0 .. MAX_READ_BUFF
         /\ first' + count' * option' = size
         /\ size <= MAX_READ_BUFF => first' = 0 /\ count' = 1
         /\ size > MAX_READ_BUFF => count' + (IF first' > 0 THEN 1 ELSE 0) >= 2
<1>1. MAX_READ_BUFF \in Nat \ {0}
  BY BufferAssumption
<1>2. CASE size <= MAX_READ_BUFF
  BY <1>1, <1>2 DEF Plan
<1>3. CASE size > MAX_READ_BUFF
  <2>1. /\ first' = size % MAX_READ_BUFF
        /\ count' = size \div MAX_READ_BUFF
        /\ option' = MAX_READ_BUFF
    BY <1>1, <1>3 DEF Plan
  <2>2. /\ size \div MAX_READ_BUFF \in Nat
        /\ size % MAX_READ_BUFF \in 0 .. MAX_READ_BUFF - 1
        /\ size = (size % MAX_READ_BUFF) + (size \div MAX_READ_BUFF) * MAX_READ_BUFF
    BY <1>1, DivMod
  <2>3. /\ size \div MAX_READ_BUFF > 0
        /\ size % MAX_READ_BUFF = 0 => size \div MAX_READ_BUFF >= 2
    BY <1>1, <1>3, TwoReads
  <2> QED
    BY <1>1, <1>3, <2>1, <2>2, <2>3
<1> QED
  BY <1>1, <1>2, <1>3

(* read(2) moves the offset as far as the bytes asked for and the file go. *)
LEMMA ReadMoves ==
  ASSUME TypeOK, NEW h \in Header, NEW asked \in Nat, NEW k \in Nat,
         offset = StandsAt(h, asked)
  PROVE  /\ Delivered(k) \in 0 .. k
         /\ offset + Delivered(k) = StandsAt(h, asked + k)
<1>1. offset \in Nat /\ ar.length \in Nat /\ h.offset \in Nat
  BY DEF TypeOK, ArFile, Header
<1> QED
  BY <1>1 DEF StandsAt, Delivered

(* A chunk that begins where the last one ended. *)
LEMMA FlowsOn ==
  ASSUME NEW h \in Header, NEW chunks \in Seq(Chunk), NEW c \in Chunk,
         Flows(chunks, h),
         chunks = <<>> => c.from = h.offset,
         chunks # <<>> => c.from = chunks[Len(chunks)].from + chunks[Len(chunks)].n
  PROVE  Flows(Append(chunks, c), h)
<1> DEFINE more == Append(chunks, c)
<1>1. /\ Len(more) = Len(chunks) + 1
      /\ \A i \in 1 .. Len(chunks) : more[i] = chunks[i]
      /\ more[Len(chunks) + 1] = c
      /\ Len(chunks) \in Nat
      /\ chunks = <<>> <=> Len(chunks) = 0
  BY SMT
<1> HIDE DEF more
<1>2. more[1].from = h.offset
  BY <1>1 DEF Flows
<1>3. ASSUME NEW i \in 1 .. Len(more) - 1
      PROVE  more[i + 1].from = more[i].from + more[i].n
  <2>1. CASE i = Len(chunks)
    BY <1>1, <2>1
  <2>2. CASE i # Len(chunks)
    <3>1. i \in 1 .. Len(chunks) - 1 /\ i \in 1 .. Len(chunks) /\ i + 1 \in 1 .. Len(chunks)
      BY <1>1, <2>2
    <3>2. chunks[i + 1].from = chunks[i].from + chunks[i].n
      BY <3>1 DEF Flows
    <3> QED
      BY <1>1, <3>1, <3>2
  <2> QED
    BY <2>1, <2>2
<1>4. Flows(more, h)
  BY <1>2, <1>3 DEF Flows
<1> QED
  BY <1>4 DEF more

(* One read of the plan: the odd bytes, or a buffer. *)
OneRead(k) ==
  \/ first > 0 /\ k = first /\ first' = 0 /\ count' = count
  \/ first = 0 /\ count > 0 /\ k = option /\ first' = first /\ count' = count - 1

LEMMA LeftAfter ==
  ASSUME TypeOK, NEW k \in Nat, OneRead(k), option' = option
  PROVE  Left \in Nat /\ k <= Left /\ Left' = Left - k
<1>1. first \in Nat /\ count \in Nat /\ option \in Nat
  BY BufferAssumption DEF TypeOK
<1>2. count * option \in Nat
  BY <1>1
<1>3. CASE first > 0 /\ k = first /\ first' = 0 /\ count' = count
  BY <1>1, <1>2, <1>3 DEF Left
<1>4. CASE first = 0 /\ count > 0 /\ k = option /\ first' = first /\ count' = count - 1
  <2>1. PICK c \in Nat : count = c + 1
    BY <1>1, <1>4
  <2>2. count * option = c * option + option /\ c * option \in Nat
    BY <1>1, <2>1
  <2> QED
    BY <1>1, <1>4, <2>1, <2>2 DEF Left
<1> QED
  BY <1>3, <1>4 DEF OneRead

LEMMA ReadStep ==
  ASSUME TypeOK, NEW h \in Header, NEW chunks \in Seq(Chunk), NEW c \in Chunk, NEW k \in Nat,
         Progress(chunks, h), OneRead(k),
         c = [from |-> offset, n |-> Delivered(k)],
         offset' = offset + Delivered(k), option' = option, ar' = ar
  PROVE  /\ Progress(Append(chunks, c), h)'
         /\ c.n <= MAX_READ_BUFF
<1> DEFINE more == Append(chunks, c)
<1>1. /\ Len(more) = Len(chunks) + 1
      /\ more[Len(chunks) + 1] = c
      /\ more # <<>>
      /\ Len(chunks) \in Nat
  BY SMT
<1>2. Flows(more, h)
  BY FlowsOn DEF Progress
<1> HIDE DEF more
<1>3. /\ first \in 0 .. MAX_READ_BUFF - 1 /\ count \in Nat /\ option \in 0 .. MAX_READ_BUFF
      /\ MAX_READ_BUFF \in Nat /\ offset \in Nat /\ h.size \in Nat
  BY BufferAssumption DEF TypeOK, Header
<1>4. Left \in Nat /\ k <= Left /\ Left' = Left - k
  BY LeftAfter
<1>5. offset = StandsAt(h, h.size - Left) /\ Left <= h.size
  BY DEF Progress
<1>6. PICK asked \in Nat : asked = h.size - Left
  BY <1>3, <1>4, <1>5
<1>7. /\ Delivered(k) \in 0 .. k
      /\ offset + Delivered(k) = StandsAt(h, asked + k)
  BY <1>5, <1>6, ReadMoves
<1>8. k <= MAX_READ_BUFF
  BY <1>3 DEF OneRead
<1>9. c.n <= MAX_READ_BUFF
  BY <1>3, <1>7, <1>8
<1>10. offset' = StandsAt(h, h.size - Left)'
  <2>1. asked + k = h.size - Left'
    BY <1>3, <1>4, <1>6
  <2> QED
    BY <1>7, <2>1 DEF StandsAt
<1>11. (Left <= h.size)'
  BY <1>3, <1>4, <1>5
<1>12. more[Len(more)].from + more[Len(more)].n = offset'
  BY <1>1, <1>7
<1>13. /\ (first > 0 => count > 0)'
       /\ (h.size <= MAX_READ_BUFF => first = 0 /\ Len(more) + count = 1)'
       /\ (h.size > MAX_READ_BUFF => Len(more) + ReadsLeft >= 2)'
  BY <1>1, <1>3 DEF Progress, OneRead, ReadsLeft
<1>14. Progress(more, h)'
  BY <1>1, <1>2, <1>10, <1>11, <1>12, <1>13 DEF Progress, Flows
<1> QED
  BY <1>9, <1>14 DEF more

(***************************************************************************)
(* All is read: the member is whole, and in one chunk if it fits the        *)
(* buffer.  The second lemma says the same of the next state.               *)
(***************************************************************************)
LEMMA ReadEnds ==
  ASSUME TypeOK, NEW h \in Header, NEW chunks \in Seq(Chunk), Progress(chunks, h), AllRead
  PROVE  /\ Whole(chunks, h)
         /\ Len(chunks) = 1 <=> h.size <= MAX_READ_BUFF
<1>1. first = 0 /\ count = 0 /\ option \in Nat /\ MAX_READ_BUFF \in Nat
  BY BufferAssumption DEF AllRead, TypeOK
<1>2. Left = 0
  BY <1>1 DEF Left
<1>3. h.size \in Nat /\ Len(chunks) \in Nat /\ (chunks = <<>> <=> Len(chunks) = 0)
  BY DEF Header
<1>4. chunks # <<>>
  BY <1>1 DEF Progress
<1>5. offset = EndOf(h)
  BY <1>2, <1>3 DEF Progress, StandsAt, EndOf
<1> QED
  BY <1>1, <1>3, <1>4, <1>5 DEF Progress, Whole, ReadsLeft

LEMMA ReadEndsNext ==
  ASSUME TypeOK', NEW h \in Header, NEW chunks \in Seq(Chunk), Progress(chunks, h)', AllRead'
  PROVE  Whole(chunks, h)'
<1>1. first' = 0 /\ count' = 0 /\ option' \in Nat
  BY BufferAssumption DEF AllRead, TypeOK
<1>2. Left' = 0
  <2>1. PICK o \in Nat : o = option'
    BY <1>1
  <2>2. 0 + 0 * o = 0
    OBVIOUS
  <2>3. Left' = 0 + 0 * o
    BY ONLY <1>1, <2>1 DEF Left
  <2> QED
    BY ONLY <2>2, <2>3
<1>3. h.size \in Nat /\ Len(chunks) \in Nat /\ (chunks = <<>> <=> Len(chunks) = 0)
  BY DEF Header
<1>4. chunks # <<>>
  BY <1>1 DEF Progress
<1>5. offset' = EndOf(h)'
  BY <1>2, <1>3 DEF Progress, StandsAt, EndOf
<1> QED
  BY <1>3, <1>4, <1>5 DEF Progress, Whole, Flows

LEMMA ReadStarts ==
  ASSUME TypeOK, NEW h \in Header, Plan(h.size), offset' = h.offset, ar' = ar
  PROVE  /\ Progress(<<>>, h)'
         /\ (~AllRead)'
         /\ first' \in 0 .. MAX_READ_BUFF - 1 /\ count' \in Nat /\ option' \in 0 .. MAX_READ_BUFF
<1>1. h.size \in Nat /\ h.offset \in Nat /\ MAX_READ_BUFF \in Nat \ {0} /\ ar.length \in Nat
  BY BufferAssumption DEF Header, TypeOK, ArFile
<1>2. offset' = h.offset
  OBVIOUS
<1>3. /\ first' \in 0 .. MAX_READ_BUFF - 1
      /\ count' \in Nat \ {0}
      /\ option' \in 0 .. MAX_READ_BUFF
      /\ Left' = h.size
      /\ h.size <= MAX_READ_BUFF => first' = 0 /\ count' = 1
      /\ h.size > MAX_READ_BUFF => count' + (IF first' > 0 THEN 1 ELSE 0) >= 2
  BY <1>1, <1>2, PlanFits DEF Left
<1>4. (offset = StandsAt(h, h.size - Left))'
  <2>1. h.size - Left' = 0
    BY <1>1, <1>3
  <2>2. h.offset + 0 = h.offset
    BY <1>1
  <2>3. offset' = StandsAt(h, 0)'
    BY <1>1, <1>2, <2>2 DEF StandsAt
  <2> QED
    BY <2>1, <2>3
<1>5. PICK none : none = <<>> /\ Len(none) = 0
  BY EmptySeq
<1>6. Len(none) = 0
  BY <1>5
<1>7. Progress(none, h)'
  <2>1. Flows(none, h)
    BY <1>5 DEF Flows
  <2>2. (Left <= h.size)'
    BY <1>1, <1>3
  <2>3. PICK f \in Nat, c \in Nat, s \in Nat : f = first' /\ c = count' /\ s = h.size
    BY <1>1, <1>3
  <2>4. /\ s <= MAX_READ_BUFF => f = 0 /\ Len(none) + c = 1
        /\ s > MAX_READ_BUFF => Len(none) + (c + (IF f > 0 THEN 1 ELSE 0)) >= 2
    <3>1. /\ s <= MAX_READ_BUFF => f = 0 /\ c = 1
          /\ s > MAX_READ_BUFF => c + (IF f > 0 THEN 1 ELSE 0) >= 2
      BY <1>3, <2>3
    <3> QED
      BY ONLY <1>1, <1>6, <3>1, c \in Nat, f \in Nat, s \in Nat
  <2>5. (none = <<>> => offset = h.offset /\ count > 0)' /\ (first > 0 => count > 0)'
    BY <1>2, <1>3
  <2>6. (none # <<>> => none[Len(none)].from + none[Len(none)].n = offset)'
    BY <1>5
  <2> QED
    BY <1>4, <2>1, <2>2, <2>3, <2>4, <2>5, <2>6 DEF Progress, Flows, ReadsLeft
<1> QED
  BY <1>1, <1>2, <1>3, <1>5, <1>7 DEF AllRead

-----------------------------------------------------------------------------
(***************************************************************************)
(* The header table.                                                        *)
(***************************************************************************)
LEMMA ArFacts ==
  ASSUME TypeOK
  PROVE  /\ Len(ar.members) \in Nat
         /\ \A i \in 1 .. Len(ar.members) :
              ar.members[i].name \in Names /\ ar.members[i].size \in Nat
         /\ \A i \in 1 .. Len(ar.members) + 1 : ar.start[i] \in Nat
         /\ ar.start[1] = SARMAG /\ SARMAG \in Nat
         /\ ar.length \in Nat /\ ar.length <= ar.start[Len(ar.members) + 1]
         /\ ar.magic => SARMAG <= ar.length
         /\ AR_HEADER_SIZE \in Nat \ {0}
<1>1. ar.members \in Seq(Member)
  BY DEF TypeOK, ArFile
<1>2. \A i \in 1 .. Len(ar.members) : ar.members[i] \in Member
  BY <1>1, ElementOfSeq
<1>3. Len(ar.members) \in Nat
  BY <1>1, LenProperties
<1> QED
  BY <1>2, <1>3, LayoutAssumption DEF TypeOK, ArFile, Member

LEMMA EvenSum ==
  ASSUME NEW a \in Nat, NEW h \in Nat, NEW m \in Nat, a % 2 = 0, h % 2 = 0
  PROVE  (a + h + m) + ((a + h + m) % 2) = a + h + (m + (m % 2))
<1> QED
  BY SMT

(* A member begins at an even offset, and so does the one after its data. *)
LEMMA NextStart ==
  ASSUME TypeOK, NEW i \in 1 .. Len(ar.members)
  PROVE  ar.start[i + 1] = ar.start[i] + AR_HEADER_SIZE + PaddedTo(ar.members[i].size)
<1>1. PICK a \in Nat, m \in Nat, h \in Nat :
        /\ a = ar.start[i] /\ m = ar.members[i].size /\ h = AR_HEADER_SIZE
        /\ h % 2 = 0
  BY ArFacts, LayoutAssumption, SMTT(60)
<1>2. ar.start[i + 1] = EvenUp(a + h + m)
  BY <1>1 DEF TypeOK, ArFile
<1>3. a % 2 = 0
  <2>1. CASE i = 1
    BY <1>1, <2>1, ArFacts, LayoutAssumption
  <2>2. CASE i # 1
    <3>1. PICK j \in 1 .. Len(ar.members) : j + 1 = i
      <4>1. i - 1 \in 1 .. Len(ar.members) /\ (i - 1) + 1 = i
        BY <2>2, ArFacts
      <4> QED
        BY <4>1
    <3>2. PICK b \in Nat : a = EvenUp(b)
      <4>1. ar.start[j + 1] = EvenUp(ar.start[j] + AR_HEADER_SIZE + ar.members[j].size)
        BY DEF TypeOK, ArFile
      <4>2. ar.start[j] + AR_HEADER_SIZE + ar.members[j].size \in Nat
        <5>1. PICK x \in Nat, y \in Nat, z \in Nat :
                x = ar.start[j] /\ y = AR_HEADER_SIZE /\ z = ar.members[j].size
          <6>1. j \in 1 .. Len(ar.members) + 1
            BY ArFacts
          <6>2. ar.start[j] \in Nat /\ AR_HEADER_SIZE \in Nat /\ ar.members[j].size \in Nat
            BY <6>1, ArFacts
          <6> QED
            BY <6>2
        <5>2. x + y + z \in Nat
          OBVIOUS
        <5> QED
          BY <5>1, <5>2
      <4> QED
        BY <1>1, <3>1, <4>1, <4>2
    <3> QED
      BY <3>2 DEF EvenUp
  <2> QED
    BY <2>1, <2>2
<1>4. EvenUp(a + h + m) = a + h + (m + (m % 2))
  BY <1>1, <1>3, EvenSum, ZenonT(60) DEF EvenUp
<1> QED
  BY <1>1, <1>2, <1>4 DEF PaddedTo

(* The header at the offset is that of the member the table lacks next. *)
LEMMA HeaderIsNext ==
  ASSUME TableInv, pc = "headers", NEW kind, NEW i \in HeaderHere(kind)
  PROVE  i = Len(table) + 1 /\ i \in 1 .. Len(ar.members)
<1>1. i \in 1 .. Len(ar.members) /\ ar.start[i] = ar.start[Len(table) + 1]
  BY DEF HeaderHere, TableInv, HeaderInv
<1>2. Len(table) \in Nat /\ Len(table) <= Len(ar.members)
  BY DEF TableInv, TypeOK, TableFaithful
<1>3. PICK n \in 1 .. Len(ar.members) + 1 : n = Len(table) + 1
  BY <1>2, ArFacts DEF TableInv
<1>4. /\ \A j, k \in 1 .. Len(ar.members) + 1 : j < k => ar.start[j] < ar.start[k]
      /\ i \in 1 .. Len(ar.members) + 1
      /\ \A j \in 1 .. Len(ar.members) + 1 : ar.start[j] \in Nat
  <2>1. TypeOK
    BY DEF TableInv
  <2>2. \A j, k \in 1 .. Len(ar.members) + 1 : j < k => ar.start[j] < ar.start[k]
    BY <2>1 DEF TypeOK, ArFile
  <2> QED
    BY <1>1, <2>1, <2>2, ArFacts
<1>5. ~(i < n) /\ ~(n < i)
  BY <1>1, <1>3, <1>4
<1> QED
  BY <1>1, <1>3, <1>5

LEMMA InitTable == Init => TableInv
<1>1. ASSUME Init PROVE ArFile(ar)
  BY <1>1, ArchiveAssumption DEF Init
<1>2. ASSUME Init PROVE dest \in [Listed -> DestFile]
  <2>1. \A x \in {"none", "old"} : [state |-> x, chunks |-> <<>>] \in DestFile
    BY EmptySeq DEF DestFile
  <2> QED
    BY <1>2, <2>1 DEF Init
<1>3. ASSUME Init PROVE TypeOK
  <2>1. <<>> \in Seq(Header) /\ <<>> \in Seq(Chunk) /\ Len(<<>>) = 0
    BY EmptySeq
  <2> QED
    BY <1>1, <1>2, <1>3, <2>1, BufferAssumption DEF Init, TypeOK
<1>4. ASSUME Init PROVE HeaderInv
  BY <1>4 DEF Init, HeaderInv, AllRead
<1>5. ASSUME Init PROVE TableFaithful
  <2>1. table = <<>> /\ pc = "closed" /\ Len(ar.members) \in Nat
    BY <1>3, <1>5, ArFacts DEF Init
  <2>2. Len(table) = 0
    BY <2>1, EmptySeq
  <2> QED
    BY <2>1, <2>2 DEF TableFaithful
<1> QED
  BY <1>3, <1>4, <1>5 DEF TableInv

(* What read(2) delivers, as a chunk. *)
LEMMA ChunkType ==
  ASSUME TypeOK, NEW k \in Nat
  PROVE  /\ Delivered(k) \in 0 .. k
         /\ offset + Delivered(k) \in Nat
         /\ [from |-> offset, n |-> Delivered(k)] \in Chunk
<1>1. offset \in Nat /\ ar.length \in Nat
  BY ArFacts DEF TypeOK
<1>2. Delivered(k) \in 0 .. k
  BY <1>1 DEF Delivered
<1> QED
  BY <1>1, <1>2 DEF Chunk

(* The table is not touched and the place stays behind ar_headers(). *)
Later == {"ready", "grab", "extract", "done"}

LEMMA TableKept ==
  ASSUME TableInv, TypeOK', ar' = ar, table' = table,
         \/ pc' \in Later /\ pc \in Later
         \/ pc' = "crashed"
         \/ pc' = pc /\ pc \notin {"closed", "null", "headers"}
  PROVE  TableInv'
<1>1. TableFaithful'
  BY DEF TableInv, TableFaithful, Later
<1>2. HeaderInv'
  BY DEF HeaderInv, Later
<1> QED
  BY <1>1, <1>2 DEF TableInv

LEMMA OpenTable == ASSUME TableInv, Open PROVE TableInv'
<1> USE DEF TableInv
<1>1. Delivered(SARMAG) \in Nat /\ (ar.magic => Delivered(SARMAG) = SARMAG)
  BY ArFacts, ChunkType DEF Open, HeaderInv, Delivered
<1>2. table = <<>> /\ Len(table) = 0 /\ ar' = ar /\ table' = table
  BY EmptySeq DEF Open, HeaderInv
<1>3. Len(ar.members) \in Nat /\ ar.start[1] = SARMAG
  BY ArFacts
<1>4. TypeOK'
  BY <1>1, <1>2 DEF Open, TypeOK
<1>5. TableFaithful'
  BY <1>2, <1>3, ZenonT(60) DEF Open, TableFaithful
<1>6. HeaderInv'
  <2>1. ar.start[Len(table) + 1] = SARMAG
    BY <1>2, <1>3
  <2> QED
    BY <1>1, <1>2, <2>1 DEF Open, HeaderInv, AllRead
<1> QED
  BY <1>4, <1>5, <1>6

(* A header that is listed, under its name or another. *)
LEMMA EnterTable ==
  ASSUME TableInv, HeaderRead, NEW kind, NEW i \in HeaderHere(kind), NEW name \in Listed,
         IF kind = "good" THEN name = ar.members[i].name ELSE name \notin Names,
         Enter(name, ar.members[i].size)
  PROVE  TableInv'
<1> USE DEF TableInv
<1>1. /\ table' = Append(table, [name |-> name, size |-> ar.members[i].size,
                                 offset |-> offset + AR_HEADER_SIZE])
      /\ offset' = offset + AR_HEADER_SIZE + PaddedTo(ar.members[i].size)
  BY DEF Enter
<1>2. i = Len(table) + 1 /\ i \in 1 .. Len(ar.members) /\ offset = ar.start[i]
  BY HeaderIsNext DEF HeaderRead, HeaderInv
<1> DEFINE h == [name |-> name, size |-> ar.members[i].size,
                 offset |-> offset + AR_HEADER_SIZE]
<1>3. /\ offset \in Nat /\ AR_HEADER_SIZE \in Nat
      /\ ar.members[i].size \in Nat /\ ar.members[i].header = kind
      /\ Len(ar.members) \in Nat
  BY <1>2, ArFacts DEF TypeOK, HeaderHere
<1>4. /\ h \in Header
      /\ h.name = name /\ h.size = ar.members[i].size
      /\ h.offset = ar.start[i] + AR_HEADER_SIZE
  BY <1>2, <1>3 DEF Header
<1>5. table' = Append(table, h)
  BY <1>1
<1> HIDE DEF h
<1>6. /\ table \in Seq(Header) /\ table' \in Seq(Header)
      /\ Len(table') = i
      /\ \A j \in 1 .. Len(table) : table'[j] = table[j]
      /\ table'[i] = h
  BY <1>2, <1>4, <1>5 DEF TypeOK
<1>7. offset' = ar.start[i + 1] /\ offset' \in Nat
  <2>1. offset' = ar.start[i + 1]
    BY <1>1, <1>2, NextStart
  <2>2. i + 1 \in 1 .. Len(ar.members) + 1
    BY <1>2, <1>3
  <2> QED
    BY <2>1, <2>2, ArFacts
<1>8. pc = "headers" /\ pc' = pc /\ ar' = ar /\ cur = 0
      /\ UNCHANGED <<dest, cur, first, count, option, calls>>
  BY DEF HeaderRead, Enter, HeaderInv
<1>9. TypeOK'
  <2>1. cur' \in 0 .. Len(table')
    BY <1>2, <1>3, <1>6, <1>8
  <2> QED
    BY <1>6, <1>7, <1>8, <2>1 DEF TypeOK
<1>10. TableFaithful'
  <2>1. Len(table') <= Len(ar'.members)
    BY <1>2, <1>3, <1>6, <1>8
  <2>2. ASSUME NEW j \in 1 .. Len(table')
        PROVE  /\ ar'.members[j].header = "good" => table'[j].name = ar'.members[j].name
               /\ ar'.members[j].header # "good" => table'[j].name \notin Names
               /\ table'[j].size = ar'.members[j].size
               /\ table'[j].offset = ar'.start[j] + AR_HEADER_SIZE
    <3>1. CASE j = i
      BY <1>3, <1>4, <1>6, <1>8, <3>1
    <3>2. CASE j # i
      <4>1. j \in 1 .. Len(table)
        BY <1>2, <1>6, <3>2 DEF TypeOK
      <4> QED
        BY <1>6, <1>8, <4>1 DEF TableFaithful
    <3> QED
      BY <3>1, <3>2
  <2> QED
    BY <1>8, <2>1, <2>2 DEF TableFaithful
<1>11. HeaderInv'
  BY <1>6, <1>7, <1>8 DEF HeaderInv, AllRead
<1> QED
  BY <1>9, <1>10, <1>11

LEMMA NextHeaderTable == ASSUME TableInv, NextHeader PROVE TableInv'
<1>1. PICK i \in HeaderHere("good") : Enter(ar.members[i].name, ar.members[i].size)
  BY DEF NextHeader
<1>2. ar.members[i].name \in Listed
  BY ArFacts DEF TableInv, HeaderHere, Listed
<1> QED
  BY <1>1, <1>2, EnterTable DEF NextHeader

(* A whole header can be read, so it is not past the last member. *)
LEMMA HeaderDue ==
  ASSUME TableInv, HeaderRead
  PROVE  \E n \in 1 .. Len(ar.members) : n = Len(table) + 1 /\ offset = ar.start[n]
<1> USE DEF TableInv
<1>1. PICK n \in Nat : n = Len(table) + 1 /\ n <= Len(ar.members) + 1
  <2>1. Len(table) \in Nat
    BY LenProperties DEF TypeOK
  <2>2. Len(table) <= Len(ar.members) /\ Len(ar.members) \in Nat
    BY ArFacts DEF TableFaithful
  <2>3. Len(table) + 1 \in Nat /\ Len(table) + 1 <= Len(ar.members) + 1
    BY <2>1, <2>2
  <2> QED
    BY <2>3
<1>2. offset = ar.start[n] /\ pc = "headers"
  BY <1>1 DEF HeaderRead, HeaderInv
<1>3. n # Len(ar.members) + 1
  <2>1. offset + AR_HEADER_SIZE <= ar.length
    BY ArFacts, SMTT(60) DEF HeaderRead, Delivered, TypeOK
  <2>2. /\ ar.length <= ar.start[Len(ar.members) + 1]
        /\ ar.length \in Nat /\ AR_HEADER_SIZE \in Nat \ {0} /\ offset \in Nat
    BY ArFacts DEF TypeOK
  <2>3. offset # ar.start[Len(ar.members) + 1]
    <3>1. SUFFICES ASSUME offset = ar.start[Len(ar.members) + 1] PROVE FALSE
      OBVIOUS
    <3> QED
      BY <2>1, <2>2, <3>1
  <2> QED
    BY <1>2, <2>3
<1>4. n \in 1 .. Len(ar.members) /\ n >= 1
  BY <1>1, <1>3, ArFacts, SMTT(60) DEF TypeOK
<1> QED
  BY <1>1, <1>2, <1>4

LEMMA BadHeaderTable == ASSUME TableInv, BadHeader PROVE TableInv'
<1>1. CASE pc' \in {"exited", "crashed"} /\ UNCHANGED <<offset, table>>
  <2>1. PICK n \in 1 .. Len(ar.members) : n = Len(table) + 1 /\ offset = ar.start[n]
    BY HeaderDue DEF BadHeader
  <2>2. ar.members[n].header = "no slash"
    <3>1. ar.members[n].header \in {"good", "no slash", "negative"}
      <4>1. ar.members \in Seq(Member)
        BY DEF TableInv, TypeOK, ArFile
      <4>2. ar.members[n] \in Member
        BY <4>1, ElementOfSeq
      <4> QED
        BY <4>2 DEF Member
    <3>2. ar.members[n].header \notin {"good", "negative"}
      BY <2>1 DEF BadHeader, HeaderHere
    <3> QED
      BY <3>1, <3>2
  <2>3. TypeOK' /\ HeaderInv'
    BY <1>1 DEF BadHeader, HeaderRead, TableInv, TypeOK, HeaderInv
  <2>4. Len(table) < Len(ar.members)
    <3>1. Len(table) \in Nat /\ Len(ar.members) \in Nat
      BY ArFacts DEF TableInv, TypeOK
    <3> QED
      BY <2>1, <3>1
  <2>5. TableFaithful'
    BY <1>1, <2>1, <2>2, <2>4 DEF BadHeader, HeaderRead, TableInv, TableFaithful
  <2> QED
    BY <2>3, <2>5 DEF TableInv
<1>2. ASSUME NEW i \in HeaderHere("no slash"), NEW stray \in Strays, Enter(stray, ar.members[i].size)
      PROVE  TableInv'
  <2>1. stray \in Listed /\ stray \notin Names
    BY StrayAssumption DEF Listed
  <2> QED
    BY <1>2, <2>1, EnterTable DEF BadHeader
<1> QED
  BY <1>1, <1>2 DEF BadHeader

LEMMA GoBackTable == ASSUME TableInv, GoBack PROVE TableInv'
BY DEF GoBack, HeaderRead, TableInv, TypeOK, HeaderInv, TableFaithful

LEMMA EndOfHeadersTable == ASSUME TableInv, EndOfHeaders PROVE TableInv'
<1> USE DEF TableInv
<1>1. Delivered(AR_HEADER_SIZE) \in Nat /\ offset + Delivered(AR_HEADER_SIZE) \in Nat
  <2>1. AR_HEADER_SIZE \in Nat
    BY LayoutAssumption
  <2>2. /\ Delivered(AR_HEADER_SIZE) \in 0 .. AR_HEADER_SIZE
        /\ offset + Delivered(AR_HEADER_SIZE) \in Nat
    BY <2>1, ChunkType
  <2> QED
    BY <2>1, <2>2
<1>2. ar.start[Len(table) + 1] + AR_HEADER_SIZE > ar.length
  <2>1. offset \in Nat /\ ar.length \in Nat /\ AR_HEADER_SIZE \in Nat
    BY ArFacts DEF TypeOK
  <2>2. offset + AR_HEADER_SIZE > ar.length
    BY <2>1 DEF EndOfHeaders, Delivered
  <2> QED
    BY <2>2 DEF EndOfHeaders, HeaderInv
<1>3. TypeOK'
  BY <1>1 DEF EndOfHeaders, TypeOK
<1>4. TableFaithful'
  BY <1>2 DEF EndOfHeaders, TableFaithful
<1>5. HeaderInv'
  BY DEF EndOfHeaders, HeaderInv
<1> QED
  BY <1>3, <1>4, <1>5

-----------------------------------------------------------------------------
(***************************************************************************)
(* ar_search(): the first header of a name.                                 *)
(***************************************************************************)
LEMMA LeastOf ==
  ASSUME NEW T, T \subseteq Nat, T # {}
  PROVE  \E x \in T : \A y \in T : x <= y
<1>1. PICK x \in T : \A y \in T : ~(<<y, x>> \in OpToRel(<, Nat))
  BY WFMin, NatLessThanWellFounded
<1>2. \A y \in T : ~(y < x)
  BY <1>1 DEF OpToRel
<1> QED
  BY <1>2

LEMMA SearchFinds ==
  ASSUME NEW name, ar_search(name) # 0, Len(table) \in Nat
  PROVE  ar_search(name) \in 1 .. Len(table)
<1> DEFINE hits == {i \in 1 .. Len(table) : table[i].name = name}
<1>1. hits # {} /\ hits \subseteq Nat /\ hits \subseteq 1 .. Len(table)
  BY DEF ar_search
<1>2. \E x \in hits : \A y \in hits : x <= y
  BY <1>1, LeastOf
<1>3. ar_search(name) \in hits
  BY <1>1, <1>2 DEF ar_search
<1> QED
  BY <1>1, <1>3

-----------------------------------------------------------------------------
(***************************************************************************)
(* The steps of ar_grab() and ar_extract_all().                             *)
(***************************************************************************)
(* Before the table is read, nothing has been delivered. *)
LEMMA HeaderStep ==
  ASSUME ReadInv, TableInv', pc \in {"closed", "headers"},
         pc' \in {"null", "headers", "ready", "exited", "crashed", "strayed"},
         UNCHANGED <<dest, cur, first, count, calls>>
  PROVE  ReadInv'
<1>1. AllRead /\ \A f \in Listed : dest[f].state # "new"
  BY DEF ReadInv, TableInv, HeaderInv, ExtractInv, Writing
<1>2. GrabInv'
  BY <1>1 DEF ReadInv, GrabInv, AllRead
<1>3. ExtractInv'
  BY <1>1 DEF ReadInv, ExtractInv, AllRead
<1> QED
  BY <1>2, <1>3 DEF ReadInv

(* While no file is written, every one that was made is whole. *)
LEMMA WholeBetween ==
  ASSUME ReadInv, AllRead \/ pc # "extract", pc \in Later, NEW f \in Listed, dest[f].state = "new"
  PROVE  \E i \in 1 .. Len(table) : MemberOf(f, i) /\ Whole(dest[f].chunks, table[i])
BY DEF ReadInv, ExtractInv, Writing, Later

LEMMA WholeStays ==
  ASSUME ReadInv, AllRead \/ pc # "extract", pc \in Later, ar' = ar, table' = table,
         NEW f \in Listed, dest[f].state = "new", dest'[f] = dest[f]
  PROVE  (\E i \in 1 .. Len(table) : MemberOf(f, i) /\ Whole(dest[f].chunks, table[i]))'
<1>1. PICK i \in 1 .. Len(table) : MemberOf(f, i) /\ Whole(dest[f].chunks, table[i])
  BY WholeBetween
<1>2. Whole(dest[f].chunks, table[i])'
  BY <1>1 DEF Whole, Flows, EndOf
<1>3. MemberOf(f, i)' /\ i \in 1 .. Len(table')
  BY <1>1 DEF MemberOf
<1> QED
  BY <1>2, <1>3

LEMMA QuietStep ==
  ASSUME ReadInv, TypeOK', AllRead, pc \in Later,
         UNCHANGED <<ar, dest, table, first, count, option, calls>>,
         \/ pc' \in {"ready", "done", "crashed"}
         \/ pc' = "extract" /\ cur' = 0
         \/ pc = "extract" /\ pc' = "extract" /\ cur' = cur + 1
  PROVE  ReadInv'
<1>1. TableInv'
  BY TableKept DEF ReadInv, Later
<1>2. GrabInv'
  BY DEF ReadInv, GrabInv, AllRead
<1>3. ASSUME NEW f \in Listed
      PROVE  /\ dest'[f].state # "new" => dest'[f].chunks = <<>>
             /\ dest'[f].state = "new" =>
                  /\ pc' \notin {"closed", "headers", "null"}
                  /\ (\E i \in 1 .. Len(table) : MemberOf(f, i) /\ Whole(dest[f].chunks, table[i]))'
  BY WholeStays DEF ReadInv, ExtractInv
<1>5. ExtractInv'
  BY <1>3 DEF ExtractInv, AllRead
<1> QED
  BY <1>1, <1>2, <1>5 DEF ReadInv

LEMMA PlaceType ==
  ASSUME TypeOK, cur > 0
  PROVE  cur \in 1 .. Len(table) /\ table[cur] \in Header /\ table[cur].name \in Listed
<1>1. cur \in 1 .. Len(table) /\ table \in Seq(Header)
  BY DEF TypeOK
<1>2. table[cur] \in Header
  BY <1>1, ElementOfSeq
<1> QED
  BY <1>1, <1>2 DEF Header

(* A read that is given to extern_func. *)
LEMMA GrabReads ==
  ASSUME ReadInv, NEW k \in Nat, OneRead(k), Deliver(k), pc = "grab",
         UNCHANGED <<ar, pc, table, cur, option>>
  PROVE  ReadInv'
<1>0. TypeOK
  BY DEF ReadInv, TableInv
<1>1. cur > 0 /\ Progress(calls, table[cur])
  BY DEF ReadInv, GrabInv
<1>2. PICK h \in Header : h = table[cur]
  BY <1>0, <1>1, PlaceType
<1>3. PICK done \in Seq(Chunk) : done = calls
  BY <1>0 DEF TypeOK
<1>4. PICK c \in Chunk : c = [from |-> offset, n |-> Delivered(k)]
  BY <1>0, ChunkType
<1>5. /\ offset' = offset + Delivered(k) /\ offset' \in Nat
      /\ calls' = Append(done, c)
      /\ UNCHANGED dest
  BY <1>0, <1>3, <1>4, ChunkType DEF Deliver
<1>6. Progress(Append(done, c), h)' /\ c.n <= MAX_READ_BUFF
  BY <1>0, <1>1, <1>2, <1>3, <1>4, <1>5, ReadStep
<1>7. first' \in 0 .. MAX_READ_BUFF - 1 /\ count' \in Nat
  BY <1>0, BufferAssumption DEF OneRead, TypeOK
<1>8. TypeOK'
  BY <1>0, <1>3, <1>5, <1>7 DEF TypeOK
<1>9. TableInv'
  BY <1>8, TableKept DEF ReadInv, Later
<1>10. GrabInv'
  <2>1. ASSUME NEW i \in 1 .. Len(calls')
        PROVE  calls'[i].n <= MAX_READ_BUFF
    <3>1. /\ Len(calls') = Len(done) + 1
          /\ calls'[Len(done) + 1] = c
          /\ \A j \in 1 .. Len(done) : calls'[j] = done[j]
          /\ Len(done) \in Nat
      BY <1>5
    <3>2. CASE i = Len(done) + 1
      BY <1>6, <3>1, <3>2
    <3>3. CASE i # Len(done) + 1
      <4>1. i \in 1 .. Len(done)
        BY <3>1, <3>3
      <4> QED
        BY <1>3, <3>1, <4>1 DEF ReadInv, GrabInv
    <3> QED
      BY <3>2, <3>3
  <2> QED
    BY <1>1, <1>2, <1>5, <1>6, <2>1 DEF GrabInv
<1>11. ExtractInv'
  <2>1. ASSUME NEW f \in Listed, dest'[f].state = "new"
        PROVE  (\E i \in 1 .. Len(table) : MemberOf(f, i) /\ Whole(dest[f].chunks, table[i]))'
    BY <1>5, <2>1, WholeStays DEF Later
  <2> QED
    BY <1>5, <2>1 DEF ReadInv, ExtractInv
<1> QED
  BY <1>9, <1>10, <1>11 DEF ReadInv

(* A read that is written to the file of the member. *)
LEMMA ExtractReads ==
  ASSUME ReadInv, NEW k \in Nat, OneRead(k), Deliver(k), pc = "extract",
         UNCHANGED <<ar, pc, table, cur, option>>
  PROVE  ReadInv'
<1>0. TypeOK
  BY DEF ReadInv, TableInv
<1>1. ~AllRead
  BY <1>0, BufferAssumption DEF OneRead, AllRead, TypeOK
<1>2. cur > 0 /\ (dest[table[cur].name].state = "new" => Writing(table[cur].name))
  BY <1>1 DEF ReadInv, ExtractInv
<1>3. PICK h \in Header : h = table[cur]
  BY <1>0, <1>2, PlaceType
<1>4. PICK f \in Listed : f = h.name
  BY DEF Header
<1>5. dest \in [Listed -> DestFile]
  BY <1>0 DEF TypeOK
<1>6. PICK done \in Seq(Chunk) : done = dest[f].chunks
  BY <1>5 DEF DestFile
<1>7. PICK c \in Chunk : c = [from |-> offset, n |-> Delivered(k)]
  BY <1>0, ChunkType
<1>8. /\ offset' = offset + Delivered(k) /\ offset' \in Nat
      /\ Write(f, c)
      /\ UNCHANGED calls
  BY <1>0, <1>3, <1>4, <1>7, ChunkType DEF Deliver
<1>9. Append(done, c) \in Seq(Chunk) /\ <<>> \in Seq(Chunk)
  OBVIOUS
<1>10. /\ dest' \in [Listed -> DestFile]
       /\ \A g \in Listed : g # f => dest'[g] = dest[g]
       /\ \/ dest[f].state = "new" /\ dest'[f].state = "new" /\ dest'[f].chunks = Append(done, c)
          \/ dest'[f].state = "torn" /\ dest'[f].chunks = <<>>
  <2>1. CASE dest[f].state = "new" /\ dest' = [dest EXCEPT ![f].chunks = Append(@, c)]
    BY <1>5, <1>6, <1>9, <2>1 DEF DestFile
  <2>2. CASE dest' = [dest EXCEPT ![f] = [state |-> "torn", chunks |-> <<>>]]
    BY <1>5, <1>9, <2>2 DEF DestFile
  <2> QED
    BY <1>8, <2>1, <2>2 DEF Write
<1>11. dest[f].state = "new" => Progress(Append(done, c), h)'
  <2>1. dest[f].state = "new" => Progress(done, h)
    BY <1>2, <1>3, <1>4, <1>6 DEF Writing
  <2> QED
    BY <1>0, <1>7, <1>8, <2>1, ReadStep
<1>12. first' \in 0 .. MAX_READ_BUFF - 1 /\ count' \in Nat
  BY <1>0, BufferAssumption DEF OneRead, TypeOK
<1>13. TypeOK'
  BY <1>0, <1>8, <1>10, <1>12 DEF TypeOK
<1>14. TableInv'
  BY <1>13, TableKept DEF ReadInv, Later
<1>15. GrabInv'
  BY <1>8 DEF ReadInv, GrabInv
<1>16. dest'[f].state = "new" /\ ~AllRead' => Writing(f)'
  BY <1>2, <1>3, <1>4, <1>10, <1>11 DEF Writing
<1>17. dest'[f].state = "new" /\ AllRead' =>
         (\E i \in 1 .. Len(table) : MemberOf(f, i) /\ Whole(dest[f].chunks, table[i]))'
  <2>1. cur \in 1 .. Len(table)
    BY <1>0, <1>2, PlaceType
  <2>2. dest'[f].state = "new" /\ AllRead' => Whole(Append(done, c), h)'
    BY <1>9, <1>10, <1>11, <1>13, ReadEndsNext
  <2>3. MemberOf(f, cur)'
    BY <1>3, <1>4 DEF MemberOf
  <2> QED
    BY <1>3, <1>10, <2>1, <2>2, <2>3
<1>18. ASSUME NEW g \in Listed, g # f, dest'[g].state = "new"
       PROVE  (\E i \in 1 .. Len(table) : MemberOf(g, i) /\ Whole(dest[g].chunks, table[i]))'
  <2>1. ~Writing(g)
    BY <1>3, <1>4, <1>18 DEF Writing
  <2>2. PICK i \in 1 .. Len(table) : MemberOf(g, i) /\ Whole(dest[g].chunks, table[i])
    BY <1>10, <1>18, <2>1 DEF ReadInv, ExtractInv
  <2>3. dest'[g] = dest[g]
    BY <1>10, <1>18
  <2>4. Whole(dest[g].chunks, table[i])'
    BY <2>2, <2>3 DEF Whole, Flows, EndOf
  <2>5. MemberOf(g, i)' /\ i \in 1 .. Len(table')
    BY <2>2 DEF MemberOf
  <2> QED
    BY <2>4, <2>5
<1>19. ExtractInv'
  <2>1. ASSUME NEW g \in Listed, dest'[g].state # "new"
        PROVE  dest'[g].chunks = <<>>
    BY <1>10, <2>1 DEF ReadInv, ExtractInv
  <2> QED
    BY <1>2, <1>3, <1>4, <1>16, <1>17, <1>18, <2>1 DEF ExtractInv
<1> QED
  BY <1>14, <1>15, <1>19 DEF ReadInv

LEMMA ReadOddStep == ASSUME ReadInv, ReadOdd PROVE ReadInv'
<1>1. OneRead(first) /\ first \in Nat
  BY DEF ReadOdd, OneRead, ReadInv, TableInv, TypeOK
<1>2. Deliver(first) /\ UNCHANGED <<ar, pc, table, cur, option>>
  BY DEF ReadOdd
<1>3. pc = "grab" \/ pc = "extract"
  BY <1>2 DEF Deliver
<1> QED
  BY <1>1, <1>2, <1>3, GrabReads, ExtractReads

LEMMA ReadFullStep == ASSUME ReadInv, ReadFull PROVE ReadInv'
<1>1. OneRead(option) /\ option \in Nat
  BY BufferAssumption DEF ReadFull, OneRead, ReadInv, TableInv, TypeOK
<1>2. Deliver(option) /\ UNCHANGED <<ar, pc, table, cur, option>>
  BY DEF ReadFull
<1>3. pc = "grab" \/ pc = "extract"
  BY <1>2 DEF Deliver
<1> QED
  BY <1>1, <1>2, <1>3, GrabReads, ExtractReads

(* What SeekTo() leaves is the beginning of a read. *)
LEMMA SeekStarts ==
  ASSUME TypeOK, NEW i \in 1 .. Len(table), SeekTo(i), ar' = ar, table' = table
  PROVE  /\ cur' = i /\ offset' \in Nat
         /\ Progress(<<>>, table[i])'
         /\ (~AllRead)'
         /\ first' \in 0 .. MAX_READ_BUFF - 1 /\ count' \in Nat /\ option' \in 0 .. MAX_READ_BUFF
<1>1. table[i] \in Header
  BY ElementOfSeq DEF TypeOK
<1>2. PICK h \in Header : h = table[i]
  BY <1>1
<1>3. cur' = i /\ offset' = h.offset /\ Plan(h.size)
  BY <1>2 DEF SeekTo
<1>4. /\ Progress(<<>>, h)'
      /\ (~AllRead)'
      /\ first' \in 0 .. MAX_READ_BUFF - 1 /\ count' \in Nat /\ option' \in 0 .. MAX_READ_BUFF
  BY <1>3, ReadStarts
<1>5. h.offset \in Nat
  BY DEF Header
<1> QED
  BY <1>2, <1>3, <1>4, <1>5

LEMMA GrabStep ==
  ASSUME ReadInv, NEW name \in Names, Grab(name)
  PROVE  ReadInv'
<1>0. TypeOK /\ Len(table) \in Nat
  BY DEF ReadInv, TableInv, TypeOK
<1>1. /\ pc = "ready" /\ pc' = "grab" /\ calls' = <<>>
      /\ UNCHANGED <<ar, dest, table>>
      /\ ar_search(name) # 0
  BY DEF Grab
<1>2. PICK i \in 1 .. Len(table) : i = ar_search(name)
  BY <1>0, <1>1, SearchFinds
<1>3. SeekTo(i)
  BY <1>2 DEF Grab
<1>4. /\ cur' = i /\ offset' \in Nat
      /\ Progress(<<>>, table[i])'
      /\ first' \in 0 .. MAX_READ_BUFF - 1 /\ count' \in Nat /\ option' \in 0 .. MAX_READ_BUFF
  BY <1>0, <1>1, <1>3, SeekStarts
<1>5. TypeOK'
  <2>1. <<>> \in Seq(Chunk)
    BY EmptySeq
  <2>2. cur' \in 0 .. Len(table')
    BY <1>0, <1>1, <1>2, <1>4
  <2> QED
    BY <1>0, <1>1, <1>4, <2>1, <2>2 DEF TypeOK
<1>6. TableInv'
  BY <1>1, <1>5, TableKept DEF ReadInv, Later
<1>7. GrabInv'
  <2>1. \A j \in 1 .. Len(calls') : calls'[j].n <= MAX_READ_BUFF
    BY <1>1, EmptySeq
  <2>2. cur' > 0 /\ Progress(calls, table[cur])'
    BY <1>1, <1>2, <1>4
  <2> QED
    BY <1>1, <2>1, <2>2 DEF GrabInv
<1>8. ExtractInv'
  <2>1. ASSUME NEW f \in Listed, dest'[f].state = "new"
        PROVE  (\E j \in 1 .. Len(table) : MemberOf(f, j) /\ Whole(dest[f].chunks, table[j]))'
    BY <1>1, <2>1, WholeStays DEF Later
  <2> QED
    BY <1>1, <2>1 DEF ReadInv, ExtractInv
<1> QED
  BY <1>6, <1>7, <1>8 DEF ReadInv

LEMMA ExtractFileStep == ASSUME ReadInv, ExtractFile PROVE ReadInv'
<1>0. TypeOK /\ Len(table) \in Nat /\ cur \in Nat
  BY DEF ReadInv, TableInv, TypeOK
<1>1. /\ pc = "extract" /\ pc' = "extract" /\ AllRead
      /\ UNCHANGED <<ar, table, calls>>
      /\ cur < Len(table)
      /\ dest[table[cur + 1].name].state = "none"
      /\ SeekTo(cur + 1)
  BY DEF ExtractFile
<1>2. PICK i \in 1 .. Len(table) : i = cur + 1
  BY <1>0, <1>1
<1>3. PICK f \in Listed : f = table[i].name
  <2>1. table[i] \in Header
    BY <1>0, ElementOfSeq DEF TypeOK
  <2> QED
    BY <2>1 DEF Header
<1>4. dest \in [Listed -> DestFile]
  BY <1>0 DEF TypeOK
<1>5. /\ dest' \in [Listed -> DestFile]
      /\ dest'[f].state = "new" /\ dest'[f].chunks = dest[f].chunks
      /\ \A g \in Listed : g # f => dest'[g] = dest[g]
  BY <1>2, <1>3, <1>4 DEF ExtractFile, DestFile
<1>6. dest[f].state = "none" /\ dest[f].chunks = <<>>
  BY <1>1, <1>2, <1>3 DEF ReadInv, ExtractInv
<1>7. /\ cur' = i /\ offset' \in Nat
      /\ Progress(<<>>, table[i])'
      /\ (~AllRead)'
      /\ first' \in 0 .. MAX_READ_BUFF - 1 /\ count' \in Nat /\ option' \in 0 .. MAX_READ_BUFF
  BY <1>0, <1>1, <1>2, SeekStarts
<1>8. TypeOK'
  <2>1. cur' \in 0 .. Len(table')
    BY <1>0, <1>1, <1>2, <1>7
  <2> QED
    BY <1>0, <1>1, <1>5, <1>7, <2>1 DEF TypeOK
<1>9. TableInv'
  BY <1>1, <1>8, TableKept DEF ReadInv, Later
<1>10. GrabInv'
  BY <1>1 DEF ReadInv, GrabInv
<1>12. Writing(f)'
  <2>1. Progress(dest[f].chunks, table[cur])'
    BY <1>5, <1>6, <1>7
  <2> QED
    BY <1>1, <1>2, <1>3, <1>7, <2>1 DEF Writing
<1>13. ASSUME NEW g \in Listed, g # f, dest'[g].state = "new"
       PROVE  (\E j \in 1 .. Len(table) : MemberOf(g, j) /\ Whole(dest[g].chunks, table[j]))'
  BY <1>1, <1>5, <1>13, WholeStays DEF Later
<1>14. ExtractInv'
  <2>1. ASSUME NEW g \in Listed, dest'[g].state # "new"
        PROVE  dest'[g].chunks = <<>>
    BY <1>5, <2>1 DEF ReadInv, ExtractInv
  <2>3. pc' = "extract" /\ cur' > 0 /\ table'[cur'].name = f
    BY <1>1, <1>2, <1>3, <1>7
  <2> QED
    BY <1>5, <1>7, <1>12, <1>13, <2>1, <2>3 DEF ExtractInv
<1> QED
  BY <1>9, <1>10, <1>14 DEF ReadInv

-----------------------------------------------------------------------------
LEMMA InitRead == Init => ReadInv
<1> SUFFICES ASSUME Init PROVE ReadInv
  OBVIOUS
<1>1. TableInv
  BY InitTable
<1>2. GrabInv
  BY EmptySeq DEF Init, GrabInv, AllRead
<1>3. ExtractInv
  <2>1. ASSUME NEW f \in Listed
        PROVE  dest[f].state # "new" /\ dest[f].chunks = <<>>
    BY DEF Init
  <2> QED
    BY <2>1 DEF Init, ExtractInv
<1> QED
  BY <1>1, <1>2, <1>3 DEF ReadInv

(* The actions that only move from one call to another. *)
LEMMA QuietSteps ==
  ASSUME ReadInv,
         \/ GrabReturns \/ ExtractAll \/ ExtractRefused \/ ExtractReturns \/ Close
         \/ \E name \in Names : GrabMissing(name)
  PROVE  ReadInv'
<1>0. TypeOK /\ Len(table) \in Nat /\ cur \in Nat
  BY DEF ReadInv, TableInv, TypeOK
<1>1. ASSUME \/ GrabReturns \/ ExtractReturns \/ Close
             \/ \E name \in Names : GrabMissing(name)
      PROVE  ReadInv'
  <2>1. /\ pc \in Later /\ AllRead
        /\ pc' \in {"ready", "done", "crashed"}
        /\ UNCHANGED <<ar, dest, offset, table, cur, first, count, option, calls>>
    BY <1>1 DEF ReadInv, GrabInv, GrabReturns, ExtractReturns, Close, GrabMissing, Later
  <2>2. TypeOK'
    BY <1>0, <2>1 DEF TypeOK
  <2> QED
    BY <2>1, <2>2, QuietStep
<1>2. CASE ExtractAll
  <2>1. /\ pc \in Later /\ AllRead /\ pc' = "extract" /\ cur' = 0
        /\ UNCHANGED <<ar, dest, offset, table, first, count, option, calls>>
    BY <1>2 DEF ReadInv, GrabInv, ExtractAll, Later
  <2>2. TypeOK'
    BY <1>0, <2>1 DEF TypeOK
  <2> QED
    BY <2>1, <2>2, QuietStep
<1>3. CASE ExtractRefused
  <2>1. /\ pc = "extract" /\ pc' = pc /\ AllRead /\ cur' = cur + 1
        /\ cur < Len(table)
        /\ UNCHANGED <<ar, dest, table, first, count, option, calls>>
        /\ offset' = table[cur + 1].offset
    BY <1>3 DEF ExtractRefused
  <2>2. offset' \in Nat /\ cur' \in 0 .. Len(table)
    <3>1. cur + 1 \in 1 .. Len(table) /\ table \in Seq(Header)
      BY <1>0, <2>1 DEF TypeOK
    <3>2. table[cur + 1] \in Header
      BY <3>1, ElementOfSeq
    <3> QED
      BY <2>1, <3>1, <3>2 DEF Header
  <2>3. TypeOK'
    BY <1>0, <2>1, <2>2 DEF TypeOK
  <2> QED
    BY <2>1, <2>3, QuietStep DEF Later
<1> QED
  BY <1>1, <1>2, <1>3

LEMMA HeaderSteps ==
  ASSUME ReadInv, Open \/ NextHeader \/ BadHeader \/ GoBack \/ EndOfHeaders
  PROVE  ReadInv'
<1>1. TableInv'
  BY OpenTable, NextHeaderTable, BadHeaderTable, GoBackTable, EndOfHeadersTable DEF ReadInv
<1>2. /\ pc \in {"closed", "headers"}
      /\ pc' \in {"null", "headers", "ready", "exited", "crashed", "strayed"}
      /\ UNCHANGED <<dest, cur, first, count, calls>>
  BY DEF Open, NextHeader, BadHeader, GoBack, EndOfHeaders, HeaderRead, Enter
<1> QED
  BY <1>1, <1>2, HeaderStep

LEMMA StutterStep == ASSUME ReadInv, UNCHANGED vars PROVE ReadInv'
<1>1. TableInv'
  BY DEF ReadInv, TableInv, TypeOK, HeaderInv, TableFaithful, AllRead, vars
<1>2. GrabInv'
  BY DEF ReadInv, GrabInv, AllRead, Progress, Flows, StandsAt, Left, ReadsLeft, vars
<1>3. ExtractInv'
  <2>1. UNCHANGED <<ar, dest, pc, offset, table, cur, first, count, option>>
    BY DEF vars
  <2>2. ASSUME NEW f PROVE Writing(f)' <=> Writing(f)
    <3>1. UNCHANGED <<Left, ReadsLeft>>
      BY <2>1 DEF Left, ReadsLeft
    <3>2. Flows(dest[f].chunks, table[cur])' <=> Flows(dest[f].chunks, table[cur])
      BY <2>1, Zenon DEF Flows
    <3>3. StandsAt(table[cur], table[cur].size - Left)'
          = StandsAt(table[cur], table[cur].size - Left)
      BY <2>1, <3>1 DEF StandsAt
    <3>4. Progress(dest[f].chunks, table[cur])' <=> Progress(dest[f].chunks, table[cur])
      BY <2>1, <3>1, <3>2, <3>3, Zenon DEF Progress
    <3> QED
      BY <2>1, <3>4, Zenon DEF Writing, AllRead
  <2>3. ASSUME NEW f, NEW i
        PROVE  Whole(dest[f].chunks, table[i])' <=> Whole(dest[f].chunks, table[i])
    <3>1. Flows(dest[f].chunks, table[i])' <=> Flows(dest[f].chunks, table[i])
      BY <2>1, Zenon DEF Flows
    <3>2. UNCHANGED EndOf(table[i])
      BY <2>1 DEF EndOf
    <3> QED
      BY <2>1, <3>1, <3>2, Zenon DEF Whole
  <2>4. ExtractInv
    BY DEF ReadInv
  <2> QED
    BY <2>1, <2>2, <2>3, <2>4, Zenon DEF ExtractInv, MemberOf, AllRead
<1> QED
  BY <1>1, <1>2, <1>3 DEF ReadInv

LEMMA NextRead == ReadInv /\ [Next]_vars => ReadInv'
<1> SUFFICES ASSUME ReadInv, [Next]_vars PROVE ReadInv'
  OBVIOUS
<1>1. CASE Open \/ NextHeader \/ BadHeader \/ GoBack \/ EndOfHeaders
  BY <1>1, HeaderSteps
<1>2. CASE ReadOdd
  BY <1>2, ReadOddStep
<1>3. CASE ReadFull
  BY <1>3, ReadFullStep
<1>4. CASE ExtractFile
  BY <1>4, ExtractFileStep
<1>5. ASSUME NEW name \in Names, Grab(name) PROVE ReadInv'
  BY <1>5, GrabStep
<1>6. CASE \/ GrabReturns \/ ExtractAll \/ ExtractRefused \/ ExtractReturns \/ Close
           \/ \E name \in Names : GrabMissing(name)
  BY <1>6, QuietSteps
<1>7. CASE UNCHANGED vars
  BY <1>7, StutterStep
<1> QED
  BY <1>1, <1>2, <1>3, <1>4, <1>5, <1>6, <1>7 DEF Next, Work, Ask

(* The inductive invariant holds of every behaviour. *)
THEOREM ReadInvariant == Spec => []ReadInv
BY InitRead, NextRead, PTL DEF Spec

(* The table and the reads of ar.c keep their types. *)
THEOREM ArchiveTypes == Spec => []TypeOK
<1>1. ReadInv => TypeOK
  BY DEF ReadInv, TableInv
<1> QED
  BY <1>1, ReadInvariant, PTL

(***************************************************************************)
(* ar_headers() lists the members as they stand in the archive, whatever    *)
(* their number and the parity of their sizes, and stops only at the end.   *)
(***************************************************************************)
THEOREM TableIsFaithful == Spec => []TableFaithful
<1>1. ReadInv => TableFaithful
  BY DEF ReadInv, TableInv
<1> QED
  BY <1>1, ReadInvariant, PTL

LEMMA GrabEnds ==
  ASSUME ReadInv, pc = "grab", AllRead
  PROVE  /\ Whole(calls, table[cur])
         /\ Len(calls) = 1 <=> table[cur].size <= MAX_READ_BUFF
<1>1. cur > 0 /\ Progress(calls, table[cur]) /\ TypeOK
  BY DEF ReadInv, GrabInv, TableInv
<1>2. table[cur] \in Header /\ calls \in Seq(Chunk)
  BY <1>1, PlaceType DEF TypeOK
<1> QED
  BY <1>1, <1>2, ReadEnds

(***************************************************************************)
(* ar_grab() hands over the whole member, for every size of member and of   *)
(* buffer, and whatever was read from the descriptor before.                *)
(***************************************************************************)
THEOREM GrabsWhole == Spec => []GrabWhole
<1>1. ReadInv => GrabWhole
  BY GrabEnds DEF GrabWhole
<1> QED
  BY <1>1, ReadInvariant, PTL

(***************************************************************************)
(* No call of extern_func exceeds the buffer, and a member that fits it     *)
(* comes in one call, for every size of member and of buffer.               *)
(***************************************************************************)
THEOREM CallsAlwaysFit == Spec => []CallsFit
<1>1. ReadInv => CallsFit
  <2> SUFFICES ASSUME ReadInv PROVE CallsFit
    OBVIOUS
  <2>1. \A i \in 1 .. Len(calls) : calls[i].n <= MAX_READ_BUFF
    BY DEF ReadInv, GrabInv
  <2> QED
    BY <2>1, GrabEnds DEF CallsFit
<1> QED
  BY <1>1, ReadInvariant, PTL

(***************************************************************************)
(* A file that ar_extract_all() has made, and on which no write failed, is  *)
(* the whole of a member of its name, for every archive, every leftover of  *)
(* the destination and whichever calls of open(2) and write(2) fail.        *)
(***************************************************************************)
THEOREM ExtractsWhole == Spec => []ExtractWhole
<1>1. ReadInv => ExtractWhole
  BY DEF ReadInv, ExtractInv, Writing, MemberOf, ExtractWhole
<1> QED
  BY <1>1, ReadInvariant, PTL
=============================================================================
