------------------------------- MODULE Archive -------------------------------
(***************************************************************************)
(* ar_object of ar.c: the header table of an ar(5) archive and the reading   *)
(* of its members through one file descriptor, whose offset the table, every *)
(* ar_grab() and every ar_extract() share.                                   *)
(*                                                                           *)
(* One step is one iteration of a loop of ar.c.  What a read(2) delivers is  *)
(* known by the place it comes from: a chunk is an offset and a length.      *)
(***************************************************************************)
EXTENDS Integers, Sequences

CONSTANTS
  SARMAG,          \* length of the magic string
  AR_HEADER_SIZE,  \* length of a member's header
  MAX_READ_BUFF,   \* the most that is read at once
  Names,           \* file names
  Strays,          \* names that are what the stack holds
  Archives,        \* the archives there may be
  Leftovers        \* the sets of names the destination may hold at the start

(* ar(1) starts a member's header at an even offset and pads odd members. *)
ASSUME LayoutAssumption ==
  /\ SARMAG \in Nat /\ AR_HEADER_SIZE \in Nat \ {0}
  /\ SARMAG % 2 = 0 /\ AR_HEADER_SIZE % 2 = 0

ASSUME BufferAssumption == MAX_READ_BUFF \in Nat \ {0}

Listed == Names \cup Strays

Member == [name : Names, size : Nat, header : {"good", "no slash", "negative"}]
Header == [name : Listed, size : Nat, offset : Nat]
Chunk  == [from : Nat, n : Nat]

(***************************************************************************)
(* An archive: whether it begins with the magic string, its members, where  *)
(* the header of each stands (start has one place more: where the next one  *)
(* would), and its length, which a cut off download makes too short.  Of the*)
(* headers that are wrong there are two kinds: the name has no '/'; the size*)
(* is below zero ("size" is then that of the data).                         *)
(***************************************************************************)
EvenUp(k) == k + (k % 2)

ArFile(a) ==
  /\ a.magic \in BOOLEAN
  /\ a.members \in Seq(Member)
  /\ a.start \in [1 .. Len(a.members) + 1 -> Nat]
  /\ a.start[1] = SARMAG
  /\ \A i \in 1 .. Len(a.members) :
       a.start[i + 1] = EvenUp(a.start[i] + AR_HEADER_SIZE + a.members[i].size)
  /\ \A i, j \in 1 .. Len(a.members) + 1 : i < j => a.start[i] < a.start[j]
  /\ a.length \in Nat
  /\ a.length <= a.start[Len(a.members) + 1]
  /\ a.magic => SARMAG <= a.length

ASSUME StrayAssumption == Strays \cap Names = {}

ASSUME ArchiveAssumption ==
  /\ \A a \in Archives : ArFile(a)
  /\ Leftovers \subseteq SUBSET Listed

VARIABLES
  ar,       \* the archive
  dest,     \* what the destination directory holds under each name
  pc,       \* what runs: closed, headers, ready, grab, extract, done;
            \* null: ar_open() returned NULL; exited: exit(3); crashed;
            \* strayed: the offset has gone back to where no header is due
  offset,   \* the offset of ar_fd
  table,    \* ar_hdr_table
  cur,      \* place in the table of the member that is read
  first,    \* bytes of the odd chunk that is to be read first
  count,    \* reads of the loop that are left
  option,   \* bytes each of them asks for
  calls     \* the chunks extern_func has been given

vars == <<ar, dest, pc, offset, table, cur, first, count, option, calls>>

(* A file of the destination: none, an old one, one made of chunks, or one  *)
(* that a write(2) has failed on.                                           *)
DestFile == [state : {"none", "old", "new", "torn"}, chunks : Seq(Chunk)]

TypeOK ==
  /\ ArFile(ar)
  /\ dest \in [Listed -> DestFile]
  /\ pc \in {"closed", "headers", "ready", "grab", "extract", "done",
            "null", "exited", "crashed", "strayed"}
  /\ offset \in Nat
  /\ table \in Seq(Header)
  /\ cur \in 0 .. Len(table)
  /\ first \in 0 .. MAX_READ_BUFF - 1
  /\ count \in Nat
  /\ option \in 0 .. MAX_READ_BUFF
  /\ calls \in Seq(Chunk)

Init ==
  /\ ar \in Archives
  /\ \E old \in Leftovers :
       dest = [f \in Listed |-> [state |-> IF f \in old THEN "old" ELSE "none",
                               chunks |-> <<>>]]
  /\ pc = "closed"
  /\ offset = 0
  /\ table = <<>>
  /\ cur = 0
  /\ first = 0 /\ count = 0 /\ option = 0
  /\ calls = <<>>

(* What read(2) delivers of the k bytes it is asked for. *)
Delivered(k) ==
  IF offset + k <= ar.length THEN k
  ELSE IF offset < ar.length THEN ar.length - offset ELSE 0

-----------------------------------------------------------------------------
(***************************************************************************)
(* ar_open(): ar_test(), then the loop of ar_headers().                     *)
(***************************************************************************)
Open ==
  /\ pc = "closed"
  /\ IF ar.magic THEN pc' = "headers" ELSE pc' = "null"
  /\ offset' = Delivered(SARMAG)
  /\ UNCHANGED <<ar, dest, table, cur, first, count, option, calls>>

(* Mutant: the padding of an odd member is forgotten. *)
UnpaddedTo(size) == size
(* The lseek() past a member's data. *)
PaddedTo(size) == size + (size % 2)

(* The member whose header, of that kind, stands at the offset. *)
HeaderHere(kind) ==
  {i \in 1 .. Len(ar.members) : ar.start[i] = offset /\ ar.members[i].header = kind}

HeaderRead ==
  /\ pc = "headers"
  /\ Delivered(AR_HEADER_SIZE) = AR_HEADER_SIZE
  /\ UNCHANGED <<ar, dest, cur, first, count, option, calls>>

Enter(name, size) ==
  LET data == offset + AR_HEADER_SIZE
  IN  /\ table' = Append(table, [name |-> name, size |-> size, offset |-> data])
      /\ offset' = data + PaddedTo(size)
      /\ UNCHANGED pc

NextHeader ==
  /\ HeaderRead
  /\ \E i \in HeaderHere("good") : Enter(ar.members[i].name, ar.members[i].size)

(***************************************************************************)
(* ar_new_header() exits where no '/' ends the name; but its search runs on *)
(* past the 16 bytes of the name.  It may crash, or find a '/' there: then  *)
(* the member is listed under what stands before it.                        *)
(***************************************************************************)
BadHeader ==
  /\ HeaderRead
  /\ HeaderHere("good") \cup HeaderHere("negative") = {}
  /\ \/ pc' \in {"exited", "crashed"} /\ UNCHANGED <<offset, table>>
     \/ \E i \in HeaderHere("no slash"), stray \in Strays : Enter(stray, ar.members[i].size)

(***************************************************************************)
(* A negative size sends the offset back, with -AR_HEADER_SIZE to the same  *)
(* header for ever.  What is read and listed from there on is not modelled. *)
(***************************************************************************)
GoBack ==
  /\ HeaderRead
  /\ HeaderHere("negative") # {}
  /\ pc' = "strayed" /\ UNCHANGED <<offset, table>>

(***************************************************************************)
(* Too short for a header.  The table of an archive with no member is an    *)
(* uninitialized pointer: NULL by chance, or what its first use crashes on. *)
(***************************************************************************)
EndOfHeaders ==
  /\ pc = "headers"
  /\ Delivered(AR_HEADER_SIZE) < AR_HEADER_SIZE
  /\ \/ pc' = "ready"
     \/ table = <<>> /\ pc' = "crashed"
  /\ offset' = offset + Delivered(AR_HEADER_SIZE)
  /\ UNCHANGED <<ar, dest, table, cur, first, count, option, calls>>

-----------------------------------------------------------------------------
(***************************************************************************)
(* The two readers, ar_grab() and ar_extract(), plan and read alike: the    *)
(* odd bytes first, then whole buffers.                                     *)
(***************************************************************************)
ar_search(name) ==
  LET hits == {i \in 1 .. Len(table) : table[i].name = name}
  IN  IF hits = {} THEN 0 ELSE CHOOSE i \in hits : \A j \in hits : i <= j

(* Mutants: one read for any size; the odd bytes are forgotten. *)
PlanAtOnce(size) ==
  /\ first' = 0 /\ count' = 1 /\ option' = size
PlanEven(size) ==
  /\ first' = 0
  /\ count' = IF size <= MAX_READ_BUFF THEN 1 ELSE size \div MAX_READ_BUFF
  /\ option' = IF size <= MAX_READ_BUFF THEN size ELSE MAX_READ_BUFF

Plan(size) ==
  \/ /\ size <= MAX_READ_BUFF
     /\ first' = 0 /\ count' = 1 /\ option' = size
  \/ /\ size > MAX_READ_BUFF
     /\ first' = size % MAX_READ_BUFF
     /\ count' = size \div MAX_READ_BUFF
     /\ option' = MAX_READ_BUFF

(* Mutant: no lseek(2), the read goes on from where the last one ended. *)
GoOnWith(i) ==
  /\ cur' = i
  /\ UNCHANGED offset
  /\ Plan(table[i].size)
SeekTo(i) ==
  /\ cur' = i
  /\ offset' = table[i].offset
  /\ Plan(table[i].size)

(* write(2), whose failure or shortness nobody sees. *)
Write(name, chunk) ==
  \/ /\ dest[name].state = "new"
     /\ dest' = [dest EXCEPT ![name].chunks = Append(@, chunk)]
  \/ dest' = [dest EXCEPT ![name] = [state |-> "torn", chunks |-> <<>>]]

(* The callback of ar_grab() or the write(2) of ar_extract() takes a chunk. *)
Deliver(k) ==
  LET chunk == [from |-> offset, n |-> Delivered(k)]
  IN  /\ offset' = offset + Delivered(k)
      /\ \/ /\ pc = "grab"
            /\ calls' = Append(calls, chunk)
            /\ UNCHANGED dest
         \/ /\ pc = "extract"
            /\ Write(table[cur].name, chunk)
            /\ UNCHANGED calls

ReadOdd ==
  /\ first > 0
  /\ Deliver(first)
  /\ first' = 0
  /\ UNCHANGED <<ar, pc, table, cur, count, option>>

ReadFull ==
  /\ first = 0 /\ count > 0
  /\ Deliver(option)
  /\ count' = count - 1
  /\ UNCHANGED <<ar, pc, table, cur, first, option>>

AllRead == first = 0 /\ count = 0

-----------------------------------------------------------------------------
Grab(name) ==
  /\ pc = "ready"
  /\ ar_search(name) # 0
  /\ SeekTo(ar_search(name))
  /\ pc' = "grab"
  /\ calls' = <<>>
  /\ UNCHANGED <<ar, dest, table>>

(* lseek(fd, ar_hdr->offset, ...) comes before the test for NULL. *)
GrabMissing(name) ==
  /\ pc = "ready"
  /\ ar_search(name) = 0
  /\ pc' = "crashed"
  /\ UNCHANGED <<ar, dest, offset, table, cur, first, count, option, calls>>

GrabReturns ==
  /\ pc = "grab" /\ AllRead
  /\ pc' = "ready"
  /\ UNCHANGED <<ar, dest, offset, table, cur, first, count, option, calls>>

(* ar_extract_all(): the result of ar_extract() is not looked at. *)
ExtractAll ==
  /\ pc = "ready"
  /\ pc' = "extract"
  /\ cur' = 0
  /\ UNCHANGED <<ar, dest, offset, table, first, count, option, calls>>

ExtractFile ==
  /\ pc = "extract" /\ AllRead /\ cur < Len(table)
  /\ dest[table[cur + 1].name].state = "none"
  /\ dest' = [dest EXCEPT ![table[cur + 1].name].state = "new"]
  /\ SeekTo(cur + 1)
  /\ UNCHANGED <<ar, pc, table, calls>>

(* Mutant: the walk of the table stays where a file cannot be made. *)
ExtractStays ==
  /\ pc = "extract" /\ AllRead /\ cur < Len(table)
  /\ dest[table[cur + 1].name].state # "none"
  /\ UNCHANGED vars

(* open(2) with O_EXCL fails on a name that is there, and may fail on any. *)
ExtractRefused ==
  /\ pc = "extract" /\ AllRead /\ cur < Len(table)
  /\ cur' = cur + 1
  /\ offset' = table[cur + 1].offset
  /\ UNCHANGED <<ar, dest, pc, table, first, count, option, calls>>

ExtractReturns ==
  /\ pc = "extract" /\ AllRead /\ cur = Len(table)
  /\ pc' = "ready"
  /\ UNCHANGED <<ar, dest, offset, table, cur, first, count, option, calls>>

Close ==
  /\ pc = "ready"
  /\ pc' = "done"
  /\ UNCHANGED <<ar, dest, offset, table, cur, first, count, option, calls>>

(* What ar.c does by itself, and what its caller asks for. *)
Work ==
  \/ NextHeader \/ BadHeader \/ GoBack \/ EndOfHeaders
  \/ ReadOdd \/ ReadFull \/ GrabReturns
  \/ ExtractFile \/ ExtractRefused \/ ExtractReturns

Ask ==
  \/ Open \/ ExtractAll \/ Close
  \/ \E name \in Names : Grab(name) \/ GrabMissing(name)

Next == Work \/ Ask

Spec     == Init /\ [][Next]_vars
(* The loops run in one thread; the caller need not call. *)
FairSpec == Spec /\ WF_vars(Work)

-----------------------------------------------------------------------------
(***************************************************************************)
(* Properties.                                                              *)
(***************************************************************************)

(***************************************************************************)
(* The table lists the members in their order, each with the place of its   *)
(* data, whatever the parity of the sizes, and its name if it has one;      *)
(* ar_headers() stops only where no whole header is left, and exits only at *)
(* a header without a name.                                                 *)
(***************************************************************************)
TableFaithful ==
  /\ Len(table) <= Len(ar.members)
  /\ \A i \in 1 .. Len(table) :
       /\ ar.members[i].header = "good" => table[i].name = ar.members[i].name
       /\ ar.members[i].header # "good" => table[i].name \notin Names
       /\ table[i].size = ar.members[i].size
       /\ table[i].offset = ar.start[i] + AR_HEADER_SIZE
  /\ pc \in {"ready", "grab", "extract", "done"} /\ Len(table) < Len(ar.members)
       => ar.start[Len(table) + 1] + AR_HEADER_SIZE > ar.length
  /\ pc = "exited" =>
       Len(table) < Len(ar.members) /\ ar.members[Len(table) + 1].header = "no slash"

(* Where the data of a listed member ends, which may be cut off. *)
EndOf(h) ==
  IF h.offset + h.size <= ar.length THEN h.offset + h.size
  ELSE IF h.offset < ar.length THEN ar.length ELSE h.offset

(* The chunks are the member's data from its first byte on, without a gap. *)
Flows(chunks, h) ==
  /\ Len(chunks) > 0 => chunks[1].from = h.offset
  /\ \A i \in 1 .. Len(chunks) - 1 : chunks[i + 1].from = chunks[i].from + chunks[i].n
Whole(chunks, h) ==
  /\ Len(chunks) > 0
  /\ Flows(chunks, h)
  /\ chunks[Len(chunks)].from + chunks[Len(chunks)].n = EndOf(h)

(***************************************************************************)
(* When ar_grab() returns, extern_func has been given the whole member, in  *)
(* order and nothing else, whatever was read from the descriptor before.    *)
(***************************************************************************)
GrabWhole == pc = "grab" /\ AllRead => Whole(calls, table[cur])

(***************************************************************************)
(* No call of extern_func exceeds the buffer, and a member that fits it     *)
(* arrives in one call, an empty one too: _get_info() exits on a second.    *)
(***************************************************************************)
CallsFit ==
  /\ \A i \in 1 .. Len(calls) : calls[i].n <= MAX_READ_BUFF
  /\ pc = "grab" /\ AllRead => (Len(calls) = 1 <=> table[cur].size <= MAX_READ_BUFF)

(***************************************************************************)
(* Between the files of ar_extract_all(), and when it has returned, a file  *)
(* it has made is the whole of a member of that name and nothing else, if no*)
(* write failed on it: however the reads of the table and of other members  *)
(* went, and whichever files could not be made.                             *)
(***************************************************************************)
ExtractWhole ==
  AllRead => \A f \in Listed :
    dest[f].state = "new" =>
      \E i \in 1 .. Len(table) : table[i].name = f /\ Whole(dest[f].chunks, table[i])

(***************************************************************************)
(* Every call of ar.c returns, exits or crashes, if no size is negative: no *)
(* loop runs for ever.                                                      *)
(***************************************************************************)
Working == pc \in {"headers", "strayed", "grab", "extract"}
Finishes ==
  Working /\ (\A i \in 1 .. Len(ar.members) : ar.members[i].header # "negative") ~> ~Working
=============================================================================
