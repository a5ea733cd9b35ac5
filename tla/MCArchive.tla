----------------------------- MODULE MCArchive -----------------------------
(* Instances of Archive: small archives, whole, cut off or with a bad header. *)
EXTENDS Archive

CONSTANTS meta, load    \* two member names
CONSTANT stray          \* and a garbage one
CONSTANT MaxSize        \* Bound: the largest member

Sizes == 0 .. MaxSize

(* The layout ar(1) gives the members: where each header stands. *)
Layout(members) ==
  LET at[i \in 1 .. Len(members) + 1] ==
        IF i = 1 THEN SARMAG
        ELSE EvenUp(at[i - 1] + AR_HEADER_SIZE + members[i - 1].size)
  IN  at

(* Up to two members; "cut" bytes are missing at the end. *)
SmallMembers ==
  [name : Names, size : Sizes, header : {"good", "no slash"}]
    \cup [name : Names, size : {0}, header : {"negative"}]
MemberLists == UNION {[1 .. k -> SmallMembers] : k \in 0 .. 2}

CutArchives ==
  {[magic |-> g, members |-> m, start |-> Layout(m), length |-> l] :
     g \in {TRUE}, m \in MemberLists, l \in SARMAG .. SARMAG + 2 * (AR_HEADER_SIZE + MaxSize + 1)}

SmallArchives ==
  {a \in CutArchives : ArFile(a)}
    \cup {[magic |-> FALSE, members |-> <<>>, start |-> <<SARMAG>>, length |-> 1]}

(* Whole archives of three members, two of them perhaps with one name. *)
WholeArchives ==
  {[magic |-> TRUE, members |-> m, start |-> Layout(m), length |-> Layout(m)[4]] :
     m \in [1 .. 3 -> [name : Names, size : Sizes, header : {"good"}]]}

MCArchives  == SmallArchives \cup WholeArchives
MCLeftovers == {{}, {load}}
=============================================================================
