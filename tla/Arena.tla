------------------------------- MODULE Arena -------------------------------
(***************************************************************************)
(* path_append() of utils.c: every path it makes is written behind the one  *)
(* before in p_app, which is never cleared.                                 *)
(***************************************************************************)
EXTENDS Integers, Sequences

CONSTANT Size    \* sizeof(p_app): 65536

VARIABLES
  p_app_len,   \* where the next path begins
  paths,       \* history: the bytes of each path handed out
  due          \* the paths still to make, each as the length of its two parts

arenaVars == <<p_app_len, paths, due>>

ASSUME SizeAssumption == Size \in Nat

ArenaInit == p_app_len = 0 /\ paths = <<>> /\ due = <<>>

ArenaTyped ==
  /\ p_app_len \in Nat /\ due \in Seq(Nat)
  /\ paths \in Seq([first : Nat, last : Nat])

(* Mutant: no room for the null character. *)
cur_lenShort(n) == n + 1
(* The two parts, '/' and the null character. *)
cur_len(n) == n + 2

path_append ==
  /\ due # <<>>
  /\ due' = Tail(due)
  /\ p_app_len' = p_app_len + cur_len(Head(due))
  /\ paths' = Append(paths, [first |-> p_app_len, last |-> p_app_len + Head(due) + 1])

(* What the program goes on to make. *)
Ask(lengths) ==
  /\ due = <<>>
  /\ due' = lengths
  /\ UNCHANGED <<p_app_len, paths>>

ArenaNext == path_append \/ \E lengths \in Seq(Nat) : Ask(lengths)
ArenaSpec == ArenaInit /\ [][ArenaNext]_arenaVars

(* No two paths share a byte of p_app, the null characters included. *)
PathsApart ==
  \A i, j \in 1 .. Len(paths) : i < j => paths[i].last < paths[j].first
=============================================================================
