----------------------------- MODULE MCRegistry -----------------------------
(***************************************************************************)
(* Instance of Registry: numbers 1, 2 and, with an int of three bits, 9,    *)
(* which is cut to 1; text of the digits of -1 and 1; one branch with a    *)
(* table and one without.                                                   *)
(***************************************************************************)
EXTENDS Registry, TLC

CONSTANTS nano, vim, gcc, p1, p2

MCpkgID     == nano :> 1 @@ vim :> 2 @@ gcc :> 9
MCDigits    == {-1, 1}
MCpkgBranch == nano :> "core" @@ vim :> "core" @@ gcc :> "extra"
MCReleases  == "core" :> <<[pkgArch |-> "i386", pkgID |-> 1, ver |-> "1.0"],
                           [pkgArch |-> "amd64", pkgID |-> 1, ver |-> "1.1"],
                           [pkgArch |-> "i386", pkgID |-> 2, ver |-> "2.0"]>>

(* The two callers are alike. *)
MCSymmetry == Permutations({p1, p2})
=============================================================================
