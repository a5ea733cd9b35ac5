------------------------------ MODULE MCInstall ------------------------------
(***************************************************************************)
(* Instances of Install: a file that both packages hold, and a directory    *)
(* with a fifo in it that only package "one" holds; or one package, a file  *)
(* in a directory.                                                          *)
(***************************************************************************)
EXTENDS Install, TLC

CONSTANTS one, two

MCParent   == <<0, 1, 0>>
MCKind     == <<"dir", "other", "file">>
MCContents == one :> {1, 2, 3} @@ two :> {3}
MCFrail    == {3}

BesideParent   == <<0, 1>>
BesideKind     == <<"dir", "file">>
BesideContents == one :> {1, 2}
BesideFrail    == {2}
=============================================================================
