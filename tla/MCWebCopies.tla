----------------------------- MODULE MCWebCopies -----------------------------
(* Two requests for a file that is shown as it is, and is then replaced by  *)
(* one that is converted.                                                  *)
EXTENDS WebCopies, TLC

CONSTANTS clip, c1, c2

MCCallers   == {c1, c2}
MCConverted == {clip} \X {2}
Symmetry    == Permutations(MCCallers)
=============================================================================
