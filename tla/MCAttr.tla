------------------------------- MODULE MCAttr -------------------------------
(* Two requests, two attributes, values of size 0, 1 and 2.                *)
EXTENDS Attr, TLC

CONSTANTS r1, r2, a, b, short, long

ReqDef   == {r1, r2}
NameDef  == {a, b}
ValueDef == {Empty, short, long}
SizeDef  == Empty :> 0 @@ short :> 1 @@ long :> 2 @@ a :> 1 @@ b :> 2

Symmetry == Permutations(ReqDef)
=============================================================================
