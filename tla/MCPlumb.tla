------------------------------- MODULE MCPlumb -------------------------------
(* Plumb with two fids, two tags and two messages of different size.          *)
EXTENDS Plumb
CONSTANTS fa, fb, sa, ma, mb, pa, pb, ta, tb
TwoFids == {fa, fb}
OneSender == {sa}
TwoMsgs == {ma, mb}
TwoTags == {ta, tb}
ShortLong == [m \in TwoMsgs |-> IF m = ma THEN 1 ELSE 2]
OneOrTwo == {1, 2}
TwoProcs == {pa, pb}
Symmetry == UNION {Permutations(S) : S \in {TwoFids, TwoTags, TwoProcs}}
=============================================================================
