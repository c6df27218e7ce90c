-------------------------------- MODULE MCSts --------------------------------
(* Instances of Sts for TLC: the pattern of "a" also meets the keys of "a:b". *)
EXTENDS Sts, TLC

CONSTANTS p1, p2

TwoNames == {"a", "a:b"}
PrefixKeys == {<<"a", "a">>, <<"a:b", "a:b">>, <<"a", "a:b">>}
Sym == Permutations(Procs)
===============================================================================
