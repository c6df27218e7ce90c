----------------------------- MODULE MCEtcdCache -----------------------------
(* Instances of EtcdCache for TLC: the expression of "a" also meets "ab". *)
EXTENDS EtcdCache

Unanchored == {<<"a", "a">>, <<"ab", "ab">>, <<"c", "c">>, <<"a", "ab">>}
SomeContents == {{"a", "c"}, {"ab"}, {"a", "ab"}}
SomeQueries == {{}, {"a"}, {"a", "c"}}
===============================================================================
