---------------------------- MODULE MCRedirects -----------------------------
(***************************************************************************)
(* Redirects on two namespaces and two module providers, with names of     *)
(* which two differ in case only, or of which one has a "_" where the      *)
(* other has a "-".                                                        *)
(***************************************************************************)
EXTENDS Redirects, TLC

CONSTANTS n1, n2, p1, p2, foo, FOO, bar, foo_bar, foo_minus_bar, t1

MCNsId == {n1, n2}
MCProvider == {p1, p2}
MCToken == {t1}
MCNoToken == {}
MCNsNames == {foo, bar}
MCNames == {foo, FOO, bar}
MCThreeNames == {foo, bar, foo_bar}
MCUnderscores == {bar, foo_bar, foo_minus_bar}
MCFold == [n \in MCNames \cup MCUnderscores |-> IF n = FOO THEN foo ELSE n]
MCNoWild == {}
MCWild == {<<foo_minus_bar, foo_bar>>}
MCEvery == {"sqlite", "mysql", "postgres"}
MCSqlite == {"sqlite"}
MCSymmetry == Permutations(MCNsId) \cup Permutations(MCProvider)
=============================================================================
