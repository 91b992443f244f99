------------------------------- MODULE MCBarrel -------------------------------
(* A directory inside a directory; the name of the inner one may hold a dot.  *)
EXTENDS Barrel, TLC

CONSTANTS a, b, na, nb, x, ta, tb

MCNames == {na, nb, x, ta, tb, Mod}
MCTemp == [n \in MCNames |-> CASE n \in {nb, x} -> tb [] OTHER -> ta]
Nested == a :> Top @@ b :> a
OwnNames == a :> na @@ b :> nb
\* Directories "a" and "a/x.b": no directory has the stem of the second for a name.
LoneStem == a :> na @@ b :> x

\* What the proof of BarrelsComplete supposes of the tree holds of both.
ASSUME InstanceStems == StemsDiffer

=============================================================================
