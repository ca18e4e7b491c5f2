----------------------------- MODULE MCRegistry -----------------------------
(* Instances of Registry for TLC. *)
EXTENDS Registry, TLC

CONSTANTS g1, g2, g3, t1, t2, e1, e2

TwoTypes == {t1, t2}

(* t2 can hold e1 only, so a Register can fail its checks in both ways:   *)
(* a nil entry, or an entry that is not one for that type.                *)
SomeRegistrable == {<<t1, e1>>, <<t1, e2>>, <<t2, e1>>} \cap (Type \X Entry)

GoroutineSymmetry == Permutations(Goroutine)

=============================================================================
