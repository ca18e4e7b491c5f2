----------------------- MODULE MCConstraintEvaluation -----------------------
(* Instances of ConstraintEvaluation for TLC. *)
EXTENDS ConstraintEvaluation, TLC

CONSTANTS g1, g2, t1, t2, e1, e2

OneType == {t1}
TwoTypes == {t1, t2}
SomeRegistrable == {<<t1, e1>>, <<t1, e2>>, <<t2, e1>>} \cap (Type \X Entry)

(* No constraint, one of each type, and one type twice. *)
Lists == {<<>>, <<t1, t2>>, <<t1, t1>>}
ShortLists == {<<>>, <<t1, t1>>}

(* One answer for each way out of Evaluate; "unrecognized" stands for the    *)
(* codes an evaluator must not return.                                       *)
SomeAnswers == {Failure, [code |-> "satisfied", reason |-> TRUE],
                [code |-> "unsatisfied", reason |-> TRUE],
                [code |-> "unsatisfied", reason |-> FALSE],
                [code |-> "unrecognized", reason |-> TRUE]}

TwoAnswers == {[code |-> "satisfied", reason |-> FALSE], Failure}

GoroutineSymmetry == Permutations(Goroutine)

=============================================================================
