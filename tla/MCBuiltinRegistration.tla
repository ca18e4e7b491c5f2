------------------------ MODULE MCBuiltinRegistration ------------------------
(* Instances of BuiltinRegistration for TLC. *)
EXTENDS BuiltinRegistration

CONSTANTS g1, g2, g3, t1, t2, b1, b2, e1

TwoBuiltins == <<<<t1, b1>>, <<t2, b2>>>>
AllRegistrable == {<<t1, b1>>, <<t2, b2>>, <<t1, e1>>, <<t2, e1>>}

(* The first type is taken and given up, before, between and after. *)
SomeCalls == {[kind |-> "Register", type |-> t1, entry |-> e1],
              [kind |-> "Unregister", type |-> t1],
              [kind |-> "Types"]}

=============================================================================
