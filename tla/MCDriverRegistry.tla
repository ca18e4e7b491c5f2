-------------------------- MODULE MCDriverRegistry --------------------------
(* Instances of DriverRegistry for TLC. *)
EXTENDS DriverRegistry

Types == {"p.coupon", "p.card"}
Configs == {"", "{}", "text"}
Objects == {"", "{}"}
OperationSets == {{}, {"Reverse"}, {"Redeem"}}

Made(t, ops, reverser) == <<[type |-> t, operations |-> ops, reverser |-> reverser]>>
Def(t, ops, accepts, makes) ==
  [type |-> t, operations |-> ops, accepts |-> accepts,
   factory |-> TRUE, makes |-> makes]

(* An honest one, which takes text for a configuration; one without a factory; *)
(* one whose drivers are good or, now and then, nil, of another type or        *)
(* without the Reverser they declare.                                          *)
Definitions ==
  { Def("p.coupon", {"Reverse"}, {"{}", "text"}, {Made("p.coupon", {"Reverse"}, TRUE)}),
    [Def("p.coupon", {}, {"", "{}"}, {}) EXCEPT !.factory = FALSE],
    Def("p.card", {}, {"{}"},
        {Made("p.card", {}, FALSE), Made("p.card", {"Reverse"}, FALSE),
         Made("p.coupon", {}, FALSE), <<>>}) }

(* Declares more than its definition, and can do it. *)
Excessive == { Def("p.coupon", {}, {"{}"}, {Made("p.coupon", {"Reverse"}, TRUE)}) }

=============================================================================
