---------------------------- MODULE MCOperations ----------------------------
(* Instances of Operations for TLC. *)
EXTENDS Operations

CONSTANTS c1, c2

OperationNames == {"", "Redeem", "Reverse", "Extend"}
ModeNames == {"", "full", "partial", "other"}
Constraints2 == {c1, c2}

Cap(operation, modes) == [operation |-> operation, modes |-> modes]

(* What drivers declare: nothing, reversals, both, and what is refused. *)
Declarations ==
  { <<>>,
    <<Cap("Reverse", <<"full">>)>>,
    <<Cap("Extend", <<>>), Cap("Reverse", <<"full", "partial">>)>>,
    <<Cap("Extend", <<"other">>)>>,
    <<Cap("Reverse", <<"partial">>)>>,
    <<Cap("Extend", <<>>), Cap("Extend", <<"other">>)>>,
    <<Cap("Redeem", <<>>)>> }

Pol(operation, modes, constraints) ==
  [operation |-> operation, matchModes |-> modes, constraints |-> constraints,
   disabled |-> constraints = {}]

Policies ==
  { Pol("Reverse", <<>>, {c1}), Pol("Reverse", <<"full">>, {c2}),
    Pol("Reverse", <<"partial">>, {c1, c2}), Pol("Reverse", <<"full", "partial">>, {}),
    Pol("Reverse", <<"partial">>, {}), Pol("Extend", <<>>, {c2}), Pol("Extend", <<"other">>, {}),
    Pol("Extend", <<>>, {}), Pol("Reverse", <<"full", "full">>, {c1}),
    [Pol("Extend", <<>>, {c1}) EXCEPT !.disabled = TRUE] }

PolicyLists3 == UNION {[1 .. n -> Policies] : n \in 0 .. 3}
PolicyLists1 == UNION {[1 .. n -> Policies] : n \in 0 .. 1}

=============================================================================
