---------------------------- MODULE MCDriverTest ----------------------------
(* Instances of DriverTest for TLC. *)
EXTENDS DriverTest

Currencies == {"", "USD", "EUR"}
UpperCase == [c \in Currencies |-> c]

Free(currency) == <<[type |-> "free", currency |-> currency, original |-> 2, discount |-> 2, payable |-> 0]>>
Wrong == <<[type |-> "free", currency |-> "USD", original |-> 2, discount |-> 1, payable |-> 1]>>

(* One fixture that offers and asserts all, and others that differ from it. *)
Full == [driver |-> TRUE, valid |-> TRUE, type |-> "p.card",
         declares |-> TRUE, stillDeclares |-> TRUE, reverser |-> TRUE,
         assertRedeemed |-> TRUE, assertReversed |-> TRUE,
         inputSnapshot |-> TRUE, consumptionSnapshot |-> TRUE,
         original |-> <<[amount |-> 2, currency |-> "USD"]>>,
         redeem |-> [reference |-> TRUE, redemptionId |-> "r"],
         reverse |-> [reference |-> TRUE, redemptionId |-> "x", reversalId |-> "v",
                      provider |-> "y", mode |-> "partial"]]

FixtureSet ==
  {Full, [Full EXCEPT !.inputSnapshot = FALSE], [Full EXCEPT !.consumptionSnapshot = FALSE],
   [Full EXCEPT !.original = <<>>], [Full EXCEPT !.valid = FALSE],
   [Full EXCEPT !.reverser = FALSE], [Full EXCEPT !.assertRedeemed = FALSE],
   [Full EXCEPT !.assertReversed = FALSE], [Full EXCEPT !.stillDeclares = FALSE],
   [Full EXCEPT !.redeem.redemptionId = NoId], [Full EXCEPT !.redeem.reference = FALSE],
   [Full EXCEPT !.reverse.reference = FALSE]}
  \cup {[Full EXCEPT !.declares = FALSE, !.stillDeclares = s, !.reverser = r,
                     !.assertRedeemed = FALSE, !.assertReversed = a] :
         s \in BOOLEAN, r \in BOOLEAN, a \in BOOLEAN}

Active == [type |-> "p.card", status |-> "active", starts |-> 1, expires |-> 2,
           redeemed |-> 0, remaining |-> 1, policiesValid |-> TRUE, noticesValid |-> TRUE]
InfoSet == {Active, [Active EXCEPT !.type = "p.coupon"], [Active EXCEPT !.type = ""],
            [Active EXCEPT !.starts = 2], [Active EXCEPT !.remaining = -1]}

Eligible == [eligible |-> TRUE, failure |-> FALSE, report |-> "satisfied", outcome |-> Free("USD")]
EvaluationSet ==
  {Eligible, [Eligible EXCEPT !.report = "unsatisfied"], [Eligible EXCEPT !.outcome = Free("EUR")],
   [Eligible EXCEPT !.eligible = FALSE, !.failure = TRUE, !.outcome = <<>>]}

IdSet == {NoId, "r", "v", "p", "q", "x", "y"}
OutcomeSet == {<<>>, Free(""), Free("EUR"), Wrong}
RestoredSet == {<<>>, <<[amount |-> -1, currency |-> ""]>>}

RedeemedSet ==
  [status : {"success"}, failure : {FALSE},
   record : Optional([redemptionId : {NoId, "r"}, provider : {NoId, "p"}, outcome : OutcomeSet])]
  \cup {[status |-> "failure", failure |-> TRUE, record |-> <<>>]}

ReversedSet ==
  [status : {"success"}, failure : {FALSE},
   record : Optional([redemptionId : {NoId, "r", "x"}, reversalId : {NoId, "v"},
                      provider : {NoId, "p", "q"}, outcome : {<<>>}, restored : RestoredSet])]
  \cup {[status |-> "pending", failure |-> FALSE, record |-> <<>>]}

=============================================================================
