---------------------------- MODULE MCRedemption ----------------------------
(* Instances of Redemption for TLC. *)
EXTENDS Redemption

(* "a" is redeemed and reversed under IDs, which the provider honours; "b"  *)
(* without any, and once.                                                   *)
Orders == {"a", "b"}
RedemptionIds == [a |-> "r-a", b |-> NoId]
ReversalIds == [a |-> "v-a", b |-> NoId]
ProviderIds == [a |-> "p-a", b |-> "p-b"]
Modes == {"", "other"}
WithIds == {"a"} \X {"redeem", "reverse"}

Currencies == {"", "USD"}
UpperCase == [c \in Currencies |-> c]
Good == [type |-> "free", currency |-> "USD", original |-> 1, discount |-> 1, payable |-> 0]
Bad == [type |-> "free", currency |-> "USD", original |-> 1, discount |-> 0, payable |-> 1]
SomeOutcomes == {<<Good>>, <<Bad>>}

=============================================================================
