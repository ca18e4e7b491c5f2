----------------------------- MODULE MCDiscount -----------------------------
(* Instances of Discount for TLC. *)
EXTENDS Discount

(* "12" is not a code; the rest are, two of them in two spellings. *)
Currencies == {"", "usd", "USD", "EUR", "12"}
GoodCurrencies == Currencies \ {"12"}
UpperCase == [c \in Currencies |-> IF c = "usd" THEN "USD" ELSE c]

(* A width of six bits, in which a basis of five is as safe as 10000 in 64. *)
Amounts == {-32, -1} \cup 0 .. 31
LaterAmounts == {-1, 0, 1, 16, 31}
BasisPoints == -1 .. 6

=============================================================================
