---------------------------- MODULE MCEligibility ----------------------------
(* Instances of Eligibility for TLC. *)
EXTENDS Eligibility

Currencies == {"", "usd", "USD", "EUR", "12"}
GoodCurrencies == Currencies \ {"12"}
UpperCase == [c \in Currencies |-> IF c = "usd" THEN "USD" ELSE c]

(* A day is an instant long, and zone "ahead" is a day ahead. *)
Zones == {"", "ahead"}
Days == [z \in Zones |-> [t \in Time |-> IF z = "" THEN t % 7 ELSE (t + 1) % 7]]
Values == {"", " ", "a", " a", "b"}
Trimmed == [v \in Values |-> CASE v = " " -> "" [] v = " a" -> "a" [] OTHER -> v]

Types == {"time_range", "weekday", "redemption_limit", "minimum_amount",
          "maximum_amount", "scope"}

Window(s, e) == [starts |-> s, expires |-> e]
Fact(p, x, w, n) == [provider |-> p, exhausted |-> x, window |-> w, redeemed |-> n]
AllFacts ==
  {Fact("active", FALSE, w, 0) : w \in {Window(0, 0), Window(2, 0), Window(0, 2),
                                         Window(2, 3), Window(3, 2)}}
  \cup {Fact("active", FALSE, Window(0, 0), 1), Fact("active", TRUE, Window(2, 3), 1),
        Fact("pending", FALSE, Window(0, 3), 0), Fact("", FALSE, Window(2, 0), 0),
        Fact("suspended", TRUE, Window(2, 3), 0)}

C(type, p) == [type |-> type, params |-> <<p>>]
Bare(type) == [type |-> type, params |-> <<>>]
Money(n, c) == [amount |-> n, currency |-> c]
Scope(vs, m) == [values |-> vs, match |-> m]

Lists ==
  { <<>>,
    <<C("time_range", Window(0, 2)), C("time_range", Window(2, 0))>>,
    <<C("time_range", Window(1, 3)), C("redemption_limit", 1)>>,
    <<C("time_range", Window(3, 3)), C("weekday", [days |-> {1, 2}, zone |-> ""])>>,
    <<C("weekday", [days |-> {2, 3}, zone |-> "ahead"]), C("time_range", Window(0, 3))>>,
    <<C("weekday", [days |-> {7}, zone |-> ""]), C("redemption_limit", 0)>>,
    <<C("minimum_amount", Money(1, "")), C("maximum_amount", Money(2, "usd"))>>,
    <<C("minimum_amount", Money(0, "12")), C("maximum_amount", Money(1, "EUR"))>>,
    <<C("scope", Scope({"a", " "}, "any")), C("scope", Scope({" a", "b"}, "all"))>>,
    <<C("scope", Scope({" "}, "")), C("scope", Scope({"a"}, "most"))>>,
    <<Bare("minimum_amount"), Bare("scope")>>,
    <<C("provider.rule", 1), C("time_range", Window(2, 0))>> }

AllConstraints == UNION {{l[i] : i \in DOMAIN l} : l \in Lists}

Found(n, c, vs) == [amount |-> [got |-> "money", money |-> Money(n, c)],
                    scope |-> [got |-> "values", values |-> vs]]
Neither(got) == [amount |-> [got |-> got], scope |-> [got |-> got]]
AllInputs == {Found(1, "USD", {"a"}), Found(2, "EUR", {"a", " a"}), Found(-1, "usd", {}),
              Neither("nil"), Neither("error"),
              [amount |-> [got |-> "missing"], scope |-> [got |-> "values", values |-> {"", "b"}]]}

=============================================================================
