--------------------------- MODULE DiscountProofs ---------------------------
(***************************************************************************)
(* The arithmetic of the discount package, for every width, every basis    *)
(* and every amount; and with it the checkout's invariants.                *)
(***************************************************************************)
EXTENDS Discount, TLAPS

(* Quotient and remainder, and that they are the only ones. *)
LEMMA Division ==
  ASSUME NEW n \in Int, NEW d \in Nat \ {0}
  PROVE  n \div d \in Int /\ n % d \in 0 .. d - 1 /\ n = (n \div d) * d + (n % d)
  BY Z3

LEMMA DivisionIsUnique ==
  ASSUME NEW n \in Int, NEW d \in Nat \ {0}, NEW q \in Int, NEW r \in 0 .. d - 1,
         n = q * d + r
  PROVE  n \div d = q /\ n % d = r
  BY Z3

LEMMA WrapInRange ==
  ASSUME NEW n \in Int64
  PROVE  Wrap(n) = n
<1> DEFINE w == 2 * (MaxInt + 1)
<1>1. w \in Nat \ {0} /\ n + MaxInt + 1 \in 0 .. w - 1
  BY MoneyConstants DEF Int64
<1>2. n + MaxInt + 1 = 0 * w + (n + MaxInt + 1)
  BY <1>1, MoneyConstants
<1>3. (n + MaxInt + 1) % w = n + MaxInt + 1
  BY <1>1, <1>2, DivisionIsUnique
<1> QED
  BY <1>1, <1>3, MoneyConstants DEF Wrap, Int64

(* A sum of two amounts that leaves the range comes back negative. *)
LEMMA WrapOverflow ==
  ASSUME NEW n \in Int, MaxInt < n, n <= 2 * MaxInt
  PROVE  Wrap(n) < 0
<1> DEFINE w == 2 * (MaxInt + 1)
<1>1. w \in Nat \ {0} /\ n - MaxInt - 1 \in 0 .. w - 1
  BY MoneyConstants
<1>2. n + MaxInt + 1 = 1 * w + (n - MaxInt - 1)
  BY <1>1, MoneyConstants
<1>3. (n + MaxInt + 1) % w = n - MaxInt - 1
  BY <1>1, <1>2, DivisionIsUnique
<1> QED
  BY <1>1, <1>3, MoneyConstants DEF Wrap

(* Validate, with the machine's addition, accepts exactly the effects whose *)
(* amounts add up as integers.                                              *)
THEOREM ValidateExact ==
  ASSUME NEW e \in Effects(Int64)
  PROVE  EffectIsValid(e) <=> AddsUp(e)
<1> DEFINE s == e.payable + e.discount
<1>1. /\ e.original \in Int64 /\ e.discount \in Int64 /\ e.payable \in Int64
      /\ MaxInt \in Nat
  BY MoneyConstants DEF Effects
<1>2. CASE e.payable >= 0 /\ e.discount >= 0
  <2>1. s \in Int /\ 0 <= s /\ s <= 2 * MaxInt
    BY <1>1, <1>2 DEF Int64
  <2>2. CASE s <= MaxInt
    <3>1. Wrap(s) = s
      BY <1>1, <2>1, <2>2, WrapInRange DEF Int64
    <3> QED
      BY <1>1, <1>2, <2>1, <3>1 DEF EffectIsValid, AddsUp, Int64
  <2>3. CASE s > MaxInt
    <3>1. Wrap(s) < 0
      BY <1>1, <2>1, <2>3, WrapOverflow
    <3>2. Wrap(s) \in Int
      BY <1>1, <2>1, Z3 DEF Wrap
    <3> QED
      BY <1>1, <1>2, <2>1, <2>3, <3>1, <3>2 DEF EffectIsValid, AddsUp, Int64
  <2> QED
    BY <1>1, <2>1, <2>2, <2>3
<1>3. CASE ~(e.payable >= 0 /\ e.discount >= 0)
  BY <1>3 DEF EffectIsValid, AddsUp
<1> QED
  BY <1>2, <1>3

-----------------------------------------------------------------------------
(* What a percentage saves is the product's integer part, to the unit, and no *)
(* more than the amount: no intermediate result left the range.              *)
LEMMA SavedIsFloor ==
  ASSUME NEW amount \in 0 .. MaxInt, NEW points \in 0 .. Basis
  PROVE  /\ Saved(amount, points) \in 0 .. amount
         /\ Saved(amount, points) * Basis <= amount * points
         /\ amount * points < (Saved(amount, points) + 1) * Basis
<1> DEFINE q == amount \div Basis
           r == amount % Basis
           k == (r * points) \div Basis
           m == (r * points) % Basis
<1>1. /\ MaxInt \in Nat /\ Basis \in Nat \ {0} /\ Basis * Basis <= MaxInt
      /\ amount \in Nat /\ points \in Nat
  BY MoneyConstants, BasisIsSafe
<1>2. q \in Int /\ r \in 0 .. Basis - 1 /\ amount = q * Basis + r
  BY <1>1, Division
<1>3. q \in Nat
  BY <1>1, <1>2, Z3
<1>4. r * points \in Nat /\ r * points <= r * Basis /\ r * Basis <= Basis * Basis
  BY <1>1, <1>2, Z3
<1>5. k \in Int /\ m \in 0 .. Basis - 1 /\ r * points = k * Basis + m
  <2>1. r * points \in Int
    BY <1>4
  <2> QED
    BY <1>1, <2>1, Division, Zenon
<1> HIDE DEF q, r, k, m
<1>6. k \in Nat /\ k <= r
  <2>1. k * Basis <= r * Basis
    BY <1>1, <1>2, <1>4, <1>5, Z3
  <2>2. ASSUME k > r PROVE FALSE
    <3>1. (r + 1) * Basis <= k * Basis
      BY <1>1, <1>2, <1>5, <2>2, Z3
    <3>2. (r + 1) * Basis = r * Basis + Basis
      BY <1>1, <1>2, Z3
    <3> QED
      BY <1>1, <1>2, <1>5, <2>1, <3>1, <3>2, Z3
  <2>3. ASSUME k < 0 PROVE FALSE
    <3>1. k * Basis <= (-1) * Basis
      BY <1>1, <1>5, <2>3, Z3
    <3> QED
      BY <1>1, <1>4, <1>5, <3>1, Z3
  <2>4. k \in Int /\ r \in Int
    BY <1>2, <1>5
  <2>5. ~(k > r) /\ ~(k < 0)
    BY <2>2, <2>3
  <2> QED
    BY <2>4, <2>5
<1>7. q * points \in Nat /\ q * points <= q * Basis
  BY <1>1, <1>3, Z3
<1>8. q * points + k \in 0 .. amount
  BY <1>1, <1>2, <1>3, <1>6, <1>7
<1>9. Saved(amount, points) = q * points + k
  <2>1. Wrap(q * points) = q * points
    BY <1>1, <1>2, <1>3, <1>7, <1>8, WrapInRange DEF Int64
  <2>2. Wrap(r * points) = r * points
    <3>1. r * points <= MaxInt
      BY <1>1, <1>2, <1>4, Z3
    <3> QED
      BY <1>1, <1>4, <3>1, WrapInRange DEF Int64
  <2>3. Wrap(q * points + k) = q * points + k
    BY <1>1, <1>8, WrapInRange DEF Int64
  <2>4. Quo(amount, Basis) = q /\ Quo(r * points, Basis) = k
    BY <1>1, <1>4 DEF Quo, q, k
  <2> QED
    BY <2>1, <2>2, <2>3, <2>4 DEF Saved, r
<1>10. amount * points = (q * points + k) * Basis + m
  <2>1. amount * points = (q * Basis) * points + r * points
    BY <1>1, <1>2, <1>3, Z3
  <2>2. (q * Basis) * points = (q * points) * Basis
    BY <1>1, <1>3, Z3
  <2>3. (q * points + k) * Basis = (q * points) * Basis + k * Basis
    BY <1>1, <1>6, <1>7, Z3
  <2>4. /\ (q * Basis) * points \in Int /\ k * Basis \in Int
        /\ (q * points) * Basis \in Int /\ (q * points + k) * Basis \in Int
    BY <1>1, <1>3, <1>6, Z3
  <2> QED
    BY <1>2, <1>4, <1>5, <2>1, <2>2, <2>3, <2>4
<1>11. (q * points + k + 1) * Basis = (q * points + k) * Basis + Basis
  BY <1>1, <1>6, <1>7, Z3
<1>12. (q * points + k) * Basis \in Int
  BY <1>1, <1>6, <1>7, Z3
<1> QED
  BY <1>1, <1>5, <1>8, <1>9, <1>10, <1>11, <1>12

-----------------------------------------------------------------------------
(* The effects the two calculations give. *)

AnyMoney == [amount : Int64, currency : Currency]

LEMMA AmountGives ==
  ASSUME NEW o \in AnyMoney, NEW m \in AnyMoney, CalculateAmount(o, m).err = "none"
  PROVE  LET e == CalculateAmount(o, m).effect IN
         /\ e \in Effects(Int64) /\ AddsUp(e)
         /\ o.amount >= 0 /\ o.currency \in WellFormed
         /\ e.original = o.amount /\ e.currency = Upper[o.currency]
<1>1. /\ o.currency \in WellFormed /\ m.amount >= 0 /\ m.amount <= o.amount
      /\ o.amount \in Int64 /\ m.amount \in Int64
      /\ CalculateAmount(o, m) = Gives("amount", o, m.amount)
  BY MoneyConstants DEF CalculateAmount, Fails, AnyMoney, Int64
<1>2. Wrap(o.amount - m.amount) = o.amount - m.amount
  BY <1>1, MoneyConstants, WrapInRange DEF Int64
<1>3. Upper[o.currency] \in WellFormed /\ Upper[o.currency] \in Currency
  BY <1>1, MoneyConstants
<1> QED
  BY <1>1, <1>2, <1>3, MoneyConstants DEF Gives, Effects, AddsUp, EffectType, Int64

LEMMA PercentageGives ==
  ASSUME NEW o \in AnyMoney, NEW p \in Int64, CalculatePercentage(o, p).err = "none"
  PROVE  LET e == CalculatePercentage(o, p).effect IN
         /\ e \in Effects(Int64) /\ AddsUp(e)
         /\ o.amount >= 0 /\ o.currency \in WellFormed
         /\ e.original = o.amount /\ e.currency = Upper[o.currency]
         /\ e.discount * Basis <= o.amount * p /\ o.amount * p < (e.discount + 1) * Basis
<1> DEFINE s == Saved(o.amount, p)
           type == IF p = Basis THEN "free" ELSE "percentage"
<1>1. /\ o.currency \in WellFormed /\ o.amount \in 0 .. MaxInt /\ p \in 0 .. Basis
      /\ CalculatePercentage(o, p) = Gives(type, o, s)
  BY MoneyConstants, BasisIsSafe DEF CalculatePercentage, Fails, AnyMoney, Int64
<1>2. /\ s \in 0 .. o.amount
      /\ s * Basis <= o.amount * p /\ o.amount * p < (s + 1) * Basis
  BY <1>1, SavedIsFloor
<1> HIDE DEF s
<1>3. Wrap(o.amount - s) = o.amount - s
  BY <1>1, <1>2, MoneyConstants, WrapInRange DEF Int64
<1>4. Upper[o.currency] \in WellFormed /\ Upper[o.currency] \in Currency
  BY <1>1, MoneyConstants
<1>5. CalculatePercentage(o, p).effect =
        [type |-> type, currency |-> Upper[o.currency], original |-> o.amount,
         discount |-> s, payable |-> o.amount - s]
  BY <1>1, <1>3 DEF Gives
<1>6. ASSUME p = Basis PROVE s = o.amount
  <2>1. o.amount * Basis < (s + 1) * Basis
    BY <1>2, <1>6
  <2>2. o.amount \in Int /\ s + 1 \in Int /\ Basis \in Int /\ Basis > 0
    BY <1>1, <1>2, BasisIsSafe
  <2>3. \A a, b \in Int : a * Basis < b * Basis => a < b
    BY <2>2, Z3
  <2>4. o.amount < s + 1
    BY <2>1, <2>2, <2>3
  <2> QED
    BY <1>1, <1>2, <2>2, <2>4
<1> QED
  BY <1>1, <1>2, <1>4, <1>5, <1>6, MoneyConstants DEF Effects, AddsUp, EffectType, Int64

(* An effect that adds up, for the amount and in the currency at hand, is *)
(* resolved as it is.                                                     *)
LEMMA ResolvesAsIs ==
  ASSUME NEW o \in AnyMoney, NEW e \in Effects(Int64), AddsUp(e),
         o.amount >= 0, o.currency \in WellFormed,
         e.original = o.amount, e.currency = Upper[o.currency]
  PROVE  Resolve(o, <<e>>) = [err |-> "none", effect |-> e]
<1>1. EffectIsValid(e)
  BY ValidateExact
<1>2. SameCurrency(e.currency, o.currency)
  BY MoneyConstants DEF SameCurrency, AnyMoney
<1>3. [e EXCEPT !.currency = Upper[o.currency]] = e
  BY DEF Effects
<1> QED
  BY <1>1, <1>2, <1>3, MoneyConstants DEF Resolve, AnyMoney, Int64

-----------------------------------------------------------------------------
(* How the checkout's state came about. *)
Origin ==
  \/ calculated = NotCalculated
  \/ \E o, m \in AnyMoney :
       /\ calculated = [by |-> "amount", of |-> o, off |-> m]
       /\ CalculateAmount(o, m).err = "none"
       /\ discount = <<CalculateAmount(o, m).effect>>
  \/ \E o \in AnyMoney, p \in Int64 :
       /\ calculated = [by |-> "percentage", of |-> o, off |-> p]
       /\ CalculatePercentage(o, p).err = "none"
       /\ discount = <<CalculatePercentage(o, p).effect>>

CheckoutInv ==
  /\ original \in AnyMoney
  /\ discount = <<>> \/ \E e \in Effects(Int64) : discount = <<e>>
  /\ Origin
  /\ resolved = <<>> \/ resolved = <<Resolve(original, discount)>>

LEMMA CheckoutInductive == CheckoutInv /\ [Next]_vars => CheckoutInv'
<1> SUFFICES ASSUME CheckoutInv, [Next]_vars PROVE CheckoutInv'
  OBVIOUS
<1>1. CASE TakeAmount
  <2>1. PICK m \in AnyMoney : Outcome(CalculateAmount(original, m),
                                      [by |-> "amount", of |-> original, off |-> m])
    BY <1>1, DiscountConstants DEF TakeAmount, Moneys, AnyMoney
  <2>2. CASE CalculateAmount(original, m).err = "none"
    BY <2>1, <2>2, AmountGives DEF Outcome, CheckoutInv, Origin
  <2>3. CASE CalculateAmount(original, m).err # "none"
    BY <2>1, <2>3 DEF Outcome, CheckoutInv, Origin
  <2> QED
    BY <2>2, <2>3
<1>2. CASE TakePercentage
  <2>1. PICK p \in Int64 : Outcome(CalculatePercentage(original, p),
                                   [by |-> "percentage", of |-> original, off |-> p])
    BY <1>2, DiscountConstants DEF TakePercentage
  <2>2. CASE CalculatePercentage(original, p).err = "none"
    BY <2>1, <2>2, PercentageGives DEF Outcome, CheckoutInv, Origin
  <2>3. CASE CalculatePercentage(original, p).err # "none"
    BY <2>1, <2>3 DEF Outcome, CheckoutInv, Origin
  <2> QED
    BY <2>2, <2>3
<1>3. CASE Confirm
  BY <1>3, DiscountConstants DEF Confirm, Outcome, CheckoutInv, Origin, Effects
<1>4. CASE Reprice
  BY <1>4, DiscountConstants DEF Reprice, CheckoutInv, Origin, AnyMoney
<1>5. CASE HostResolves
  BY <1>5 DEF HostResolves, CheckoutInv, Origin
<1>6. CASE UNCHANGED vars
  BY <1>6 DEF vars, CheckoutInv, Origin
<1> QED
  BY <1>1, <1>2, <1>3, <1>4, <1>5, <1>6 DEF Next

LEMMA CheckoutInvariance == Spec => []CheckoutInv
<1>1. Init => CheckoutInv
  BY DiscountConstants DEF Init, CheckoutInv, Origin, Moneys, AnyMoney
<1> QED
  BY <1>1, CheckoutInductive, PTL DEF Spec

-----------------------------------------------------------------------------
(* Validate accepts exactly what adds up, whoever made the effect. *)
THEOREM AlwaysExact == Spec => []ValidateIsExact
<1>1. CheckoutInv => ValidateIsExact
  BY ValidateExact DEF CheckoutInv, ValidateIsExact
<1> QED
  BY <1>1, CheckoutInvariance, PTL

(* The percentage is the product's integer part, to the unit, at any width   *)
(* whose range holds the square of the basis.                                *)
THEOREM AlwaysFloor == Spec => []PercentageIsFloor
<1>1. CheckoutInv => PercentageIsFloor
  BY PercentageGives DEF CheckoutInv, Origin, NotCalculated, PercentageIsFloor
<1> QED
  BY <1>1, CheckoutInvariance, PTL

(* The host's check never turns down an effect the package calculated. *)
THEOREM AlwaysResolves == Spec => []CalculatedResolves
<1>1. CheckoutInv => CalculatedResolves
  <2> SUFFICES ASSUME CheckoutInv, calculated.by # "provider"
               PROVE  Resolve(calculated.of, discount) = [err |-> "none", effect |-> discount[1]]
    BY DEF CalculatedResolves
  <2>1. CASE \E o, m \in AnyMoney :
               /\ calculated = [by |-> "amount", of |-> o, off |-> m]
               /\ CalculateAmount(o, m).err = "none"
               /\ discount = <<CalculateAmount(o, m).effect>>
    BY <2>1, AmountGives, ResolvesAsIs
  <2>2. CASE \E o \in AnyMoney, p \in Int64 :
               /\ calculated = [by |-> "percentage", of |-> o, off |-> p]
               /\ CalculatePercentage(o, p).err = "none"
               /\ discount = <<CalculatePercentage(o, p).effect>>
    BY <2>2, PercentageGives, ResolvesAsIs
  <2> QED
    BY <2>1, <2>2 DEF CheckoutInv, Origin, NotCalculated
<1> QED
  BY <1>1, CheckoutInvariance, PTL

(* What is resolved is settled: the trusted amount, an effect that adds up,  *)
(* the host's currency, and the same answer however often it is asked.       *)
THEOREM AlwaysSettled == Spec => []ResolvedIsSettled
<1>1. CheckoutInv => ResolvedIsSettled
  <2> SUFFICES ASSUME CheckoutInv, resolved # <<>>, resolved[1].err = "none"
               PROVE  LET e == resolved[1].effect IN
                      /\ AddsUp(e)
                      /\ e.original = original.amount
                      /\ e.currency = Upper[original.currency]
                      /\ Resolve(original, <<e>>) = resolved[1]
    BY DEF ResolvedIsSettled
  <2>1. resolved[1] = Resolve(original, discount) /\ original \in AnyMoney
    BY DEF CheckoutInv
  <2>2. PICK d \in Effects(Int64) : discount = <<d>>
    BY <2>1 DEF Resolve, Fails, CheckoutInv
  <2>3. /\ original.currency \in WellFormed /\ original.amount >= 0
        /\ EffectIsValid(d) /\ d.original = original.amount
        /\ resolved[1] = [err |-> "none", effect |-> [d EXCEPT !.currency = Upper[original.currency]]]
    BY <2>1, <2>2, MoneyConstants DEF Resolve, Fails, AnyMoney, Int64
  <2>4. Upper[original.currency] \in WellFormed /\ Upper[original.currency] \in Currency
    BY <2>3, MoneyConstants
  <2>5. AddsUp(d)
    BY <2>3, ValidateExact
  <2> DEFINE e == [type |-> d.type, currency |-> Upper[original.currency],
                   original |-> d.original, discount |-> d.discount, payable |-> d.payable]
  <2>8. e = [d EXCEPT !.currency = Upper[original.currency]]
    BY DEF Effects
  <2>6. /\ e \in Effects(Int64) /\ AddsUp(e)
        /\ e.original = original.amount /\ e.currency = Upper[original.currency]
    BY <2>3, <2>4, <2>5 DEF Effects, AddsUp
  <2>7. Resolve(original, <<e>>) = [err |-> "none", effect |-> e]
    BY <2>1, <2>3, <2>6, ResolvesAsIs
  <2> QED
    BY <2>3, <2>6, <2>7, <2>8
<1> QED
  BY <1>1, CheckoutInvariance, PTL

=============================================================================
