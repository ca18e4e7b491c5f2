----------------------------- MODULE Discounting -----------------------------
(***************************************************************************)
(* The functions of the discount package, with the arithmetic of the       *)
(* machine: what a driver computes with CalculateAmount and                *)
(* CalculatePercentage (calculate.go), and what a host makes of an outcome *)
(* with Resolve (resolve.go).                                              *)
(***************************************************************************)
EXTENDS Money

CONSTANT Basis    \* 10000, the basis points of the whole

ASSUME BasisIsSafe == Basis \in Nat \ {0} /\ Basis * Basis <= MaxInt

Fails(err) == [err |-> err, effect |-> ZeroEffect]
Gives(type, original, discount) ==
  [err |-> "none",
   effect |-> [type |-> type, currency |-> Upper[original.currency],
               original |-> original.amount, discount |-> discount,
               payable |-> Wrap(original.amount - discount)]]

(* A mutant of CalculateAmount: a discount is capped nowhere. *)
CalculateAmountUncapped(original, discount) ==
  IF original.currency \notin WellFormed \/ discount.currency \notin WellFormed
    THEN Fails("ErrInvalidCurrency")
  ELSE IF original.amount < 0 \/ discount.amount < 0
    THEN Fails("ErrInvalidAmount")
  ELSE Gives("amount", original, discount.amount)

CalculateAmount(original, discount) ==
  IF original.currency \notin WellFormed \/ discount.currency \notin WellFormed
    THEN Fails("ErrInvalidCurrency")
  ELSE IF discount.currency # NoCurrency /\ ~SameCurrency(original.currency, discount.currency)
    THEN Fails("ErrCurrencyMismatch")
  ELSE IF original.amount < 0 \/ discount.amount < 0
    THEN Fails("ErrInvalidAmount")
  ELSE IF discount.amount > original.amount
    THEN Fails("ErrDiscountExceedsOriginal")
  ELSE Gives("amount", original, discount.amount)

(* Division as the machine does it, toward zero. *)
Quo(n, d) == IF n >= 0 THEN n \div d ELSE -((-n) \div d)

(* A mutant of Saved: the product first, then the division. *)
SavedDirectly(amount, points) == Quo(Wrap(amount * points), Basis)

(* The part saved: the whole multiples of the basis and the rest apart, so  *)
(* that neither product leaves the range.                                   *)
Saved(amount, points) ==
  Wrap(Wrap(Quo(amount, Basis) * points) + Quo(Wrap((amount % Basis) * points), Basis))

CalculatePercentage(original, points) ==
  IF original.currency \notin WellFormed THEN Fails("ErrInvalidCurrency")
  ELSE IF original.amount < 0 THEN Fails("ErrInvalidAmount")
  ELSE IF points < 0 \/ points > Basis THEN Fails("ErrInvalidBasisPoints")
  ELSE Gives(IF points = Basis THEN "free" ELSE "percentage",
             original, Saved(original.amount, points))

(* A mutant of Resolve: the effect keeps the currency it came with. *)
ResolveAsSpelled(original, discount) ==
  IF discount = <<>> THEN Fails("ErrMissingEffect")
  ELSE IF ~EffectIsValid(discount[1]) THEN Fails("ErrValidation")
  ELSE IF discount[1].original # original.amount THEN Fails("ErrOriginalAmountMismatch")
  ELSE [err |-> "none", effect |-> discount[1]]

(* Resolve, on an outcome's discount: <<effect>>, or <<>> where it has none. *)
Resolve(original, discount) ==
  IF original.currency \notin WellFormed THEN Fails("ErrInvalidCurrency")
  ELSE IF original.amount < 0 THEN Fails("ErrInvalidAmount")
  ELSE IF discount = <<>> THEN Fails("ErrMissingEffect")
  ELSE LET e == discount[1] IN
    IF ~EffectIsValid(e) THEN Fails("ErrValidation")
    ELSE IF e.original # original.amount THEN Fails("ErrOriginalAmountMismatch")
    ELSE IF e.currency # NoCurrency /\ ~SameCurrency(e.currency, original.currency)
      THEN Fails("ErrCurrencyMismatch")
    ELSE [err |-> "none", effect |-> [e EXCEPT !.currency = Upper[original.currency]]]

=============================================================================
