------------------------------ MODULE Discount ------------------------------
(***************************************************************************)
(* One checkout of the discount package: what a driver computes            *)
(* (Discounting), what a provider confirms by itself, and what the host    *)
(* makes of either.  The trusted amount may change before the outcome is   *)
(* resolved, and the outcome may be resolved any number of times.          *)
(***************************************************************************)
EXTENDS Discounting

CONSTANTS
  Amount,          \* the amounts a checkout and a fixed discount start from
  LaterAmount,     \* those in an effect the provider makes up, or of a changed checkout
  BasisPoint       \* the basis points a driver may ask for

ASSUME DiscountConstants ==
  /\ Amount \subseteq Int64 /\ LaterAmount \subseteq Int64
  /\ BasisPoint \subseteq Int64

Moneys == [amount : Amount, currency : Currency]

-----------------------------------------------------------------------------
VARIABLES
  original,    \* the amount before the benefit that the host trusts
  discount,    \* the outcome's discount: <<effect>> or <<>>
  calculated,  \* who made it: a calculation of the driver, or the provider
  resolved     \* what Resolve last answered, <<>> before it is asked

vars == <<original, discount, calculated, resolved>>

NotCalculated == [by |-> "provider"]

Init ==
  /\ original \in Moneys
  /\ discount = <<>>
  /\ calculated = NotCalculated
  /\ resolved = <<>>

(* The driver computes the effect before it consumes the benefit: an error *)
(* leaves the outcome without one.                                         *)
Outcome(answer, how) ==
  /\ discount = <<>> /\ resolved = <<>>
  /\ discount' = IF answer.err = "none" THEN <<answer.effect>> ELSE <<>>
  /\ calculated' = IF answer.err = "none" THEN how ELSE NotCalculated
  /\ UNCHANGED <<original, resolved>>

TakeAmount ==
  \E m \in Moneys :
    Outcome(CalculateAmount(original, m), [by |-> "amount", of |-> original, off |-> m])

TakePercentage ==
  \E p \in BasisPoint :
    Outcome(CalculatePercentage(original, p), [by |-> "percentage", of |-> original, off |-> p])

Confirm ==
  \E e \in Effects(LaterAmount) : Outcome([err |-> "none", effect |-> e], NotCalculated)

(* The checkout changes after the outcome was made. *)
Reprice ==
  /\ resolved = <<>>
  /\ calculated.by # "provider"
  /\ original' \in [amount : LaterAmount, currency : Currency]
  /\ UNCHANGED <<discount, calculated, resolved>>

HostResolves ==
  /\ resolved' = <<Resolve(original, discount)>>
  /\ UNCHANGED <<original, discount, calculated>>

Next == TakeAmount \/ TakePercentage \/ Confirm \/ Reprice \/ HostResolves

Spec == Init /\ [][Next]_vars

-----------------------------------------------------------------------------
(* Properties. *)

(* DiscountEffect.Validate accepts what adds up as integers do, although it  *)
(* adds as the machine does (money.go:60-68): no overflow slips through, and *)
(* no honest effect is refused, up to the largest amount.                    *)
AddsUp(e) ==
  /\ e.type \in EffectType /\ e.currency \in WellFormed
  /\ e.discount >= 0 /\ e.payable >= 0
  /\ e.original = e.payable + e.discount
  /\ e.type = "free" => e.payable = 0

ValidateIsExact == discount # <<>> => (EffectIsValid(discount[1]) <=> AddsUp(discount[1]))

(* The percentage is rounded down, exactly, for every amount and every basis *)
(* point (calculate.go:44-47): never a unit too many or too few.             *)
PercentageIsFloor ==
  calculated.by = "percentage" =>
    LET whole == calculated.of.amount * calculated.off
        saved == discount[1].discount
    IN saved * Basis <= whole /\ whole < (saved + 1) * Basis

(* What the driver computed for an amount resolves against that amount, as   *)
(* it is: the host's check never turns down an effect of the same package.   *)
CalculatedResolves ==
  calculated.by # "provider" =>
    Resolve(calculated.of, discount) = [err |-> "none", effect |-> discount[1]]

(* What Resolve lets through binds host and provider to the same sum, in the *)
(* host's currency, and to resolve it again changes nothing (resolve.go:13). *)
ResolvedIsSettled ==
  resolved # <<>> /\ resolved[1].err = "none" =>
    LET e == resolved[1].effect IN
    /\ AddsUp(e)
    /\ e.original = original.amount
    /\ e.currency = Upper[original.currency]
    /\ Resolve(original, <<e>>) = resolved[1]

=============================================================================
