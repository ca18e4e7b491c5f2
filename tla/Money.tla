-------------------------------- MODULE Money --------------------------------
(***************************************************************************)
(* Amounts, currencies and monetary effects (money.go).  An amount is an   *)
(* int64: its range is a constant here, so that a small instance has sums  *)
(* that wrap.  A currency is a code whose spelling matters in two ways     *)
(* only: whether it is well formed, and what it is in upper case.          *)
(***************************************************************************)
EXTENDS Integers

CONSTANTS
  MaxInt,       \* math.MaxInt64
  Currency,     \* the strings a currency field may hold
  NoCurrency,   \* the empty one
  WellFormed,   \* those validateCurrencyCode accepts, the empty one included
  Upper         \* Upper[c]: c in upper case (strings.ToUpper)

ASSUME MoneyConstants ==
  /\ MaxInt \in Nat
  /\ NoCurrency \in WellFormed
  /\ WellFormed \subseteq Currency
  /\ Upper \in [Currency -> Currency]
  /\ \A c \in Currency :
       /\ Upper[Upper[c]] = Upper[c]
       /\ Upper[c] = NoCurrency <=> c = NoCurrency
       /\ c \in WellFormed => Upper[c] \in WellFormed

Int64 == -MaxInt - 1 .. MaxInt

(* Machine arithmetic: the sum or product, reduced to the range. *)
Wrap(n) == ((n + MaxInt + 1) % (2 * (MaxInt + 1))) - (MaxInt + 1)

(* strings.EqualFold *)
SameCurrency(c, d) == Upper[c] = Upper[d]

EffectType == {"free", "amount", "percentage"}

(* A DiscountEffect; its type may be any string, "other" stands for those     *)
(* that are none of the three.                                               *)
Effects(amounts) == [type : EffectType \cup {"other"}, currency : Currency,
                     original : amounts, discount : amounts, payable : amounts]

ZeroEffect == [type |-> "other", currency |-> NoCurrency,
               original |-> 0, discount |-> 0, payable |-> 0]

(* A mutant of EffectIsValid: the sum alone is compared, as it comes. *)
EffectSumsUp(e) ==
  /\ e.type \in EffectType
  /\ e.currency \in WellFormed
  /\ e.original >= 0 /\ e.discount >= 0
  /\ e.original = Wrap(e.payable + e.discount)
  /\ e.type = "free" => e.payable = 0

(* DiscountEffect.Validate *)
EffectIsValid(e) ==
  /\ e.type \in EffectType
  /\ e.currency \in WellFormed
  /\ e.original >= 0 /\ e.discount >= 0 /\ e.payable >= 0
  /\ e.payable <= e.original
  /\ e.original = Wrap(e.payable + e.discount)
  /\ e.type = "free" => e.payable = 0

=============================================================================
