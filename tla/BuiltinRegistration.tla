------------------------- MODULE BuiltinRegistration -------------------------
(***************************************************************************)
(* RegisterBuiltins (constraint/builtin.go:8-24): one Register call after  *)
(* another on the registry, up to the first error, with nothing undone.    *)
(* Other goroutines use the registry between any two of its steps, and may *)
(* be in a RegisterBuiltins of their own.                                  *)
(***************************************************************************)
EXTENDS Registry, Naturals, Sequences

CONSTANTS
  Builtins,    \* the <<type, entry>> pairs to register, in the code's order
  OtherCalls   \* the calls the application makes itself

BuiltinCall(n) == [kind |-> "Register", type |-> Builtins[n][1], entry |-> Builtins[n][2]]

(* The built-in evaluators are functions the package does not export, each *)
(* registered for a type of its own (builtin.go:13-15).                     *)
ASSUME BuiltinConstants ==
  /\ Builtins \in Seq(Registrable) /\ Builtins # <<>>
  /\ \A m, n \in DOMAIN Builtins : Builtins[m][1] = Builtins[n][1] => m = n
  /\ OtherCalls \subseteq Call
  /\ \A c \in OtherCalls, n \in DOMAIN Builtins :
       c.kind = "Register" => c.entry # Builtins[n][2]

VARIABLES
  next,      \* next[g]: the pair g's RegisterBuiltins registers next, or 0
  removed    \* the types an Unregister has emptied (history)

builtinVars == <<vars, next, removed>>

BuiltinInit ==
  /\ Init
  /\ next = [g \in Goroutine |-> 0]
  /\ removed = {}

RegisterBuiltins(g) ==
  /\ pc[g] = "idle" /\ next[g] = 0
  /\ next' = [next EXCEPT ![g] = 1]
  /\ UNCHANGED <<vars, removed>>

RegisterNext(g) ==
  next[g] # 0 /\ Begin(g, BuiltinCall(next[g])) /\ UNCHANGED <<next, removed>>

(* A mutant of After: an error is passed over. *)
AfterAny(g) == IF next[g] < Len(Builtins) THEN next[g] + 1 ELSE 0

(* What follows a Register call: nothing after an error, or after the last. *)
After(g) == IF result[g] = "ok" /\ next[g] < Len(Builtins) THEN next[g] + 1 ELSE 0

(* Any call returns, one of RegisterBuiltins to the loop it is made from. *)
Returned(g) ==
  /\ Return(g)
  /\ next' = [next EXCEPT ![g] = IF @ = 0 THEN 0 ELSE After(g)]
  /\ UNCHANGED removed

(* The application's own calls, and the inside of any call. *)
Other(g) ==
  next[g] = 0 /\ (\E c \in OtherCalls : Begin(g, c)) /\ UNCHANGED <<next, removed>>

Inside(g, Step(_)) ==
  /\ Step(g) /\ UNCHANGED next
  /\ removed' = removed \cup (Present(entries) \ Present(entries'))

BuiltinNext == \E g \in Goroutine :
  \/ RegisterBuiltins(g) \/ RegisterNext(g) \/ Returned(g) \/ Other(g)
  \/ Inside(g, Announce) \/ Inside(g, Work)

BuiltinSpec == BuiltinInit /\ [][BuiltinNext]_builtinVars

(* The Go scheduler runs every runnable goroutine, and a sync.Mutex hands    *)
(* itself to the longest waiter once one has waited a millisecond: a writer  *)
(* is not overtaken for ever, though the lock is taken in between.           *)
BuiltinFairness == \A g \in Goroutine :
  /\ WF_builtinVars(Inside(g, Work)) /\ WF_builtinVars(Returned(g))
  /\ WF_builtinVars(RegisterNext(g))
  /\ SF_builtinVars(Inside(g, Announce))

BuiltinFairSpec == BuiltinSpec /\ BuiltinFairness

-----------------------------------------------------------------------------
(* Properties. *)

Here(n) == entries[Builtins[n][1]] = Builtins[n][2]
Removed(n) == Builtins[n][1] \in removed
Taken(n) == entries[Builtins[n][1]] # NoEntry /\ ~Here(n)

(* A call that fails leaves the built-ins before its error and none after it, *)
(* and calls that meet do not stop each other halfway (builtin.go:18-22): a   *)
(* built-in is there only with those before it, and once all calls are over a *)
(* missing one is behind a type the application has taken or emptied.         *)
BuiltinsInOrder ==
  \A i, j \in DOMAIN Builtins :
    /\ i < j /\ Here(j) => Here(i) \/ Removed(i)
    /\ Here(i) /\ ~Here(j) /\ (\A g \in Goroutine : next[g] = 0) =>
         \E k \in 1 .. j : Taken(k) \/ Removed(k)

(* Every call ends, a RegisterBuiltins with all the calls it makes, however   *)
(* often the others call (registry.go:68-71, 84-88, 98-100): readers that     *)
(* keep coming do not keep a writer out, nor writers a reader.                *)
EveryCallEnds ==
  \A g \in Goroutine : pc[g] # "idle" \/ next[g] # 0 ~> pc[g] = "idle" /\ next[g] = 0

=============================================================================
